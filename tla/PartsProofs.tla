----------------------------- MODULE PartsProofs ----------------------------
(***************************************************************************)
(* What the operators' tools show and do, for every interleaving of clicks,*)
(* commands, answers and changes that are made elsewhere: a walk through   *)
(* the event browser shows every record that was there when it began, once;*)
(* the live graph shows one request; a view answers the question that is on*)
(* the screen; the rule page and the keys page show what was confirmed; a  *)
(* configuration is what the routes and the command line were asked for;   *)
(* the development trigger and the smoke test say what happened.           *)
(*                                                                         *)
(* Each part has an inductive invariant of its own, a lemma that it holds  *)
(* at first, one that every step keeps it and one that the properties of   *)
(* the part follow; OperationsProofs puts them together.  At the end, what *)
(* the reports' sums over finite sets need.                                *)
(***************************************************************************)
EXTENDS EventBrowser, LiveStream, DataHooks, KeysPage, RulePage, ConfigRoutes,
        CommandLine, DevTrigger, SmokeTest, Reports, FiniteSetTheorems, SequenceTheorems, TLAPS

-----------------------------------------------------------------------------
(* The order of the records, and the query.                                 *)

Cursor == RecordIds \union {NoCursor}

(* A record of a page after cursor c, and one of a page that ends with c.   *)
After(e, c) == c = NoCursor \/ Behind(e, c)
UpTo(e, c) == e = c \/ Behind(c, e)

(* The order is total and strict.                                           *)
LEMMA BehindIsAnOrder ==
  ASSUME NEW x \in RecordIds, NEW y \in RecordIds, NEW z \in RecordIds
  PROVE  /\ ~Behind(x, x)
         /\ ~(Behind(x, y) /\ Behind(y, x))
         /\ Behind(x, y) /\ Behind(y, z) => Behind(x, z)
         /\ x # y => Behind(x, y) \/ Behind(y, x)
  BY BrowserAssumption DEF Behind, RecordIds

(* The records of S in front of e.                                          *)
InFront(S, e) == {d \in S : Behind(e, d)}

(* More are in front of a record than of one that is in front of it.        *)
LEMMA FewerInFront ==
  ASSUME NEW S \in SUBSET RecordIds
  PROVE  \A e \in S :
           /\ IsFiniteSet(InFront(S, e)) /\ Cardinality(InFront(S, e)) \in Nat
           /\ Cardinality(InFront(S, e)) <= Cardinality(S)
           /\ \A d \in S : Behind(e, d) =>
                Cardinality(InFront(S, d)) < Cardinality(InFront(S, e))
  <1>1. IsFiniteSet(S) /\ \A e \in S : InFront(S, e) \in SUBSET S
    BY BrowserAssumption, FS_Subset DEF InFront, RecordIds
  <1>2. \A e \in S : /\ IsFiniteSet(InFront(S, e)) /\ Cardinality(InFront(S, e)) \in Nat
                     /\ Cardinality(InFront(S, e)) <= Cardinality(S)
    BY <1>1, FS_Subset, FS_CardinalityType
  <1>3. ASSUME NEW e \in S, NEW d \in S, Behind(e, d)
        PROVE  Cardinality(InFront(S, d)) < Cardinality(InFront(S, e))
    <2>1. /\ InFront(S, d) \in SUBSET InFront(S, e)
          /\ d \in InFront(S, e) /\ d \notin InFront(S, d)
      BY <1>3, BehindIsAnOrder DEF InFront
    <2>2. QED
      BY <1>2, <2>1, FS_Subset
  <1>4. QED
    BY <1>2, <1>3

(* A set of natural numbers that is not empty has a least one.              *)
LEMMA LeastNumber ==
  ASSUME NEW T \in SUBSET Nat, T # {}
  PROVE  \E n \in T : \A m \in T : n <= m
  <1>1. PICK n \in T : \A m \in T : << m, n >> \notin OpToRel(<, Nat)
    BY NatLessThanWellFounded, WFMin, Zenon
  <1>2. \A m \in T : ~(m < n)
    BY <1>1, Zenon DEF OpToRel
  <1>3. QED
    BY <1>2

(* Records that are not none have a foremost and a last one.                *)
LEMMA ExtremesExist ==
  ASSUME NEW S \in SUBSET RecordIds, S # {}
  PROVE  /\ \E e \in S : \A d \in S \ {e} : Behind(d, e)
         /\ \E e \in S : \A d \in S \ {e} : Behind(e, d)
  <1> DEFINE rank(e) == Cardinality(InFront(S, e))
             size == Cardinality(S)
             ranks == {rank(e) : e \in S}
             rests == {size - rank(e) : e \in S}
  <1>1. /\ \A e \in S : rank(e) \in Nat /\ rank(e) <= size
        /\ \A e, d \in S : Behind(e, d) => rank(d) < rank(e)
    BY FewerInFront
  <1>2. size \in Nat
    BY BrowserAssumption, FS_Subset, FS_CardinalityType DEF RecordIds
  <1> HIDE DEF rank, size
  <1>3. ranks \in SUBSET Nat /\ ranks # {} /\ rests \in SUBSET Nat /\ rests # {}
    BY <1>1, <1>2
  <1>4. PICK e \in S : \A d \in S : rank(e) <= rank(d)
    <2>1. PICK n \in ranks : \A m \in ranks : n <= m
      BY <1>3, LeastNumber
    <2>2. QED
      BY <2>1
  <1>5. PICK l \in S : \A d \in S : size - rank(l) <= size - rank(d)
    <2>1. PICK n \in rests : \A m \in rests : n <= m
      BY <1>3, LeastNumber
    <2>2. QED
      BY <2>1
  <1>6. \A d \in S \ {e} : Behind(d, e)
    BY <1>1, <1>4, BehindIsAnOrder
  <1>7. \A d \in S \ {l} : Behind(l, d)
    BY <1>1, <1>2, <1>5, BehindIsAnOrder
  <1>8. QED
    BY <1>6, <1>7

(* The foremost records of S are those that few are in front of.            *)
LEMMA ForemostIsAPrefix ==
  ASSUME NEW S \in SUBSET RecordIds, NEW n \in Nat
  PROVE  /\ Foremost(S, n) = {e \in S : Cardinality(InFront(S, e)) < n}
         /\ \A e \in S : IsFiniteSet(InFront(S, e)) /\ Cardinality(InFront(S, e)) \in Nat
         /\ \A e \in Foremost(S, n), d \in S : Behind(e, d) => d \in Foremost(S, n)
  <1>1. \A e \in S : IsFiniteSet(InFront(S, e)) /\ Cardinality(InFront(S, e)) \in Nat
    BY FewerInFront
  <1>2. \A e \in S : InFront(S, e) =
          {d \in S : e # d /\ Records[e].at <= Records[d].at
                     /\ (Records[e].at = Records[d].at => e < d)}
    BY BrowserAssumption DEF InFront, Behind, RecordIds
  <1>3. Foremost(S, n) = {e \in S : Cardinality(InFront(S, e)) < n}
    BY <1>2 DEF Foremost
  <1>4. ASSUME NEW e \in Foremost(S, n), NEW d \in S, Behind(e, d)
        PROVE  d \in Foremost(S, n)
    <2>1. e \in S
      BY <1>3
    <2>2. Cardinality(InFront(S, d)) < Cardinality(InFront(S, e))
      BY <1>4, <2>1, FewerInFront
    <2>3. QED
      BY <1>1, <1>3, <2>1, <2>2
  <1>5. QED
    BY <1>1, <1>3, <1>4

(* If one more would add none, the n foremost are all: otherwise the first  *)
(* of the rest had more than n in front of it, but only n are foremost.     *)
LEMMA ForemostAreNoMore ==
  ASSUME NEW S \in SUBSET RecordIds, NEW n \in Nat \ {0},
         Foremost(S, n + 1) = Foremost(S, n)
  PROVE  Foremost(S, n) = S
  <1> DEFINE page == Foremost(S, n)
             rest == S \ page
  <1>1. /\ page = {e \in S : Cardinality(InFront(S, e)) < n}
        /\ page = {e \in S : Cardinality(InFront(S, e)) < n + 1}
        /\ \A e \in S : IsFiniteSet(InFront(S, e)) /\ Cardinality(InFront(S, e)) \in Nat
    BY ForemostIsAPrefix
  <1>2. page \in SUBSET RecordIds /\ rest \in SUBSET RecordIds
    BY <1>1
  <1> HIDE DEF page
  <1>3. SUFFICES ASSUME rest # {} PROVE FALSE
    BY <1>1 DEF page
  <1>4. PICK first \in rest : \A d \in rest \ {first} : Behind(d, first)
    BY <1>2, <1>3, ExtremesExist
  <1>5. InFront(S, first) \subseteq page
    BY <1>4, <1>2, BehindIsAnOrder DEF InFront
  <1>6. Cardinality(InFront(S, first)) >= n + 1
    BY <1>1, <1>4
  <1>7. InFront(S, first) # {}
    BY <1>6, FS_EmptySet
  <1>8. page # {}
    BY <1>5, <1>7
  <1>9. PICK last \in page : \A d \in page \ {last} : Behind(last, d)
    BY <1>2, <1>8, ExtremesExist
  <1>10. InFront(S, first) \subseteq InFront(S, last) \union {last}
    BY <1>1, <1>5, <1>9 DEF InFront
  <1>11. /\ IsFiniteSet(InFront(S, last) \union {last})
         /\ Cardinality(InFront(S, last) \union {last}) <= Cardinality(InFront(S, last)) + 1
    <2>1. IsFiniteSet(InFront(S, last)) /\ Cardinality(InFront(S, last)) \in Nat
      BY <1>1, <1>9
    <2>2. QED
      BY <2>1, FS_AddElement
  <1>12. Cardinality(InFront(S, first)) <= Cardinality(InFront(S, last) \union {last})
    BY <1>10, <1>11, FS_Subset
  <1>13. Cardinality(InFront(S, last)) < n
    BY <1>1, <1>9
  <1>14. Cardinality(InFront(S, last) \union {last}) \in Nat
    BY <1>11, FS_CardinalityType
  <1>15. QED
    BY <1>1, <1>4, <1>6, <1>9, <1>11, <1>12, <1>13, <1>14

(* What an answer says of the records that were due: each is on the page,   *)
(* or behind the cursor it gives.                                           *)
IsPage(page, due, f, c) ==
  /\ page.events \subseteq RecordIds
  /\ \A e \in page.events : Matches(e, f) /\ After(e, c)
  /\ page.nextCursor \in Cursor
  /\ page.nextCursor # NoCursor =>
       /\ page.nextCursor \in page.events
       /\ \A e \in page.events : UpTo(e, page.nextCursor)
  /\ \A e \in due : After(e, c) =>
       \/ e \in page.events
       \/ page.nextCursor # NoCursor /\ Behind(e, page.nextCursor)

(* The keyset query gives such a page, whatever is stored (queryEvents).     *)
LEMMA QueryEventsGivesAPage ==
  ASSUME NEW f, NEW c \in Cursor, stored \subseteq RecordIds
  PROVE  IsPage(QueryEvents(f, c), {e \in stored : Matches(e, f)}, f, c)
  <1> DEFINE limit == IF PageSize > MaxLimit THEN MaxLimit ELSE PageSize
             match == {e \in stored : Matches(e, f) /\ (c = NoCursor \/ Behind(e, c))}
             rows == Foremost(match, limit + 1)
             page == Foremost(rows, limit)
             next == IF rows = page THEN NoCursor
                     ELSE CHOOSE e \in page : \A d \in page \ {e} : Behind(e, d)
  <1>1. QueryEvents(f, c) = [events |-> page, nextCursor |-> next]
    BY DEF QueryEvents
  <1>2. limit \in Nat \ {0} /\ limit \in Nat /\ limit + 1 \in Nat
    BY BrowserAssumption
  <1>3. /\ match \in SUBSET RecordIds
        /\ match \subseteq stored /\ \A e \in match : Matches(e, f) /\ After(e, c)
        /\ \A e \in stored : Matches(e, f) /\ After(e, c) => e \in match
    BY DEF After
  <1> HIDE DEF limit, match
  <1>4. /\ rows \in SUBSET match
        /\ \A e \in rows, d \in match : Behind(e, d) => d \in rows
    <2>1. rows = {e \in match : Cardinality(InFront(match, e)) < limit + 1}
      BY <1>2, <1>3, ForemostIsAPrefix
    <2>2. \A e \in rows, d \in match : Behind(e, d) => d \in rows
      BY <1>2, <1>3, ForemostIsAPrefix
    <2>3. QED
      BY <2>1, <2>2
  <1>5. /\ page \in SUBSET rows
        /\ \A e \in page, d \in rows : Behind(e, d) => d \in page
    <2>1. rows \in SUBSET RecordIds
      BY <1>3, <1>4
    <2>2. page = {e \in rows : Cardinality(InFront(rows, e)) < limit}
      BY <1>2, <2>1, ForemostIsAPrefix
    <2>3. \A e \in page, d \in rows : Behind(e, d) => d \in page
      BY <1>2, <2>1, ForemostIsAPrefix
    <2>4. QED
      BY <2>2, <2>3
  <1>6. page = Foremost(match, limit)
    <2>1. \A e \in rows : InFront(rows, e) = InFront(match, e)
      BY <1>4 DEF InFront
    <2>2. page = {e \in rows : Cardinality(InFront(match, e)) < limit}
      BY <1>2, <1>3, <1>4, <2>1, ForemostIsAPrefix
    <2>3. /\ rows = {e \in match : Cardinality(InFront(match, e)) < limit + 1}
          /\ Foremost(match, limit) = {e \in match : Cardinality(InFront(match, e)) < limit}
          /\ \A e \in match : Cardinality(InFront(match, e)) \in Nat
      BY <1>2, <1>3, ForemostIsAPrefix
    <2>4. QED
      BY <1>2, <2>2, <2>3
  <1>7. rows = page => page = match
    BY <1>2, <1>3, <1>6, ForemostAreNoMore
  <1>8. rows # {} => page # {}
    <2>1. SUFFICES ASSUME rows # {} PROVE page # {}
      OBVIOUS
    <2>2. PICK first \in rows : \A d \in rows \ {first} : Behind(d, first)
      BY <1>3, <1>4, <2>1, ExtremesExist
    <2>3. InFront(rows, first) = {}
      BY <1>3, <1>4, <2>2, BehindIsAnOrder DEF InFront
    <2>4. Cardinality(InFront(rows, first)) = 0
      BY <2>3, FS_EmptySet
    <2>5. rows \in SUBSET RecordIds
      BY <1>3, <1>4
    <2>6. page = {e \in rows : Cardinality(InFront(rows, e)) < limit}
      BY <1>2, <2>5, ForemostIsAPrefix
    <2>7. QED
      BY <1>2, <2>2, <2>4, <2>6
  <1>9. rows # page => next \in page /\ \A d \in page \ {next} : Behind(next, d)
    BY <1>3, <1>4, <1>5, <1>8, ExtremesExist
  <1> HIDE DEF rows, page, next
  <1>10. rows = page => next = NoCursor
    BY DEF next
  <1>11. NoCursor \notin RecordIds
    BY BrowserAssumption DEF RecordIds
  <1>12. page \subseteq RecordIds /\ next \in Cursor
    BY <1>3, <1>4, <1>5, <1>9, <1>10 DEF Cursor
  <1>13. next # NoCursor => next \in page /\ \A e \in page : UpTo(e, next)
    BY <1>9, <1>10 DEF UpTo
  <1>14. ASSUME NEW e \in stored, Matches(e, f), After(e, c)
         PROVE  e \in page \/ (next # NoCursor /\ Behind(e, next))
    <2>1. e \in match
      BY <1>3, <1>14
    <2>2. CASE rows = page
      BY <1>7, <2>1, <2>2
    <2>3. CASE rows # page
      <3>1. next \in page /\ next \in RecordIds /\ next \in match
        BY <1>3, <1>4, <1>5, <1>9, <2>3
      <3>2. Behind(next, e) => e \in page
        BY <1>4, <1>5, <2>1, <3>1
      <3>3. QED
        BY <1>3, <1>11, <2>1, <3>1, <3>2, BehindIsAnOrder
    <2>4. QED
      BY <2>2, <2>3
  <1>15. QED
    BY <1>1, <1>3, <1>4, <1>5, <1>12, <1>13, <1>14 DEF IsPage

-----------------------------------------------------------------------------
(* The invariant.                                                           *)

Page == [events : SUBSET RecordIds, nextCursor : Cursor]

StateTyped ==
  /\ stored \in SUBSET RecordIds /\ chosen \in BrowserFilters
  /\ pageCursors \in Seq(Cursor) /\ pageCursors[1] = NoCursor
  /\ pageIndex \in Nat /\ pageIndex + 1 <= Len(pageCursors)
  /\ refreshKey \in Nat /\ latestReq \in Nat \ {0}
  /\ fetches \in SUBSET
       [ id : 1..latestReq, filter : BrowserFilters, cursor : Cursor,
         stage : {"sent", "answered", "failed"}, page : Page, due : SUBSET RecordIds ]
  /\ shown \in [ status : {"loading", "ready", "error"}, events : SUBSET RecordIds,
                 nextCursor : Cursor ]
  /\ walk \in [pages : Seq(SUBSET RecordIds), due : SUBSET RecordIds, sound : BOOLEAN]
  /\ clicks \in 0..MaxClicks /\ refusals \in 0..MaxRefusals

(* The page is loading while the latest call is under way, which is for the *)
(* dependencies the effect last ran for.  An answer is a page, whatever has *)
(* been stored since it was read.                                           *)
FetchesSound ==
  /\ \A c, d \in fetches : c.id = d.id => c = d
  /\ (\E c \in fetches : c.id = latestReq) <=> shown.status = "loading"
  /\ \A c \in fetches : c.id = latestReq => c.filter = ran.filter /\ c.cursor = ran.cursor
  /\ \A c \in fetches : c.stage = "answered" =>
       /\ c.due \subseteq stored /\ \A e \in c.due : Matches(e, c.filter)
       /\ IsPage(c.page, c.due, c.filter, c.cursor)
       /\ walk.sound /\ c.id = latestReq => walk.due \subseteq c.due

(* Of the pages behind the reader: their cursors descend, which is also why *)
(* turning a page changes the dependencies, each page lies between its      *)
(* cursors, and what was due is on them or behind.                          *)
PagesBehind ==
  /\ pageIndex <= Len(walk.pages)
  /\ \A i, j \in 1..(pageIndex + 1) : i < j =>
       pageCursors[j] \in RecordIds /\ After(pageCursors[j], pageCursors[i])
  /\ \A i \in 1..pageIndex : \A e \in walk.pages[i] :
       /\ After(e, pageCursors[i])
       /\ \A j \in 1..(pageIndex + 1) : i < j => UpTo(e, pageCursors[j])
  /\ \A e \in walk.due, i \in 1..pageIndex :
       (\E k \in 1..i : e \in walk.pages[k]) \/ Behind(e, pageCursors[i + 1])

(* Of the page that is shown.                                               *)
PageInFront ==
  /\ Len(walk.pages) = pageIndex + 1 /\ walk.pages[pageIndex + 1] = shown.events
  /\ \A e \in shown.events : Matches(e, ran.filter) /\ After(e, ran.cursor)
  /\ shown.nextCursor # NoCursor =>
       /\ After(shown.nextCursor, ran.cursor)
       /\ \A e \in shown.events : UpTo(e, shown.nextCursor)
  /\ \A e \in walk.due :
       \/ \E k \in 1..(pageIndex + 1) : e \in walk.pages[k]
       \/ shown.nextCursor # NoCursor /\ Behind(e, shown.nextCursor)

WalkSound ==
  walk.sound =>
    /\ walk.due \subseteq stored /\ \A e \in walk.due : Matches(e, ran.filter)
    /\ PagesBehind
    /\ shown.status = "ready" /\ ran = Deps => PageInFront

BrowserInv == StateTyped /\ FetchesSound /\ WalkSound

(* An answer stays one while records arrive, and so do the dues of a walk.  *)
LEMMA StoreRecordKeeps ==
  ASSUME BrowserInv, NEW e \in RecordIds, StoreRecord(e)
  PROVE  BrowserInv'
  <1>1. /\ stored' = stored \union {e}
        /\ UNCHANGED << chosen, pageCursors, pageIndex, refreshKey, ran, fetches, latestReq,
                        shown, walk, clicks, refusals >>
    BY DEF StoreRecord
  <1>2. Deps' = Deps
    BY <1>1 DEF Deps
  <1>3. StateTyped'
    BY <1>1 DEF BrowserInv, StateTyped
  <1>4. FetchesSound'
    BY <1>1 DEF BrowserInv, FetchesSound
  <1>5. PagesBehind' <=> PagesBehind
    BY <1>1 DEF PagesBehind
  <1>6. PageInFront' <=> PageInFront
    BY <1>1 DEF PageInFront
  <1>7. WalkSound'
    BY <1>1, <1>2, <1>5, <1>6 DEF BrowserInv, WalkSound
  <1>8. QED
    BY <1>3, <1>4, <1>7 DEF BrowserInv

(* Only what the effect ran for counts for the calls; a click leaves that   *)
(* alone.                                                                   *)
LEMMA ClickKeepsFetches ==
  ASSUME BrowserInv, Click, walk'.sound => (walk.sound /\ walk'.due = walk.due) \/ walk'.due = {}
  PROVE  FetchesSound'
  <1>1. UNCHANGED << stored, ran, fetches, latestReq, shown, refusals >>
    BY DEF Click
  <1>2. ASSUME walk'.sound, NEW c \in fetches, c.stage = "answered", c.id = latestReq
        PROVE  walk'.due \subseteq c.due
    BY <1>2 DEF BrowserInv, FetchesSound
  <1>3. QED
    BY <1>1, <1>2 DEF BrowserInv, FetchesSound

(* Another filter changes the dependencies, so nothing is claimed of the    *)
(* page that is still there.                                                *)
LEMMA ChooseFilterKeeps ==
  ASSUME BrowserInv, NEW f \in BrowserFilters, ChooseFilter(f)
  PROVE  BrowserInv'
  <1>1. /\ ran = Deps /\ f # chosen /\ chosen' = f /\ clicks' \in 0..MaxClicks
        /\ UNCHANGED << stored, ran, fetches, latestReq, shown, refusals, pageCursors,
                        pageIndex, refreshKey, walk >>
    BY BrowserAssumption DEF ChooseFilter, Click, BrowserInv, StateTyped
  <1>2. ran' # Deps'
    BY <1>1 DEF Deps
  <1>3. StateTyped'
    BY <1>1 DEF BrowserInv, StateTyped
  <1>4. FetchesSound'
    BY <1>1, ClickKeepsFetches DEF ChooseFilter
  <1>5. PagesBehind' <=> PagesBehind
    BY <1>1 DEF PagesBehind
  <1>6. WalkSound'
    BY <1>1, <1>2, <1>5 DEF BrowserInv, WalkSound
  <1>7. QED
    BY <1>3, <1>4, <1>6 DEF BrowserInv

(* The first n of a sequence, and one more.                                 *)
LEMMA CutAndAppended ==
  ASSUME NEW S, NEW s \in Seq(S), NEW n \in Nat, n <= Len(s), NEW x \in S
  PROVE  LET t == Append(SubSeq(s, 1, n), x)
         IN  /\ t \in Seq(S) /\ Len(t) = n + 1 /\ t[n + 1] = x
             /\ \A i \in 1..n : t[i] = s[i]
  <1> DEFINE cut == SubSeq(s, 1, n)
  <1>1. \A i \in 1..n : s[i] \in S
    BY LenProperties
  <1>2. /\ cut \in Seq(S) /\ Len(cut) = n
        /\ \A i \in 1..n : cut[i] = s[i]
    BY <1>1, SubSeqProperties
  <1> HIDE DEF cut
  <1>3. QED
    BY <1>2, AppendProperties

(* A new page begins behind all that was shown.                             *)
LEMMA NextPageKeeps ==
  ASSUME BrowserInv, NextPage
  PROVE  BrowserInv'
  <1>1. /\ ran = Deps /\ clicks' \in 0..MaxClicks
        /\ shown.status # "loading" /\ shown.nextCursor # NoCursor
        /\ pageCursors' = Append(SubSeq(pageCursors, 1, pageIndex + 1), shown.nextCursor)
        /\ pageIndex' = pageIndex + 1
        /\ walk' = [walk EXCEPT !.sound = walk.sound /\ shown.status = "ready"]
        /\ UNCHANGED << stored, chosen, refreshKey, ran, fetches, latestReq, shown, refusals >>
    <2>1. Click
      BY Zenon DEF NextPage
    <2>2. clicks' \in 0..MaxClicks
      BY <2>1, BrowserAssumption DEF Click, BrowserInv, StateTyped
    <2>3. QED
      BY <2>1, <2>2, Zenon DEF NextPage, Click
  <1>2. /\ pageCursors \in Seq(Cursor) /\ shown.nextCursor \in RecordIds
        /\ shown.nextCursor \in Cursor /\ pageIndex \in Nat /\ pageIndex + 1 <= Len(pageCursors)
    BY <1>1 DEF BrowserInv, StateTyped, Cursor
  <1>3. /\ pageCursors' \in Seq(Cursor) /\ Len(pageCursors') = pageIndex + 2
        /\ pageCursors'[pageIndex + 2] = shown.nextCursor
        /\ \A i \in 1..(pageIndex + 1) : pageCursors'[i] = pageCursors[i]
    BY <1>1, <1>2, CutAndAppended
  <1>4. /\ walk' \in [pages : Seq(SUBSET RecordIds), due : SUBSET RecordIds, sound : BOOLEAN]
        /\ walk'.pages = walk.pages /\ walk'.due = walk.due
        /\ walk'.sound => walk.sound /\ shown.status = "ready"
    BY <1>1 DEF BrowserInv, StateTyped
  <1>5. StateTyped'
    <2>1. pageCursors[1] = NoCursor
      BY DEF BrowserInv, StateTyped
    <2>2. pageCursors'[1] = NoCursor
      BY <1>2, <1>3, <2>1
    <2>3. pageIndex' \in Nat /\ pageIndex' + 1 <= Len(pageCursors')
      BY <1>1, <1>2, <1>3
    <2>4. QED
      BY <1>1, <1>3, <1>4, <2>2, <2>3 DEF BrowserInv, StateTyped
  <1>6. FetchesSound'
    BY <1>4, ClickKeepsFetches DEF NextPage
  <1>7. ASSUME walk'.sound
        PROVE  PagesBehind' /\ ran' # Deps'
    <2>1. PagesBehind /\ PageInFront
      BY <1>1, <1>4, <1>7 DEF BrowserInv, WalkSound
    <2>2. /\ ran.cursor = pageCursors[pageIndex + 1]
          /\ After(shown.nextCursor, pageCursors[pageIndex + 1])
      BY <1>1, <2>1 DEF PageInFront, Deps
    <2>3. ran' # Deps'
      <3>1. shown.nextCursor # pageCursors[pageIndex + 1]
        BY <1>1, <1>2, <2>2, BehindIsAnOrder DEF After
      <3>2. Deps'.cursor = shown.nextCursor
        BY <1>1, <1>2, <1>3 DEF Deps
      <3>3. QED
        BY <1>1, <2>2, <3>1, <3>2
    <2>4. pageIndex' <= Len(walk'.pages)
      BY <1>1, <1>4, <2>1 DEF PageInFront
    <2>5. ASSUME NEW i \in 1..(pageIndex' + 1), NEW j \in 1..(pageIndex' + 1), i < j
          PROVE  pageCursors'[j] \in RecordIds /\ After(pageCursors'[j], pageCursors'[i])
      <3>1. CASE j <= pageIndex + 1
        <4>1. i \in 1..(pageIndex + 1) /\ j \in 1..(pageIndex + 1)
          BY <1>1, <1>2, <2>5, <3>1
        <4>2. pageCursors[j] \in RecordIds /\ After(pageCursors[j], pageCursors[i])
          BY <2>1, <2>5, <4>1 DEF PagesBehind
        <4>3. QED
          BY <1>3, <4>1, <4>2
      <3>2. CASE j = pageIndex + 2 /\ i = pageIndex + 1
        BY <1>2, <1>3, <2>2, <3>2
      <3>3. CASE j = pageIndex + 2 /\ i < pageIndex + 1
        <4>1. /\ pageCursors[pageIndex + 1] \in RecordIds
              /\ After(pageCursors[pageIndex + 1], pageCursors[i])
          BY <1>2, <2>1, <3>3 DEF PagesBehind
        <4>2. pageCursors[pageIndex + 1] # NoCursor
          BY <4>1, BrowserAssumption DEF RecordIds
        <4>3. pageCursors[i] \in Cursor
          BY <1>2, <3>3
        <4>4. After(shown.nextCursor, pageCursors[i])
          BY <1>2, <2>2, <4>1, <4>2, <4>3, BehindIsAnOrder DEF After, Cursor
        <4>5. QED
          BY <1>2, <1>3, <3>3, <4>4
      <3>4. QED
        BY <1>1, <1>2, <2>5, <3>1, <3>2, <3>3
    <2>6. ASSUME NEW i \in 1..pageIndex', NEW e \in walk'.pages[i]
          PROVE  /\ After(e, pageCursors'[i])
                 /\ \A j \in 1..(pageIndex' + 1) : i < j => UpTo(e, pageCursors'[j])
      <3>1. e \in RecordIds
        <4>1. walk'.pages \in Seq(SUBSET RecordIds)
          BY <1>4
        <4>2. i \in 1..Len(walk'.pages)
          <5>1. Len(walk'.pages) \in Nat /\ pageIndex' \in Nat
            BY <1>2, <4>1, <1>1, LenProperties
          <5>2. QED
            BY <2>4, <2>6, <5>1
        <4>3. walk'.pages[i] \in SUBSET RecordIds
          BY <4>1, <4>2, ElementOfSeq
        <4>4. QED
          BY <2>6, <4>3
      <3>2. CASE i = pageIndex + 1
        <4>1. e \in shown.events
          BY <1>4, <2>1, <2>6, <3>2 DEF PageInFront
        <4>2. After(e, pageCursors[pageIndex + 1]) /\ UpTo(e, shown.nextCursor)
          BY <1>1, <2>1, <2>2, <4>1 DEF PageInFront
        <4>3. QED
          BY <1>1, <1>2, <1>3, <3>2, <4>2
      <3>3. CASE i <= pageIndex
        <4>1. e \in walk.pages[i]
          BY <1>4, <2>6
        <4>2. /\ After(e, pageCursors[i])
              /\ \A j \in 1..(pageIndex + 1) : i < j => UpTo(e, pageCursors[j])
          BY <1>2, <2>1, <3>3, <4>1 DEF PagesBehind
        <4>3. pageCursors[pageIndex + 1] \in RecordIds
          BY <1>2, <2>1, <3>3 DEF PagesBehind
        <4>4. Behind(shown.nextCursor, pageCursors[pageIndex + 1])
          BY <2>2, <4>3, BrowserAssumption DEF After, RecordIds
        <4>5. UpTo(e, pageCursors[pageIndex + 1])
          BY <1>2, <3>3, <4>2
        <4>6. UpTo(e, shown.nextCursor)
          BY <1>2, <3>1, <4>3, <4>4, <4>5, BehindIsAnOrder DEF UpTo
        <4>7. QED
          BY <1>1, <1>2, <1>3, <3>3, <4>2, <4>6
      <3>4. QED
        BY <1>1, <1>2, <2>6, <3>2, <3>3
    <2>7. ASSUME NEW e \in walk'.due, NEW i \in 1..pageIndex'
          PROVE  (\E k \in 1..i : e \in walk'.pages[k]) \/ Behind(e, pageCursors'[i + 1])
      <3>1. CASE i = pageIndex + 1
        <4>1. \/ \E k \in 1..(pageIndex + 1) : e \in walk.pages[k]
              \/ Behind(e, shown.nextCursor)
          BY <1>4, <2>1, <2>7 DEF PageInFront
        <4>2. pageCursors'[i + 1] = shown.nextCursor
          BY <1>2, <1>3, <3>1
        <4>3. QED
          BY <1>4, <3>1, <4>1, <4>2
      <3>2. CASE i <= pageIndex
        <4>1. i \in 1..pageIndex /\ i + 1 \in 1..(pageIndex + 1)
          <5>1. pageIndex' = pageIndex + 1 /\ pageIndex \in Nat
            BY <1>1, <1>2
          <5>2. QED
            BY <2>7, <3>2, <5>1
        <4>2. (\E k \in 1..i : e \in walk.pages[k]) \/ Behind(e, pageCursors[i + 1])
          BY <1>4, <2>1, <2>7, <4>1 DEF PagesBehind
        <4>3. QED
          BY <1>3, <1>4, <4>1, <4>2
      <3>3. QED
        BY <1>1, <1>2, <2>7, <3>1, <3>2
    <2>8. QED
      BY <2>3, <2>4, <2>5, <2>6, <2>7 DEF PagesBehind
  <1>8. WalkSound'
    BY <1>1, <1>4, <1>7 DEF BrowserInv, WalkSound
  <1>9. QED
    BY <1>5, <1>6, <1>8 DEF BrowserInv

(* Back to a page whose cursor is another one.                              *)
LEMMA PrevPageKeeps ==
  ASSUME BrowserInv, PrevPage
  PROVE  BrowserInv'
  <1>1. /\ ran = Deps /\ clicks' \in 0..MaxClicks
        /\ pageIndex > 0 /\ pageIndex' = pageIndex - 1
        /\ UNCHANGED << stored, chosen, pageCursors, refreshKey, ran, fetches, latestReq,
                        shown, walk, refusals >>
    BY BrowserAssumption DEF PrevPage, Click, BrowserInv, StateTyped
  <1>2. StateTyped'
    BY <1>1 DEF BrowserInv, StateTyped
  <1>3. FetchesSound'
    BY <1>1, ClickKeepsFetches DEF PrevPage
  <1>4. ASSUME walk'.sound
        PROVE  PagesBehind' /\ ran' # Deps'
    <2>1. PagesBehind /\ pageIndex \in Nat
      BY <1>1, <1>4 DEF BrowserInv, WalkSound, StateTyped
    <2>2. PagesBehind'
      BY <1>1, <2>1 DEF PagesBehind
    <2>3. /\ pageCursors[pageIndex + 1] \in RecordIds
          /\ After(pageCursors[pageIndex + 1], pageCursors[pageIndex])
      BY <1>1, <2>1 DEF PagesBehind
    <2>4. pageCursors[pageIndex + 1] # pageCursors[pageIndex]
      BY <2>3, BehindIsAnOrder, BrowserAssumption DEF After, RecordIds
    <2>5. Deps'.cursor = pageCursors[pageIndex] /\ ran.cursor = pageCursors[pageIndex + 1]
      BY <1>1, <2>1 DEF Deps
    <2>6. QED
      BY <1>1, <2>2, <2>4, <2>5
  <1>5. WalkSound'
    BY <1>1, <1>4 DEF BrowserInv, WalkSound
  <1>6. QED
    BY <1>2, <1>3, <1>5 DEF BrowserInv

(* A walk that begins has nothing behind it, and nothing due.               *)
LEMMA NewWalkType ==
  /\ NewWalk \in [pages : Seq(SUBSET RecordIds), due : SUBSET RecordIds, sound : BOOLEAN]
  /\ NewWalk.due = {}
  /\ << NoCursor >> \in Seq(Cursor) /\ Len(<< NoCursor >>) = 1 /\ << NoCursor >>[1] = NoCursor
  <1>1. << >> \in Seq(SUBSET RecordIds)
    OBVIOUS
  <1>2. QED
    BY <1>1 DEF NewWalk, Cursor

(* A refresh begins a walk and changes the dependencies.                    *)
LEMMA RefreshKeeps ==
  ASSUME BrowserInv, Refresh
  PROVE  BrowserInv'
  <1>1. /\ ran = Deps /\ clicks' \in 0..MaxClicks
        /\ pageCursors' = << NoCursor >> /\ pageIndex' = 0 /\ refreshKey' = refreshKey + 1
        /\ walk' = NewWalk
        /\ UNCHANGED << stored, chosen, ran, fetches, latestReq, shown, refusals >>
    BY BrowserAssumption DEF Refresh, Click, BrowserInv, StateTyped
  <1>2. StateTyped'
    BY <1>1, NewWalkType DEF BrowserInv, StateTyped
  <1>3. FetchesSound'
    <2>1. Click /\ walk'.due = {}
      BY <1>1, NewWalkType DEF Refresh
    <2>2. QED
      BY <2>1, ClickKeepsFetches
  <1>4. ran' # Deps'
    <2>1. ran.refreshKey = refreshKey /\ Deps'.refreshKey = refreshKey + 1
      BY <1>1 DEF Deps
    <2>2. refreshKey \in Nat
      BY DEF BrowserInv, StateTyped
    <2>3. QED
      BY <1>1, <2>1, <2>2
  <1>6. WalkSound'
    <2>1. walk'.pages = << >> /\ walk'.due = {} /\ Len(walk'.pages) = 0
      BY <1>1 DEF NewWalk
    <2>2. PagesBehind'
      BY <1>1, <2>1 DEF PagesBehind
    <2>3. QED
      BY <1>4, <2>1, <2>2 DEF WalkSound
  <1>7. QED
    BY <1>2, <1>3, <1>6 DEF BrowserInv

(* The effect starts the call that is now the latest.                       *)
LEMMA RunEffectsKeeps ==
  ASSUME BrowserInv, RunEffects
  PROVE  BrowserInv'
  <1> DEFINE new == Fetch(latestReq + 1, Deps)
             kept == {c \in fetches : c.stage # "sent"}
  <1>1. /\ ran' = Deps /\ latestReq' = latestReq + 1
        /\ fetches' = kept \union {new}
        /\ shown' = [shown EXCEPT !.status = "loading"]
        /\ UNCHANGED << stored, chosen, refreshKey, clicks, refusals >>
    BY DEF RunEffects
  <1>2. \/ /\ chosen # ran.filter /\ pageCursors' = << NoCursor >> /\ pageIndex' = 0
           /\ walk' = NewWalk
        \/ chosen = ran.filter /\ UNCHANGED << pageCursors, pageIndex, walk >>
    BY DEF RunEffects
  <1>3. /\ Deps.filter = chosen /\ Deps.cursor = pageCursors[pageIndex + 1]
        /\ Deps.filter \in BrowserFilters /\ Deps.cursor \in Cursor
    <2>1. pageIndex + 1 \in 1..Len(pageCursors) /\ pageCursors \in Seq(Cursor)
      BY LenProperties DEF BrowserInv, StateTyped
    <2>2. pageCursors[pageIndex + 1] \in Cursor
      BY <2>1, ElementOfSeq
    <2>3. QED
      BY <2>2 DEF Deps, BrowserInv, StateTyped
  <1>4. /\ latestReq \in Nat \ {0} /\ latestReq + 1 \in 1..(latestReq + 1)
        /\ \A i \in 1..latestReq : i \in 1..(latestReq + 1) /\ i # latestReq + 1
    BY DEF BrowserInv, StateTyped
  <1>5. /\ new.id = latestReq + 1 /\ new.stage = "sent"
        /\ new.filter = Deps.filter /\ new.cursor = Deps.cursor
        /\ new \in [ id : 1..(latestReq + 1), filter : BrowserFilters, cursor : Cursor,
                     stage : {"sent", "answered", "failed"}, page : Page,
                     due : SUBSET RecordIds ]
    BY <1>3, <1>4 DEF Fetch, EmptyPage, Page, Cursor
  <1> HIDE DEF new
  <1>6. \A c \in kept :
          /\ c.id \in 1..latestReq /\ c.id # latestReq + 1
          /\ c \in [ id : 1..(latestReq + 1), filter : BrowserFilters, cursor : Cursor,
                     stage : {"sent", "answered", "failed"}, page : Page,
                     due : SUBSET RecordIds ]
    BY <1>4 DEF BrowserInv, StateTyped
  <1>7. shown'.status = "loading" /\ shown' \in [ status : {"loading", "ready", "error"},
                                   events : SUBSET RecordIds, nextCursor : Cursor ]
    BY <1>1 DEF BrowserInv, StateTyped
  <1>8. StateTyped'
    <2>1. latestReq' \in Nat \ {0} /\ refreshKey' \in Nat /\ stored' \in SUBSET RecordIds
      BY <1>1, <1>4 DEF BrowserInv, StateTyped
    <2>2. chosen' \in BrowserFilters /\ clicks' \in 0..MaxClicks /\ refusals' \in 0..MaxRefusals
      BY <1>1 DEF BrowserInv, StateTyped
    <2>3. fetches' \in SUBSET
            [ id : 1..latestReq', filter : BrowserFilters, cursor : Cursor,
              stage : {"sent", "answered", "failed"}, page : Page, due : SUBSET RecordIds ]
      BY <1>1, <1>5, <1>6
    <2>4. /\ pageCursors' \in Seq(Cursor) /\ pageCursors'[1] = NoCursor
          /\ pageIndex' \in Nat /\ pageIndex' + 1 <= Len(pageCursors')
          /\ walk' \in [pages : Seq(SUBSET RecordIds), due : SUBSET RecordIds, sound : BOOLEAN]
      <3>1. CASE walk' = NewWalk /\ pageCursors' = << NoCursor >> /\ pageIndex' = 0
        BY <3>1, NewWalkType
      <3>2. CASE UNCHANGED << pageCursors, pageIndex, walk >>
        BY <3>2 DEF BrowserInv, StateTyped
      <3>3. QED
        BY <1>2, <3>1, <3>2
    <2>5. QED
      BY <1>7, <2>1, <2>2, <2>3, <2>4 DEF StateTyped
  <1>9. FetchesSound'
    <2>1. \A c, d \in fetches' : c.id = d.id => c = d
      BY <1>1, <1>5, <1>6 DEF BrowserInv, FetchesSound
    <2>2. \A c \in fetches' : c.id = latestReq' => c = new
      BY <1>1, <1>5, <1>6
    <2>3. \A c \in fetches' : c.stage = "answered" =>
            /\ c \in fetches /\ c.id # latestReq'
            /\ c.due \subseteq stored /\ \A e \in c.due : Matches(e, c.filter)
            /\ IsPage(c.page, c.due, c.filter, c.cursor)
      BY <1>1, <1>5, <1>6 DEF BrowserInv, FetchesSound
    <2>4. new \in fetches' /\ new.id = latestReq'
      BY <1>1, <1>5
    <2>5. QED
      BY <1>1, <1>5, <1>7, <2>1, <2>2, <2>3, <2>4 DEF FetchesSound
  <1>10. WalkSound'
    <2>1. CASE walk' = NewWalk /\ pageIndex' = 0
      <3>1. walk'.pages = << >> /\ walk'.due = {} /\ Len(walk'.pages) = 0
        BY <2>1 DEF NewWalk
      <3>2. PagesBehind'
        BY <2>1, <3>1 DEF PagesBehind
      <3>3. QED
        BY <1>7, <3>1, <3>2 DEF WalkSound
    <2>2. CASE chosen = ran.filter /\ UNCHANGED << pageCursors, pageIndex, walk >>
      <3>1. ran'.filter = ran.filter
        BY <1>1, <1>3, <2>2
      <3>2. PagesBehind' <=> PagesBehind
        BY <2>2 DEF PagesBehind
      <3>3. QED
        BY <1>1, <1>7, <2>2, <3>1, <3>2 DEF BrowserInv, WalkSound
    <2>3. QED
      BY <1>2, <2>1, <2>2
  <1>11. QED
    BY <1>8, <1>9, <1>10 DEF BrowserInv

(* What becomes of a call keeps what it is for; if it is an answer, it is a *)
(* page, and what was due is among what is due now.                         *)
LEMMA FetchGoesOn ==
  ASSUME BrowserInv, ran = Deps,
         NEW c \in fetches,
         NEW d \in [ id : 1..latestReq, filter : BrowserFilters, cursor : Cursor,
                     stage : {"sent", "answered", "failed"}, page : Page,
                     due : SUBSET RecordIds ],
         d.id = c.id, d.filter = c.filter, d.cursor = c.cursor,
         d.stage = "answered" =>
           /\ d.due = {e \in stored : Matches(e, d.filter)}
           /\ IsPage(d.page, d.due, d.filter, d.cursor),
         fetches' = (fetches \ {c}) \union {d}, refusals' \in 0..MaxRefusals,
         UNCHANGED << stored, chosen, pageCursors, pageIndex, refreshKey, ran, latestReq,
                      shown, walk, clicks >>
  PROVE  BrowserInv'
  <1>1. StateTyped'
    BY DEF BrowserInv, StateTyped
  <1>2. ASSUME d.stage = "answered", d.id = latestReq, walk.sound
        PROVE  walk.due \subseteq d.due
    <2>1. d.filter = ran.filter
      BY <1>2 DEF BrowserInv, FetchesSound
    <2>2. walk.due \subseteq stored /\ \A e \in walk.due : Matches(e, ran.filter)
      BY <1>2 DEF BrowserInv, WalkSound
    <2>3. QED
      BY <1>2, <2>1, <2>2
  <1>3. FetchesSound'
    <2>1. \A x, y \in fetches' : x.id = y.id => x = y
      BY DEF BrowserInv, FetchesSound
    <2>2. (\E x \in fetches' : x.id = latestReq) <=> shown.status = "loading"
      BY DEF BrowserInv, FetchesSound
    <2>3. \A x \in fetches' : x.id = latestReq => x.filter = ran.filter /\ x.cursor = ran.cursor
      BY DEF BrowserInv, FetchesSound
    <2>4. \A x \in fetches' : x.stage = "answered" =>
            /\ x.due \subseteq stored /\ \A e \in x.due : Matches(e, x.filter)
            /\ IsPage(x.page, x.due, x.filter, x.cursor)
            /\ walk.sound /\ x.id = latestReq => walk.due \subseteq x.due
      BY <1>2 DEF BrowserInv, FetchesSound
    <2>5. QED
      BY <2>1, <2>2, <2>3, <2>4 DEF FetchesSound
  <1>4. Deps' = Deps /\ (PagesBehind' <=> PagesBehind) /\ (PageInFront' <=> PageInFront)
    BY DEF Deps, PagesBehind, PageInFront
  <1>5. WalkSound'
    BY <1>4 DEF BrowserInv, WalkSound
  <1>6. QED
    BY <1>1, <1>3, <1>5 DEF BrowserInv

(* The answer of the query is a page.                                       *)
LEMMA AnswerPageKeeps ==
  ASSUME BrowserInv, NEW c \in fetches, AnswerPage(c)
  PROVE  BrowserInv'
  <1> DEFINE d == [ c EXCEPT !.stage = "answered", !.page = QueryEvents(c.filter, c.cursor),
                             !.due = {e \in stored : Matches(e, c.filter)} ]
  <1>1. /\ ran = Deps /\ fetches' = (fetches \ {c}) \union {d}
        /\ UNCHANGED << stored, chosen, pageCursors, pageIndex, refreshKey, ran, latestReq,
                        shown, walk, clicks, refusals >>
    BY DEF AnswerPage
  <1>2. /\ c \in [ id : 1..latestReq, filter : BrowserFilters, cursor : Cursor,
                   stage : {"sent", "answered", "failed"}, page : Page, due : SUBSET RecordIds ]
        /\ stored \subseteq RecordIds /\ refusals \in 0..MaxRefusals
    BY DEF BrowserInv, StateTyped
  <1>3. IsPage(QueryEvents(c.filter, c.cursor), {e \in stored : Matches(e, c.filter)},
               c.filter, c.cursor)
    BY <1>2, QueryEventsGivesAPage
  <1>4. QueryEvents(c.filter, c.cursor) \in Page
    <2>1. QueryEvents(c.filter, c.cursor) =
            [ events |-> QueryEvents(c.filter, c.cursor).events,
              nextCursor |-> QueryEvents(c.filter, c.cursor).nextCursor ]
      BY DEF QueryEvents
    <2>2. QED
      BY <1>3, <2>1 DEF IsPage, Page
  <1>5. /\ d.id = c.id /\ d.filter = c.filter /\ d.cursor = c.cursor /\ d.stage = "answered"
        /\ d.page = QueryEvents(c.filter, c.cursor)
        /\ d.due = {e \in stored : Matches(e, c.filter)}
        /\ d \in [ id : 1..latestReq, filter : BrowserFilters, cursor : Cursor,
                   stage : {"sent", "answered", "failed"}, page : Page, due : SUBSET RecordIds ]
    BY <1>2, <1>4
  <1> HIDE DEF d
  <1>6. QED
    BY <1>1, <1>2, <1>3, <1>5, FetchGoesOn

(* A call that fails is for what it was for.                                *)
LEMMA FailPageKeeps ==
  ASSUME BrowserInv, NEW c \in fetches, FailPage(c)
  PROVE  BrowserInv'
  <1> DEFINE d == [c EXCEPT !.stage = "failed"]
  <1>1. /\ ran = Deps /\ fetches' = (fetches \ {c}) \union {d}
        /\ refusals < MaxRefusals /\ refusals' = refusals + 1
        /\ UNCHANGED << stored, chosen, pageCursors, pageIndex, refreshKey, ran, latestReq,
                        shown, walk, clicks >>
    BY DEF FailPage
  <1>2. /\ c \in [ id : 1..latestReq, filter : BrowserFilters, cursor : Cursor,
                   stage : {"sent", "answered", "failed"}, page : Page, due : SUBSET RecordIds ]
        /\ refusals' \in 0..MaxRefusals
    BY <1>1, BrowserAssumption DEF BrowserInv, StateTyped
  <1>3. /\ d.id = c.id /\ d.filter = c.filter /\ d.cursor = c.cursor /\ d.stage = "failed"
        /\ d \in [ id : 1..latestReq, filter : BrowserFilters, cursor : Cursor,
                   stage : {"sent", "answered", "failed"}, page : Page, due : SUBSET RecordIds ]
    BY <1>2
  <1> HIDE DEF d
  <1>4. QED
    BY <1>1, <1>2, <1>3, FetchGoesOn

(* The page that is shown after the ones behind.                            *)
LEMMA AnswerIsShown ==
  ASSUME BrowserInv, ran = Deps, walk.sound,
         NEW c \in fetches, c.id = latestReq, c.stage = "answered",
         shown' = Showing("ready", c.page),
         walk' = [ walk EXCEPT !.pages = Append(SubSeq(@, 1, pageIndex), c.page.events),
                               !.due = IF pageIndex = 0 THEN c.due ELSE @ ],
         UNCHANGED << stored, chosen, pageCursors, pageIndex, refreshKey, ran >>
  PROVE  /\ walk' \in [pages : Seq(SUBSET RecordIds), due : SUBSET RecordIds, sound : BOOLEAN]
         /\ WalkSound'
  <1>1. /\ c.page \in Page /\ c.due \in SUBSET RecordIds /\ pageIndex \in Nat
        /\ walk \in [pages : Seq(SUBSET RecordIds), due : SUBSET RecordIds, sound : BOOLEAN]
        /\ ran.filter = chosen /\ ran.cursor = pageCursors[pageIndex + 1]
        /\ pageCursors[1] = NoCursor
    BY DEF BrowserInv, StateTyped, Deps
  <1>2. /\ c.filter = ran.filter /\ c.cursor = ran.cursor
        /\ c.due \subseteq stored /\ \A e \in c.due : Matches(e, c.filter)
        /\ IsPage(c.page, c.due, c.filter, c.cursor) /\ walk.due \subseteq c.due
    BY DEF BrowserInv, FetchesSound
  <1>3. PagesBehind
    BY DEF BrowserInv, WalkSound
  <1>4. walk.pages \in Seq(SUBSET RecordIds) /\ pageIndex <= Len(walk.pages)
    BY <1>1, <1>3 DEF PagesBehind
  <1>5. c.page.events \in SUBSET RecordIds
    BY <1>1 DEF Page
  <1>6. /\ walk'.sound /\ walk'.due = IF pageIndex = 0 THEN c.due ELSE walk.due
        /\ walk'.pages = Append(SubSeq(walk.pages, 1, pageIndex), c.page.events)
        /\ walk' = [pages |-> walk'.pages, due |-> walk'.due, sound |-> walk.sound]
    BY <1>1
  <1>7. /\ walk'.pages \in Seq(SUBSET RecordIds) /\ Len(walk'.pages) = pageIndex + 1
        /\ walk'.pages[pageIndex + 1] = c.page.events
        /\ \A i \in 1..pageIndex : walk'.pages[i] = walk.pages[i]
    BY <1>1, <1>4, <1>5, <1>6, CutAndAppended
  <1>8. walk'.due \subseteq c.due /\ walk'.due \in SUBSET RecordIds
    BY <1>1, <1>2, <1>6
  <1>9. walk' \in [pages : Seq(SUBSET RecordIds), due : SUBSET RecordIds, sound : BOOLEAN]
    BY <1>1, <1>6, <1>7, <1>8
  <1>10. \A e \in walk'.due, i \in 1..pageIndex : e \in walk.due
    BY <1>1, <1>6
  <1>11. PagesBehind'
    <2>1. pageIndex' = pageIndex /\ pageCursors' = pageCursors
      OBVIOUS
    <2>2. pageIndex <= Len(walk'.pages)
      BY <1>1, <1>7
    <2>3. \A i \in 1..pageIndex : \A e \in walk'.pages[i] :
            /\ After(e, pageCursors[i])
            /\ \A j \in 1..(pageIndex + 1) : i < j => UpTo(e, pageCursors[j])
      BY <1>3, <1>7 DEF PagesBehind
    <2>4. ASSUME NEW e \in walk'.due, NEW i \in 1..pageIndex
          PROVE  (\E k \in 1..i : e \in walk'.pages[k]) \/ Behind(e, pageCursors[i + 1])
      <3>1. (\E k \in 1..i : e \in walk.pages[k]) \/ Behind(e, pageCursors[i + 1])
        BY <1>3, <1>10, <2>4 DEF PagesBehind
      <3>2. \A k \in 1..i : k \in 1..pageIndex
        BY <1>1, <2>4
      <3>3. QED
        BY <1>7, <3>1, <3>2
    <2>5. QED
      BY <1>3, <2>1, <2>2, <2>3, <2>4 DEF PagesBehind
  <1>12. shown'.events = c.page.events /\ shown'.nextCursor = c.page.nextCursor
    BY DEF Showing
  <1>13. PageInFront'
    <2>1. \A e \in c.page.events : Matches(e, ran.filter) /\ After(e, ran.cursor)
      BY <1>2 DEF IsPage
    <2>2. c.page.nextCursor # NoCursor =>
            /\ After(c.page.nextCursor, ran.cursor)
            /\ \A e \in c.page.events : UpTo(e, c.page.nextCursor)
      BY <1>2, <2>1 DEF IsPage
    <2>3. ASSUME NEW e \in walk'.due
          PROVE  \/ \E k \in 1..(pageIndex + 1) : e \in walk'.pages[k]
                 \/ c.page.nextCursor # NoCursor /\ Behind(e, c.page.nextCursor)
      <3>1. \/ \E k \in 1..pageIndex : e \in walk'.pages[k]
            \/ After(e, ran.cursor)
        <4>1. CASE pageIndex = 0
          BY <1>1, <4>1 DEF After
        <4>2. CASE pageIndex # 0
          <5>1. pageIndex \in 1..pageIndex
            BY <1>1, <4>2
          <5>2. \/ \E k \in 1..pageIndex : e \in walk'.pages[k]
                \/ Behind(e, pageCursors[pageIndex + 1])
            BY <1>11, <2>3, <5>1 DEF PagesBehind
          <5>3. QED
            BY <1>1, <5>2 DEF After
        <4>3. QED
          BY <4>1, <4>2
      <3>2. CASE After(e, ran.cursor)
        <4>1. \/ e \in c.page.events
              \/ c.page.nextCursor # NoCursor /\ Behind(e, c.page.nextCursor)
          BY <1>2, <1>8, <2>3, <3>2 DEF IsPage
        <4>2. pageIndex + 1 \in 1..(pageIndex + 1)
          BY <1>1
        <4>3. QED
          BY <1>7, <4>1, <4>2
      <3>3. QED
        BY <1>1, <3>1, <3>2
    <2>4. QED
      BY <1>7, <1>12, <2>1, <2>2, <2>3 DEF PageInFront
  <1>14. walk'.due \subseteq stored /\ \A e \in walk'.due : Matches(e, ran.filter)
    BY <1>2, <1>8
  <1>15. QED
    BY <1>9, <1>11, <1>13, <1>14 DEF WalkSound

(* Only the latest call shows, and is gone then: the page loads no more.    *)
LEMMA ShowPageKeeps ==
  ASSUME BrowserInv, NEW c \in fetches, ShowPage(c)
  PROVE  BrowserInv'
  <1>1. /\ ran = Deps /\ c.stage # "sent" /\ fetches' = fetches \ {c}
        /\ UNCHANGED << stored, chosen, pageCursors, pageIndex, refreshKey, ran, latestReq,
                        clicks, refusals >>
    BY DEF ShowPage
  <1>2. /\ c.stage \in {"sent", "answered", "failed"} /\ c.page \in Page
        /\ walk \in [pages : Seq(SUBSET RecordIds), due : SUBSET RecordIds, sound : BOOLEAN]
        /\ shown \in [ status : {"loading", "ready", "error"}, events : SUBSET RecordIds,
                       nextCursor : Cursor ]
    BY DEF BrowserInv, StateTyped
  <1>3. Deps' = Deps
    BY <1>1 DEF Deps
  <1>4. SUFFICES /\ shown' \in [ status : {"loading", "ready", "error"},
                                 events : SUBSET RecordIds, nextCursor : Cursor ]
                 /\ walk' \in [ pages : Seq(SUBSET RecordIds), due : SUBSET RecordIds,
                                sound : BOOLEAN ]
                 /\ shown'.status = "loading" <=>
                      shown.status = "loading" /\ c.id # latestReq
                 /\ c.id # latestReq => walk' = walk
                 /\ WalkSound'
    <2>1. StateTyped'
      BY <1>1, <1>4 DEF BrowserInv, StateTyped
    <2>2. (\E d \in fetches' : d.id = latestReq) <=> shown'.status = "loading"
      BY <1>1, <1>4 DEF BrowserInv, FetchesSound
    <2>3. \A d \in fetches' : d \in fetches /\ (d.id = latestReq => c.id # latestReq)
      BY <1>1 DEF BrowserInv, FetchesSound
    <2>4. FetchesSound'
      BY <1>1, <1>4, <2>2, <2>3 DEF BrowserInv, FetchesSound
    <2>5. QED
      BY <1>4, <2>1, <2>4 DEF BrowserInv
  <1>5. CASE c.id # latestReq
    <2>1. UNCHANGED << shown, walk >>
      BY <1>5 DEF ShowPage
    <2>2. (PagesBehind' <=> PagesBehind) /\ (PageInFront' <=> PageInFront)
      BY <1>1, <2>1 DEF PagesBehind, PageInFront
    <2>3. QED
      BY <1>1, <1>2, <1>3, <1>5, <2>1, <2>2 DEF BrowserInv, WalkSound
  <1>6. CASE c.id = latestReq /\ c.stage = "failed"
    <2>1. shown' = [shown EXCEPT !.status = "error"] /\ walk' = walk
      BY <1>6 DEF ShowPage
    <2>2. PagesBehind' <=> PagesBehind
      BY <1>1, <2>1 DEF PagesBehind
    <2>3. shown' \in [ status : {"loading", "ready", "error"}, events : SUBSET RecordIds,
                       nextCursor : Cursor ] /\ shown'.status = "error"
      BY <1>2, <2>1
    <2>4. WalkSound'
      BY <1>1, <2>1, <2>2, <2>3 DEF BrowserInv, WalkSound
    <2>5. QED
      BY <1>2, <1>6, <2>1, <2>3, <2>4
  <1>7. CASE c.id = latestReq /\ c.stage = "answered"
    <2>1. /\ shown' = Showing("ready", c.page)
          /\ walk' = IF ~walk.sound THEN walk
                     ELSE [ walk EXCEPT
                         !.pages = Append(SubSeq(@, 1, pageIndex), c.page.events),
                         !.due = IF pageIndex = 0 THEN c.due ELSE @ ]
      BY <1>7 DEF ShowPage
    <2>2. shown' \in [ status : {"loading", "ready", "error"}, events : SUBSET RecordIds,
                       nextCursor : Cursor ] /\ shown'.status = "ready"
      BY <1>2, <2>1 DEF Showing, Page
    <2>3. CASE walk.sound
      <3>1. walk' = [ walk EXCEPT
                         !.pages = Append(SubSeq(@, 1, pageIndex), c.page.events),
                         !.due = IF pageIndex = 0 THEN c.due ELSE @ ]
        BY <2>1, <2>3
      <3>2. QED
        BY <1>1, <1>7, <2>1, <2>2, <2>3, <3>1, AnswerIsShown
    <2>4. CASE ~walk.sound
      BY <1>2, <1>7, <2>1, <2>2, <2>4 DEF WalkSound
    <2>5. QED
      BY <2>3, <2>4
  <1>8. QED
    BY <1>1, <1>2, <1>5, <1>6, <1>7

(* The first page is being loaded, and the walk begins with it.             *)
LEMMA BrowserInitHolds == BrowserInit => BrowserInv
  <1> SUFFICES ASSUME BrowserInit PROVE BrowserInv
    OBVIOUS
  <1>1. /\ stored \in SUBSET RecordIds /\ chosen = NoFilter /\ pageCursors = << NoCursor >>
        /\ pageIndex = 0 /\ refreshKey = 0 /\ ran = Deps /\ latestReq = 1
        /\ fetches = {Fetch(1, Deps)} /\ shown = Showing("loading", EmptyPage)
        /\ walk = NewWalk /\ clicks = 0 /\ refusals = 0
    BY DEF BrowserInit
  <1>2. Deps = [filter |-> NoFilter, cursor |-> NoCursor, refreshKey |-> 0]
    BY <1>1 DEF Deps
  <1>3. /\ Fetch(1, Deps) \in [ id : 1..latestReq, filter : BrowserFilters, cursor : Cursor,
                   stage : {"sent", "answered", "failed"}, page : Page, due : SUBSET RecordIds ]
        /\ Fetch(1, Deps).id = 1 /\ Fetch(1, Deps).stage = "sent"
        /\ Fetch(1, Deps).filter = Deps.filter /\ Fetch(1, Deps).cursor = Deps.cursor
    BY <1>1, <1>2, BrowserAssumption DEF Fetch, EmptyPage, Page, Cursor
  <1>4. /\ shown \in [ status : {"loading", "ready", "error"}, events : SUBSET RecordIds,
                       nextCursor : Cursor ]
        /\ shown.status = "loading"
    BY <1>1 DEF Showing, EmptyPage, Cursor
  <1>5. StateTyped
    <2>1. clicks \in 0..MaxClicks /\ refusals \in 0..MaxRefusals
      BY <1>1, BrowserAssumption
    <2>2. fetches \in SUBSET
            [ id : 1..latestReq, filter : BrowserFilters, cursor : Cursor,
              stage : {"sent", "answered", "failed"}, page : Page, due : SUBSET RecordIds ]
      BY <1>1, <1>3
    <2>3. QED
      BY <1>1, <1>4, <2>1, <2>2, NewWalkType, BrowserAssumption DEF StateTyped
  <1>6. FetchesSound
    BY <1>1, <1>3, <1>4 DEF FetchesSound
  <1>7. WalkSound
    <2>1. walk.pages = << >> /\ walk.due = {} /\ Len(walk.pages) = 0
      BY <1>1 DEF NewWalk
    <2>2. PagesBehind
      BY <1>1, <2>1 DEF PagesBehind
    <2>3. QED
      BY <1>4, <2>1, <2>2 DEF WalkSound
  <1>8. QED
    BY <1>5, <1>6, <1>7 DEF BrowserInv

(* Every step of the event browser keeps the invariant.                     *)
LEMMA BrowserStep == BrowserInv /\ [BrowserNext]_browserVars => BrowserInv'
  <1>1. BrowserInv /\ UNCHANGED browserVars => BrowserInv'
    BY DEF BrowserInv, StateTyped, FetchesSound, WalkSound, PagesBehind, PageInFront, Deps,
           browserVars
  <1>2. BrowserInv /\ BrowserNext => BrowserInv'
    BY StoreRecordKeeps, ChooseFilterKeeps, NextPageKeeps, PrevPageKeeps, RefreshKeeps,
       RunEffectsKeeps, AnswerPageKeeps, FailPageKeeps, ShowPageKeeps DEF BrowserNext
  <1>3. QED
    BY <1>1, <1>2

(* So that it holds of every behaviour of the event browser.                *)
THEOREM BrowserInvariance == BrowserSpec => []BrowserInv
  BY BrowserInitHolds, BrowserStep, PTL DEF BrowserSpec

(* Nothing is behind two cursors of a walk, and nothing that is due is      *)
(* behind none of them.                                                     *)
LEMMA BrowserCovers == BrowserInv => PagesCoverOnce
  <1> SUFFICES ASSUME BrowserInv, shown.status = "ready", ran = Deps, walk.sound
               PROVE  /\ Len(walk.pages) = pageIndex + 1
                      /\ walk.pages[pageIndex + 1] = shown.events
                      /\ \A i, j \in DOMAIN walk.pages :
                           i # j => walk.pages[i] \cap walk.pages[j] = {}
                      /\ \A e \in shown.events : Matches(e, chosen)
                      /\ shown.nextCursor = NoCursor =>
                           walk.due \subseteq
                             UNION {walk.pages[i] : i \in DOMAIN walk.pages}
    BY DEF PagesCoverOnce
  <1>1. /\ PagesBehind /\ PageInFront
        /\ ran.filter = chosen /\ ran.cursor = pageCursors[pageIndex + 1]
    BY DEF BrowserInv, WalkSound, Deps
  <1>2. /\ walk.pages \in Seq(SUBSET RecordIds) /\ Len(walk.pages) = pageIndex + 1
        /\ pageIndex \in Nat /\ DOMAIN walk.pages = 1..(pageIndex + 1)
    BY <1>1, LenProperties DEF BrowserInv, StateTyped, PageInFront
  <1>3. ASSUME NEW i \in 1..(pageIndex + 1), NEW j \in 1..(pageIndex + 1), i < j,
               NEW e \in walk.pages[i], e \in walk.pages[j]
        PROVE  FALSE
    <2>1. i \in 1..pageIndex
      BY <1>2, <1>3
    <2>2. UpTo(e, pageCursors[j])
      BY <1>1, <1>3, <2>1 DEF PagesBehind
    <2>3. After(e, pageCursors[j])
      <3>1. CASE j = pageIndex + 1
        BY <1>1, <1>3, <3>1 DEF PageInFront
      <3>2. CASE j # pageIndex + 1
        <4>1. j \in 1..pageIndex
          BY <1>2, <1>3, <3>2
        <4>2. QED
          BY <1>1, <1>3, <4>1 DEF PagesBehind
      <3>3. QED
        BY <3>1, <3>2
    <2>4. pageCursors[j] \in RecordIds
      BY <1>1, <1>3 DEF PagesBehind
    <2>5. e \in RecordIds
      <3>1. walk.pages[i] \in SUBSET RecordIds
        BY <1>2, <1>3, ElementOfSeq
      <3>2. QED
        BY <1>3, <3>1
    <2>6. Behind(e, pageCursors[j])
      BY <2>3, <2>4, BrowserAssumption DEF After, RecordIds
    <2>7. QED
      BY <2>2, <2>4, <2>5, <2>6, BehindIsAnOrder DEF UpTo
  <1>4. \A i, j \in DOMAIN walk.pages : i # j => walk.pages[i] \cap walk.pages[j] = {}
    <2>1. \A i, j \in 1..(pageIndex + 1) : i # j => i < j \/ j < i
      BY <1>2
    <2>2. QED
      BY <1>2, <1>3, <2>1
  <1>5. QED
    BY <1>1, <1>2, <1>4 DEF PageInFront

(* No page of a walk repeats a record of another one, and the last page     *)
(* completes what was there when the first was read                         *)
(* (persistence/src/telemetry/query.ts: queryEvents, web's                  *)
(* useRoutingEvents.ts).                                                    *)
THEOREM PagesCover == BrowserSpec => []PagesCoverOnce
  BY BrowserInvariance, BrowserCovers, PTL

(* The invariant has the types in it.                                       *)
LEMMA BrowserIsTyped == BrowserInv => BrowserTypeOK
  <1> SUFFICES ASSUME BrowserInv PROVE BrowserTypeOK
    OBVIOUS
  <1>1. /\ stored \subseteq RecordIds /\ chosen \in BrowserFilters
        /\ pageCursors[1] = NoCursor
        /\ \A c \in fetches : c.id \in 1..latestReq /\ c.stage \in {"sent", "answered", "failed"}
        /\ shown.status \in {"loading", "ready", "error"} /\ shown.events \subseteq RecordIds
    BY DEF BrowserInv, StateTyped
  <1>2. clicks <= MaxClicks /\ refusals <= MaxRefusals
    BY BrowserAssumption DEF BrowserInv, StateTyped
  <1>3. pageCursors \in Seq(Cursor) /\ DOMAIN pageCursors = 1..Len(pageCursors)
    BY LenProperties DEF BrowserInv, StateTyped
  <1>4. pageIndex + 1 \in DOMAIN pageCursors
    BY <1>3, LenProperties DEF BrowserInv, StateTyped
  <1>5. \A i \in DOMAIN pageCursors : pageCursors[i] \in RecordIds \union {NoCursor}
    BY <1>3, ElementOfSeq DEF Cursor
  <1>6. shown.status = "loading" => \E c \in fetches : c.id = latestReq
    BY DEF BrowserInv, FetchesSound
  <1>7. QED
    BY <1>1, <1>2, <1>4, <1>5, <1>6 DEF BrowserTypeOK

(* Whatever is clicked, stored and answered, a page that is loading has its *)
(* call under way, and there is a cursor for the page that is asked for     *)
(* (useRoutingEvents.ts).                                                   *)
THEOREM BrowserTyped == BrowserSpec => []BrowserTypeOK
  BY BrowserInvariance, BrowserIsTyped, PTL

-----------------------------------------------------------------------------
(* The live stream: the bus, the SSE route and the graph.                   *)

GraphFields ==
  { "flow", "currentStage", "eventId", "stages", "edges", "nodes", "candidates", "winner",
    "decisionSource", "attempts", "timeline", "hasFallback", "terminalErrorClass",
    "fullEvent", "lastSeq" }

IsGraph(g) == DOMAIN g = GraphFields

ShownFields == {"flow", "eventId", "lastSeq", "timeline", "candidates", "attempts"}

Candidates == {"candidate.evaluated", "candidate.excluded"}

(* What an event that has an entry does to the graph it is applied to.      *)
Grown(g, h, e) ==
  /\ IsGraph(h) /\ h.eventId = g.eventId /\ h.lastSeq = g.lastSeq
  /\ \E stage, outcome :
       h.timeline = Append(g.timeline, [of |-> e, stage |-> stage, state |-> outcome])
  /\ IF e.eventType \in Candidates THEN \E view : h.candidates = Append(g.candidates, view)
     ELSE h.candidates = g.candidates
  /\ IF e.eventType = "execution.completed" THEN \E view : h.attempts = Append(g.attempts, view)
     ELSE h.attempts = g.attempts
  /\ h.flow \in {"success", "failed"} => e.eventType \in Terminal \/ h.flow = g.flow

(* GovernanceCompleted: one more entry, and what goes with it.               *)
LEMMA GovernanceCompletedGrows ==
  ASSUME NEW g, IsGraph(g), NEW e, e.eventType = "governance.completed"
  PROVE  Grown(g, ApplyGovernanceCompleted(g, e), e)
<1> DEFINE isOperatorRule == e.source = "operator_rule"
           policies == IF isOperatorRule THEN "active" ELSE "idle"
           catalog == IF isOperatorRule THEN "idle" ELSE "active"
           catalogNode == IF isOperatorRule THEN "bypassed" ELSE "active"
           m == [ g EXCEPT
                    !.flow = "governance", !.currentStage = "governance",
                    !.decisionSource = e.source,
                    !.stages = [@ EXCEPT !.request = "completed", !.governance = "active"],
                    !.edges = [@ EXCEPT
                                 !.requestToGovernance = "completed",
                                 !.governanceToCandidates = "active",
                                 !.clientToEngine = "completed",
                                 !.engineToPolicies = policies,
                                 !.engineToCatalog = catalog],
                    !.nodes = [@ EXCEPT
                                 !.client = "completed", !.engine = "active",
                                 !.policies = policies, !.catalog = catalogNode] ]
           h == Pushed(m, e, "governance", "completed")
<1>h. ApplyGovernanceCompleted(g, e) = h
  BY DEF ApplyGovernanceCompleted
<1> HIDE DEF isOperatorRule, policies, catalog, catalogNode
<1>g. \A f \in ShownFields : f \in DOMAIN g
  BY DEF IsGraph, GraphFields, ShownFields
<1>a. IsGraph(m)
  BY DEF IsGraph
<1>b. m.eventId = g.eventId
  BY <1>g DEF ShownFields
<1>c. m.lastSeq = g.lastSeq
  BY <1>g DEF ShownFields
<1>d. m.timeline = g.timeline
  BY <1>g DEF ShownFields
<1>e. m.candidates = g.candidates
  BY <1>g DEF ShownFields
<1>f. m.attempts = g.attempts
  BY <1>g DEF ShownFields
<1>i. m.flow = "governance"
  BY <1>g DEF ShownFields
<1> HIDE DEF m
<1>0. \A f \in ShownFields : f \in DOMAIN m
  BY <1>a DEF IsGraph, GraphFields, ShownFields
<1>1. IsGraph(h)
  BY <1>a DEF Pushed, IsGraph
<1>2. h.eventId = g.eventId
  BY <1>0, <1>b, <1>c, <1>d, <1>e, <1>f, <1>i DEF ShownFields, Pushed
<1>3. h.lastSeq = g.lastSeq
  BY <1>0, <1>b, <1>c, <1>d, <1>e, <1>f, <1>i DEF ShownFields, Pushed
<1>4. \E stage, outcome :
        h.timeline = Append(g.timeline, [of |-> e, stage |-> stage, state |-> outcome])
  BY <1>0, <1>b, <1>c, <1>d, <1>e, <1>f, <1>i DEF ShownFields, Pushed
<1>5. h.candidates = g.candidates
  BY <1>0, <1>b, <1>c, <1>d, <1>e, <1>f, <1>i DEF ShownFields, Pushed
<1>6. h.attempts = g.attempts
  BY <1>0, <1>b, <1>c, <1>d, <1>e, <1>f, <1>i DEF ShownFields, Pushed
<1>7. h.flow = "governance"
  BY <1>0, <1>b, <1>c, <1>d, <1>e, <1>f, <1>i DEF ShownFields, Pushed
<1> HIDE DEF h
<1>8. IF e.eventType \in Candidates THEN \E view : h.candidates = Append(g.candidates, view)
      ELSE h.candidates = g.candidates
  BY <1>5 DEF Candidates
<1>9. IF e.eventType = "execution.completed" THEN \E view : h.attempts = Append(g.attempts, view)
      ELSE h.attempts = g.attempts
  BY <1>6
<1>10. h.flow \in {"success", "failed"} => e.eventType \in Terminal \/ h.flow = g.flow
  BY <1>7
<1> QED
  BY <1>1, <1>2, <1>3, <1>4, <1>8, <1>9, <1>10, <1>h, Zenon DEF Grown

(* CandidateEvaluated: one more entry, and what goes with it.                *)
LEMMA CandidateEvaluatedGrows ==
  ASSUME NEW g, IsGraph(g), NEW e, e.eventType = "candidate.evaluated"
  PROVE  Grown(g, ApplyCandidateEvaluated(g, e), e)
<1> DEFINE h == ApplyCandidateEvaluated(g, e)
<1>h. ApplyCandidateEvaluated(g, e) = h
  OBVIOUS
<1>0. \A f \in ShownFields : f \in DOMAIN g
  BY DEF IsGraph, GraphFields, ShownFields
<1>1. IsGraph(h)
  BY DEF ApplyCandidateEvaluated, Pushed, IsGraph
<1>2. h.eventId = g.eventId
  BY <1>0 DEF ShownFields, ApplyCandidateEvaluated, Pushed
<1>3. h.lastSeq = g.lastSeq
  BY <1>0 DEF ShownFields, ApplyCandidateEvaluated, Pushed
<1>4. \E stage, outcome :
        h.timeline = Append(g.timeline, [of |-> e, stage |-> stage, state |-> outcome])
  BY <1>0 DEF ShownFields, ApplyCandidateEvaluated, Pushed
<1>5. \E view : h.candidates = Append(g.candidates, view)
  BY <1>0 DEF ShownFields, ApplyCandidateEvaluated, Pushed
<1>6. h.attempts = g.attempts
  BY <1>0 DEF ShownFields, ApplyCandidateEvaluated, Pushed
<1>7. h.flow = "evaluating"
  BY <1>0 DEF ShownFields, ApplyCandidateEvaluated, Pushed
<1> HIDE DEF h
<1>8. IF e.eventType \in Candidates THEN \E view : h.candidates = Append(g.candidates, view)
      ELSE h.candidates = g.candidates
  BY <1>5 DEF Candidates
<1>9. IF e.eventType = "execution.completed" THEN \E view : h.attempts = Append(g.attempts, view)
      ELSE h.attempts = g.attempts
  BY <1>6
<1>10. h.flow \in {"success", "failed"} => e.eventType \in Terminal \/ h.flow = g.flow
  BY <1>7
<1> QED
  BY <1>1, <1>2, <1>3, <1>4, <1>8, <1>9, <1>10, <1>h, Zenon DEF Grown

(* CandidateExcluded: one more entry, and what goes with it.                 *)
LEMMA CandidateExcludedGrows ==
  ASSUME NEW g, IsGraph(g), NEW e, e.eventType = "candidate.excluded"
  PROVE  Grown(g, ApplyCandidateExcluded(g, e), e)
<1> DEFINE h == ApplyCandidateExcluded(g, e)
<1>h. ApplyCandidateExcluded(g, e) = h
  OBVIOUS
<1>0. \A f \in ShownFields : f \in DOMAIN g
  BY DEF IsGraph, GraphFields, ShownFields
<1>1. IsGraph(h)
  BY DEF ApplyCandidateExcluded, Pushed, IsGraph
<1>2. h.eventId = g.eventId
  BY <1>0 DEF ShownFields, ApplyCandidateExcluded, Pushed
<1>3. h.lastSeq = g.lastSeq
  BY <1>0 DEF ShownFields, ApplyCandidateExcluded, Pushed
<1>4. \E stage, outcome :
        h.timeline = Append(g.timeline, [of |-> e, stage |-> stage, state |-> outcome])
  BY <1>0 DEF ShownFields, ApplyCandidateExcluded, Pushed
<1>5. \E view : h.candidates = Append(g.candidates, view)
  BY <1>0 DEF ShownFields, ApplyCandidateExcluded, Pushed
<1>6. h.attempts = g.attempts
  BY <1>0 DEF ShownFields, ApplyCandidateExcluded, Pushed
<1>7. h.flow = "evaluating"
  BY <1>0 DEF ShownFields, ApplyCandidateExcluded, Pushed
<1> HIDE DEF h
<1>8. IF e.eventType \in Candidates THEN \E view : h.candidates = Append(g.candidates, view)
      ELSE h.candidates = g.candidates
  BY <1>5 DEF Candidates
<1>9. IF e.eventType = "execution.completed" THEN \E view : h.attempts = Append(g.attempts, view)
      ELSE h.attempts = g.attempts
  BY <1>6
<1>10. h.flow \in {"success", "failed"} => e.eventType \in Terminal \/ h.flow = g.flow
  BY <1>7
<1> QED
  BY <1>1, <1>2, <1>3, <1>4, <1>8, <1>9, <1>10, <1>h, Zenon DEF Grown

(* DecisionCommitted: one more entry, and what goes with it.                 *)
LEMMA DecisionCommittedGrows ==
  ASSUME NEW g, IsGraph(g), NEW e, e.eventType = "decision.committed"
  PROVE  Grown(g, ApplyDecisionCommitted(g, e), e)
<1> DEFINE h == ApplyDecisionCommitted(g, e)
<1>h. ApplyDecisionCommitted(g, e) = h
  OBVIOUS
<1>0. \A f \in ShownFields : f \in DOMAIN g
  BY DEF IsGraph, GraphFields, ShownFields
<1>1. IsGraph(h)
  BY DEF ApplyDecisionCommitted, Pushed, IsGraph
<1>2. h.eventId = g.eventId
  BY <1>0 DEF ShownFields, ApplyDecisionCommitted, Pushed
<1>3. h.lastSeq = g.lastSeq
  BY <1>0 DEF ShownFields, ApplyDecisionCommitted, Pushed
<1>4. \E stage, outcome :
        h.timeline = Append(g.timeline, [of |-> e, stage |-> stage, state |-> outcome])
  BY <1>0 DEF ShownFields, ApplyDecisionCommitted, Pushed
<1>5. h.candidates = g.candidates
  BY <1>0 DEF ShownFields, ApplyDecisionCommitted, Pushed
<1>6. h.attempts = g.attempts
  BY <1>0 DEF ShownFields, ApplyDecisionCommitted, Pushed
<1>7. h.flow = "deciding"
  BY <1>0 DEF ShownFields, ApplyDecisionCommitted, Pushed
<1> HIDE DEF h
<1>8. IF e.eventType \in Candidates THEN \E view : h.candidates = Append(g.candidates, view)
      ELSE h.candidates = g.candidates
  BY <1>5 DEF Candidates
<1>9. IF e.eventType = "execution.completed" THEN \E view : h.attempts = Append(g.attempts, view)
      ELSE h.attempts = g.attempts
  BY <1>6
<1>10. h.flow \in {"success", "failed"} => e.eventType \in Terminal \/ h.flow = g.flow
  BY <1>7
<1> QED
  BY <1>1, <1>2, <1>3, <1>4, <1>8, <1>9, <1>10, <1>h, Zenon DEF Grown

(* ExecutionStarted: one more entry, and what goes with it.                  *)
LEMMA ExecutionStartedGrows ==
  ASSUME NEW g, IsGraph(g), NEW e, e.eventType = "execution.started"
  PROVE  Grown(g, ApplyExecutionStarted(g, e), e)
<1> DEFINE h == ApplyExecutionStarted(g, e)
<1>h. ApplyExecutionStarted(g, e) = h
  OBVIOUS
<1>0. \A f \in ShownFields : f \in DOMAIN g
  BY DEF IsGraph, GraphFields, ShownFields
<1>1. IsGraph(h)
  BY DEF ApplyExecutionStarted, Pushed, IsGraph
<1>2. h.eventId = g.eventId
  BY <1>0 DEF ShownFields, ApplyExecutionStarted, Pushed
<1>3. h.lastSeq = g.lastSeq
  BY <1>0 DEF ShownFields, ApplyExecutionStarted, Pushed
<1>4. \E stage, outcome :
        h.timeline = Append(g.timeline, [of |-> e, stage |-> stage, state |-> outcome])
  BY <1>0 DEF ShownFields, ApplyExecutionStarted, Pushed
<1>5. h.candidates = g.candidates
  BY <1>0 DEF ShownFields, ApplyExecutionStarted, Pushed
<1>6. h.attempts = g.attempts
  BY <1>0 DEF ShownFields, ApplyExecutionStarted, Pushed
<1>7. h.flow = "executing"
  BY <1>0 DEF ShownFields, ApplyExecutionStarted, Pushed
<1> HIDE DEF h
<1>8. IF e.eventType \in Candidates THEN \E view : h.candidates = Append(g.candidates, view)
      ELSE h.candidates = g.candidates
  BY <1>5 DEF Candidates
<1>9. IF e.eventType = "execution.completed" THEN \E view : h.attempts = Append(g.attempts, view)
      ELSE h.attempts = g.attempts
  BY <1>6
<1>10. h.flow \in {"success", "failed"} => e.eventType \in Terminal \/ h.flow = g.flow
  BY <1>7
<1> QED
  BY <1>1, <1>2, <1>3, <1>4, <1>8, <1>9, <1>10, <1>h, Zenon DEF Grown

(* ExecutionCompleted: one more entry, and what goes with it.                *)
LEMMA ExecutionCompletedGrows ==
  ASSUME NEW g, IsGraph(g), NEW e, e.eventType = "execution.completed"
  PROVE  Grown(g, ApplyExecutionCompleted(g, e), e)
<1> DEFINE h == ApplyExecutionCompleted(g, e)
<1>h. ApplyExecutionCompleted(g, e) = h
  OBVIOUS
<1>0. \A f \in ShownFields : f \in DOMAIN g
  BY DEF IsGraph, GraphFields, ShownFields
<1>1. IsGraph(h)
  BY DEF ApplyExecutionCompleted, Pushed, IsGraph
<1>2. h.eventId = g.eventId
  BY <1>0 DEF ShownFields, ApplyExecutionCompleted, Pushed
<1>3. h.lastSeq = g.lastSeq
  BY <1>0 DEF ShownFields, ApplyExecutionCompleted, Pushed
<1>4. \E stage, outcome :
        h.timeline = Append(g.timeline, [of |-> e, stage |-> stage, state |-> outcome])
  BY <1>0 DEF ShownFields, ApplyExecutionCompleted, Pushed
<1>5. h.candidates = g.candidates
  BY <1>0 DEF ShownFields, ApplyExecutionCompleted, Pushed
<1>6. \E view : h.attempts = Append(g.attempts, view)
  BY <1>0 DEF ShownFields, ApplyExecutionCompleted, Pushed
<1>7. h.flow = g.flow
  BY <1>0 DEF ShownFields, ApplyExecutionCompleted, Pushed
<1> HIDE DEF h
<1>8. IF e.eventType \in Candidates THEN \E view : h.candidates = Append(g.candidates, view)
      ELSE h.candidates = g.candidates
  BY <1>5 DEF Candidates
<1>9. IF e.eventType = "execution.completed" THEN \E view : h.attempts = Append(g.attempts, view)
      ELSE h.attempts = g.attempts
  BY <1>6
<1>10. h.flow \in {"success", "failed"} => e.eventType \in Terminal \/ h.flow = g.flow
  BY <1>7
<1> QED
  BY <1>1, <1>2, <1>3, <1>4, <1>8, <1>9, <1>10, <1>h, Zenon DEF Grown

(* ResultCompleted: one more entry, and what goes with it.                   *)
LEMMA ResultCompletedGrows ==
  ASSUME NEW g, IsGraph(g), NEW e, e.eventType = "result.completed"
  PROVE  Grown(g, ApplyResultCompleted(g, e), e)
<1> DEFINE h == ApplyResultCompleted(g, e)
<1>h. ApplyResultCompleted(g, e) = h
  OBVIOUS
<1>0. \A f \in ShownFields : f \in DOMAIN g
  BY DEF IsGraph, GraphFields, ShownFields
<1>1. IsGraph(h)
  BY DEF ApplyResultCompleted, Pushed, IsGraph
<1>2. h.eventId = g.eventId
  BY <1>0 DEF ShownFields, ApplyResultCompleted, Pushed
<1>3. h.lastSeq = g.lastSeq
  BY <1>0 DEF ShownFields, ApplyResultCompleted, Pushed
<1>4. \E stage, outcome :
        h.timeline = Append(g.timeline, [of |-> e, stage |-> stage, state |-> outcome])
  BY <1>0 DEF ShownFields, ApplyResultCompleted, Pushed
<1>5. h.candidates = g.candidates
  BY <1>0 DEF ShownFields, ApplyResultCompleted, Pushed
<1>6. h.attempts = g.attempts
  BY <1>0 DEF ShownFields, ApplyResultCompleted, Pushed
<1>7. h.flow = "success"
  BY <1>0 DEF ShownFields, ApplyResultCompleted, Pushed
<1> HIDE DEF h
<1>8. IF e.eventType \in Candidates THEN \E view : h.candidates = Append(g.candidates, view)
      ELSE h.candidates = g.candidates
  BY <1>5 DEF Candidates
<1>9. IF e.eventType = "execution.completed" THEN \E view : h.attempts = Append(g.attempts, view)
      ELSE h.attempts = g.attempts
  BY <1>6
<1>10. h.flow \in {"success", "failed"} => e.eventType \in Terminal \/ h.flow = g.flow
  BY <1>7 DEF Terminal
<1> QED
  BY <1>1, <1>2, <1>3, <1>4, <1>8, <1>9, <1>10, <1>h, Zenon DEF Grown

(* ResultFailed: one more entry, and what goes with it.                      *)
LEMMA ResultFailedGrows ==
  ASSUME NEW g, IsGraph(g), NEW e, e.eventType = "result.failed"
  PROVE  Grown(g, ApplyResultFailed(g, e), e)
<1> DEFINE h == ApplyResultFailed(g, e)
<1>h. ApplyResultFailed(g, e) = h
  OBVIOUS
<1>0. \A f \in ShownFields : f \in DOMAIN g
  BY DEF IsGraph, GraphFields, ShownFields
<1>1. IsGraph(h)
  BY DEF ApplyResultFailed, Pushed, IsGraph
<1>2. h.eventId = g.eventId
  BY <1>0 DEF ShownFields, ApplyResultFailed, Pushed
<1>3. h.lastSeq = g.lastSeq
  BY <1>0 DEF ShownFields, ApplyResultFailed, Pushed
<1>4. \E stage, outcome :
        h.timeline = Append(g.timeline, [of |-> e, stage |-> stage, state |-> outcome])
  BY <1>0 DEF ShownFields, ApplyResultFailed, Pushed
<1>5. h.candidates = g.candidates
  BY <1>0 DEF ShownFields, ApplyResultFailed, Pushed
<1>6. h.attempts = g.attempts
  BY <1>0 DEF ShownFields, ApplyResultFailed, Pushed
<1>7. h.flow = "failed"
  BY <1>0 DEF ShownFields, ApplyResultFailed, Pushed
<1> HIDE DEF h
<1>8. IF e.eventType \in Candidates THEN \E view : h.candidates = Append(g.candidates, view)
      ELSE h.candidates = g.candidates
  BY <1>5 DEF Candidates
<1>9. IF e.eventType = "execution.completed" THEN \E view : h.attempts = Append(g.attempts, view)
      ELSE h.attempts = g.attempts
  BY <1>6
<1>10. h.flow \in {"success", "failed"} => e.eventType \in Terminal \/ h.flow = g.flow
  BY <1>7 DEF Terminal
<1> QED
  BY <1>1, <1>2, <1>3, <1>4, <1>8, <1>9, <1>10, <1>h, Zenon DEF Grown


(* ------------------------------ Sequences -------------------------------- *)

IsSeq(s) == \E S : s \in Seq(S)

(* What is known of any sequence.                                            *)
LEMMA SeqHas ==
  ASSUME NEW s, IsSeq(s)
  PROVE  /\ Len(s) \in Nat /\ DOMAIN s = 1..Len(s)
         /\ s # << >> => Len(s) > 0 /\ Head(s) = s[1]
         /\ Len(s) = 0 => s = << >>
<1>1. PICK S : s \in Seq(S)
  BY DEF IsSeq
<1> QED
  BY <1>1, LenProperties, EmptySeq

(* The empty sequence.                                                       *)
LEMMA EmptyIsSeq == IsSeq(<< >>) /\ Len(<< >>) = 0
BY EmptySeq DEF IsSeq

(* A sequence of one.                                                        *)
LEMMA SingleIsSeq ==
  ASSUME NEW x
  PROVE  IsSeq(<< x >>) /\ Len(<< x >>) = 1 /\ << x >>[1] = x
<1>1. << x >> \in Seq({x})
  OBVIOUS
<1> QED
  BY <1>1 DEF IsSeq

(* One more at the end.                                                      *)
LEMMA AppendedSeq ==
  ASSUME NEW s, IsSeq(s), NEW x
  PROVE  /\ IsSeq(Append(s, x)) /\ Len(Append(s, x)) = Len(s) + 1
         /\ \A i \in 1..Len(s) : Append(s, x)[i] = s[i]
         /\ Append(s, x)[Len(s) + 1] = x
<1>1. PICK S : s \in Seq(S)
  BY DEF IsSeq
<1>2. s \in Seq(S \union {x})
  BY <1>1, SeqMonotonic
<1>3. Append(s, x) \in Seq(S \union {x})
  BY <1>2
<1>4. Len(s) \in Nat
  BY <1>1
<1>5. /\ Len(Append(s, x)) = Len(s) + 1
      /\ \A i \in 1..Len(s) : Append(s, x)[i] = s[i]
      /\ Append(s, x)[Len(s) + 1] = x
  BY <1>2, <1>4
<1> QED
  BY <1>3, <1>5 DEF IsSeq

(* One less at the front.                                                    *)
LEMMA TailOfSeq ==
  ASSUME NEW s, IsSeq(s), s # << >>
  PROVE  /\ IsSeq(Tail(s)) /\ Len(Tail(s)) = Len(s) - 1
         /\ \A i \in 1..(Len(s) - 1) : Tail(s)[i] = s[i + 1]
<1>1. PICK S : s \in Seq(S)
  BY DEF IsSeq
<1>2. Tail(s) \in Seq(S)
  BY <1>1, HeadTailProperties
<1>3. /\ Len(Tail(s)) = Len(s) - 1
      /\ \A i \in 1..Len(Tail(s)) : Tail(s)[i] = s[i + 1]
  BY <1>1, HeadTailProperties
<1> QED
  BY <1>2, <1>3 DEF IsSeq

(* A sequence that is followed by nothing or by one.                         *)
LEMMA Followed ==
  ASSUME NEW s, IsSeq(s), NEW x
  PROVE  /\ s \o << >> = s /\ << >> \o s = s
         /\ s \o << x >> = Append(s, x)
<1>1. PICK S : s \in Seq(S)
  BY DEF IsSeq
<1>2. s \in Seq(S \union {x})
  BY <1>1, SeqMonotonic
<1>3. s \o << x >> = Append(s, x)
  BY <1>2
<1> QED
  BY <1>1, <1>3, ConcatEmptySeq

-----------------------------------------------------------------------------
(* The entries of a timeline whose event is of some kinds.                   *)
Count(timeline, kinds) ==
  Cardinality({n \in 1..Len(timeline) : timeline[n].of.eventType \in kinds})

(* One more entry: one more of its kind.                                     *)
LEMMA CountGrows ==
  ASSUME NEW t, IsSeq(t), NEW entry, NEW kinds
  PROVE  /\ Count(t, kinds) \in Nat
         /\ Count(Append(t, entry), kinds) =
              IF entry.of.eventType \in kinds THEN Count(t, kinds) + 1 ELSE Count(t, kinds)
<1> DEFINE u == Append(t, entry)
           A == {n \in 1..Len(t) : t[n].of.eventType \in kinds}
           B == {n \in 1..Len(u) : u[n].of.eventType \in kinds}
<1>1. Len(t) \in Nat
  BY SeqHas
<1>2. /\ Len(u) = Len(t) + 1 /\ u[Len(t) + 1] = entry
      /\ \A i \in 1..Len(t) : u[i] = t[i]
  BY AppendedSeq
<1> HIDE DEF u
<1>3. IsFiniteSet(1..Len(t))
  BY <1>1, FS_Interval
<1>4. A \in SUBSET (1..Len(t))
  OBVIOUS
<1>5. IsFiniteSet(A)
  BY <1>3, <1>4, FS_Subset
<1>6. Cardinality(A) \in Nat
  BY <1>5, FS_CardinalityType
<1>7. Len(t) + 1 \notin A
  BY <1>1
<1>8. CASE entry.of.eventType \in kinds
  <2>1. B = A \union {Len(t) + 1}
    <3>1. ASSUME NEW n \in B
          PROVE  n \in A \union {Len(t) + 1}
      BY <1>1, <1>2
    <3>2. ASSUME NEW n \in A
          PROVE  n \in B
      BY <1>1, <1>2
    <3>3. Len(t) + 1 \in B
      BY <1>1, <1>2, <1>8
    <3> HIDE DEF A, B
    <3> QED
      BY <3>1, <3>2, <3>3
  <2> HIDE DEF A, B
  <2>2. Cardinality(B) = Cardinality(A) + 1
    BY <2>1, <1>5, <1>7, FS_AddElement
  <2> USE DEF A, B
  <2> QED
    BY <2>2, <1>6, <1>8 DEF Count, u
<1>9. CASE ~(entry.of.eventType \in kinds)
  <2>1. B = A
    BY <1>1, <1>2, <1>9
  <2> QED
    BY <2>1, <1>6, <1>9 DEF Count, u
<1> QED
  BY <1>8, <1>9

-----------------------------------------------------------------------------
(* The shown fields of a graph that only its lastSeq differs in are the same.*)
Same(g, h) ==
  /\ h.eventId = g.eventId /\ h.timeline = g.timeline /\ h.candidates = g.candidates
  /\ h.attempts = g.attempts /\ h.flow = g.flow

(* The ways a stage event is reduced: it says nothing, takes the graph over, *)
(* completes the record, or grows the graph it is about.                     *)
SaysNothing(g, h, e) ==
  /\ h = g
  /\ \/ e.eventType \in Ignored \/ e.seq <= g.lastSeq
     \/ e.eventType # "request.received" /\ g.eventId # e.eventId

TakesOver(h, e) ==
  /\ e.eventType = "request.received"
  /\ h.eventId = e.eventId /\ h.lastSeq = e.seq
  /\ \E stage, outcome : h.timeline = << [of |-> e, stage |-> stage, state |-> outcome] >>
  /\ h.candidates = << >> /\ h.attempts = << >> /\ h.flow = "receiving"

Finishes(g, h, e) ==
  e.eventType = "event.completed" /\ h.lastSeq = e.seq /\ Same(g, h)

Grows(g, h, e) ==
  /\ e.eventType \in Timed /\ e.eventType # "request.received"
  /\ h.lastSeq = e.seq
  /\ \E m : Same(g, m) /\ Grown(m, h, e)

(* What the reducer makes of a stage event (reduce).                         *)
LEMMA ReduceDoes ==
  ASSUME NEW g, IsGraph(g), NEW e,
         e.eventType \in Timed \union {"budget.evaluated", "event.completed"}
  PROVE  /\ IsGraph(Reduce(g, e))
         /\ \/ SaysNothing(g, Reduce(g, e), e)
            \/ TakesOver(Reduce(g, e), e)
            \/ g.eventId = e.eventId /\ Finishes(g, Reduce(g, e), e)
            \/ g.eventId = e.eventId /\ Grows(g, Reduce(g, e), e)
<1> DEFINE h == Reduce(g, e)
           m == [g EXCEPT !.lastSeq = e.seq]
<1>0. \A f \in ShownFields : f \in DOMAIN g
  BY DEF IsGraph, GraphFields, ShownFields
<1>1. CASE e.eventType \in Ignored \/ e.seq <= g.lastSeq
  <2>1. h = g
    BY <1>1 DEF Reduce
  <2> QED
    BY <1>1, <2>1 DEF SaysNothing
<1>2. CASE ~(e.eventType \in Ignored \/ e.seq <= g.lastSeq) /\ e.eventType = "request.received"
  <2>1. h = ApplyRequestReceived(g, e)
    BY <1>2 DEF Reduce
  <2> DEFINE i == InitialGraphState
  <2>2. i.timeline = << >> /\ i.candidates = << >> /\ i.attempts = << >>
    BY DEF InitialGraphState
  <2>3. IsGraph(h)
    BY <2>1 DEF ApplyRequestReceived, Pushed, InitialGraphState, IsGraph, GraphFields
  <2>4. h.eventId = e.eventId
    BY <2>1 DEF ApplyRequestReceived, Pushed, InitialGraphState
  <2>5. h.lastSeq = e.seq
    BY <2>1 DEF ApplyRequestReceived, Pushed, InitialGraphState
  <2>6. h.timeline = Append(<< >>, [of |-> e, stage |-> "request", state |-> "active"])
    BY <2>1 DEF ApplyRequestReceived, Pushed, InitialGraphState
  <2>7. h.candidates = << >>
    BY <2>1 DEF ApplyRequestReceived, Pushed, InitialGraphState
  <2>8. h.attempts = << >>
    BY <2>1 DEF ApplyRequestReceived, Pushed, InitialGraphState
  <2>9. h.flow = "receiving"
    BY <2>1 DEF ApplyRequestReceived, Pushed, InitialGraphState
  <2> HIDE DEF h
  <2>10. h.timeline = << [of |-> e, stage |-> "request", state |-> "active"] >>
    BY <2>6
  <2>11. TakesOver(h, e)
    BY <1>2, <2>4, <2>5, <2>10, <2>7, <2>8, <2>9, Zenon DEF TakesOver
  <2> QED
    BY <2>3, <2>11 DEF h
<1>3. CASE ~(e.eventType \in Ignored \/ e.seq <= g.lastSeq) /\ e.eventType # "request.received"
  <2>1. CASE g.eventId # e.eventId
    <3>1. h = g
      BY <1>3, <2>1 DEF Reduce, Concerns
    <3> QED
      BY <1>3, <2>1, <3>1 DEF SaysNothing
  <2>2. CASE g.eventId = e.eventId
    <3>1. h = Applied(m, e)
      BY <1>3, <2>2 DEF Reduce, Concerns
    <3>2. IsGraph(m)
      BY DEF IsGraph
    <3>3. m.lastSeq = e.seq
      BY <1>0 DEF ShownFields
    <3>4. Same(g, m)
      <4>1. m.eventId = g.eventId
        BY <1>0 DEF ShownFields
      <4>2. m.timeline = g.timeline
        BY <1>0 DEF ShownFields
      <4>3. m.candidates = g.candidates
        BY <1>0 DEF ShownFields
      <4>4. m.attempts = g.attempts
        BY <1>0 DEF ShownFields
      <4>5. m.flow = g.flow
        BY <1>0 DEF ShownFields
      <4> QED
        BY <4>1, <4>2, <4>3, <4>4, <4>5 DEF Same
    <3> HIDE DEF h, m
    <3>5. CASE e.eventType = "event.completed"
      <4>0. \A f \in ShownFields : f \in DOMAIN m
        BY <3>2 DEF IsGraph, GraphFields, ShownFields
      <4>1. h = [m EXCEPT !.fullEvent = e.eventId]
        BY <3>1, <3>5 DEF Applied
      <4>2. IsGraph(h)
        BY <3>2, <4>1 DEF IsGraph
      <4>3. h.lastSeq = m.lastSeq
        BY <4>0, <4>1 DEF ShownFields
      <4>4. h.eventId = m.eventId
        BY <4>0, <4>1 DEF ShownFields
      <4>5. h.timeline = m.timeline
        BY <4>0, <4>1 DEF ShownFields
      <4>6. h.candidates = m.candidates
        BY <4>0, <4>1 DEF ShownFields
      <4>7. h.attempts = m.attempts
        BY <4>0, <4>1 DEF ShownFields
      <4>8. h.flow = m.flow
        BY <4>0, <4>1 DEF ShownFields
      <4>9. Same(g, h)
        BY <3>4, <4>4, <4>5, <4>6, <4>7, <4>8 DEF Same
      <4> QED
        BY <2>2, <3>3, <3>5, <4>2, <4>3, <4>9, Zenon DEF Finishes, h
    <3>6. CASE e.eventType \in Timed
      <4>1. Grown(m, h, e)
        BY <1>3, <3>1, <3>2, <3>6, GovernanceCompletedGrows, CandidateEvaluatedGrows,
           CandidateExcludedGrows, DecisionCommittedGrows, ExecutionStartedGrows,
           ExecutionCompletedGrows, ResultCompletedGrows, ResultFailedGrows
        DEF Applied, Timed
      <4>2. h.lastSeq = e.seq /\ IsGraph(h)
        BY <3>3, <4>1 DEF Grown
      <4> QED
        BY <1>3, <2>2, <3>4, <3>6, <4>1, <4>2, Zenon DEF Grows, h
    <3>7. e.eventType # "budget.evaluated"
      BY <1>3 DEF Ignored
    <3> QED
      BY <3>5, <3>6, <3>7
  <2> QED
    BY <2>1, <2>2
<1> QED
  BY <1>1, <1>2, <1>3

-----------------------------------------------------------------------------
(* What has been published of the scripts.                                   *)
Progress(s, p) ==
  s \in Scripts /\ p \in [Streamed -> Nat] /\ \A r \in Streamed : p[r] <= Len(s[r])

(* An event is a published stage of its request.                             *)
IsEvent(s, p, e) ==
  /\ e.eventId \in Streamed /\ e.seq \in Nat /\ e.index \in 1..p[e.eventId]
  /\ e.eventType = s[e.eventId][e.index].eventType

Before(e, f) == e.eventId = f.eventId => e.index < f.index

(* The events on their way to the reducer: those of a request in order.      *)
EventsIn(s, p, line) ==
  /\ IsSeq(line)
  /\ \A i \in 1..Len(line) : IsEvent(s, p, line[i])
  /\ \A i, j \in 1..Len(line) : i < j => Before(line[i], line[j])

(* The graph is the story of a request so far: its entries in their order,   *)
(* and before all that is on its way.                                        *)
Entries(s, p, g) ==
  /\ IsSeq(g.timeline)
  /\ g.eventId \in Streamed \union {None}
  /\ g.eventId # None => Len(g.timeline) > 0 /\ g.timeline[1].of.eventType = "request.received"
  /\ \A n \in 1..Len(g.timeline) :
       /\ IsEvent(s, p, g.timeline[n].of)
       /\ g.timeline[n].of.eventType \in Timed /\ g.timeline[n].of.eventId = g.eventId
  /\ \A m, n \in 1..Len(g.timeline) :
       m < n => g.timeline[m].of.index < g.timeline[n].of.index

TimelinePrecedes(g, line) ==
  \A n \in 1..Len(g.timeline), i \in 1..Len(line) : Before(g.timeline[n].of, line[i])

Tallies(g) ==
  /\ IsSeq(g.candidates) /\ Len(g.candidates) = Count(g.timeline, Candidates)
  /\ IsSeq(g.attempts) /\ Len(g.attempts) = Count(g.timeline, {"execution.completed"})

FlowHasEnded(g) ==
  g.flow \in {"success", "failed"} =>
    \E n \in 1..Len(g.timeline) : g.timeline[n].of.eventType \in Terminal

StoryOf(s, p, g, line) ==
  /\ IsGraph(g) /\ g.lastSeq \in Nat \union {-1}
  /\ Entries(s, p, g) /\ TimelinePrecedes(g, line) /\ Tallies(g) /\ FlowHasEnded(g)

(* The type of a published stage.                                            *)
LEMMA EventHasType ==
  ASSUME NEW s, NEW p, Progress(s, p), NEW e, IsEvent(s, p, e)
  PROVE  /\ e.eventType \in Timed \union {"budget.evaluated", "event.completed"}
         /\ (e.eventType = "request.received") = (e.index = 1)
         /\ e.index \in 1..Len(s[e.eventId]) /\ e.index \in Nat /\ e.index > 0
<1>1. IsScript(s[e.eventId])
  BY StreamAssumption DEF Progress, IsEvent
<1>2. e.index \in 1..Len(s[e.eventId])
  BY <1>1 DEF Progress, IsEvent, IsScript
<1>3. e.index \in Nat /\ e.index > 0
  BY <1>1, <1>2 DEF IsScript
<1>4. /\ e.eventType \in Timed \union {"budget.evaluated", "event.completed"}
      /\ (e.eventType = "request.received") = (e.index = 1)
  BY <1>1, <1>2 DEF IsEvent, IsScript
<1> QED
  BY <1>2, <1>3, <1>4

(* A graph of one entry.                                                     *)
LEMMA TakesOverTells ==
  ASSUME NEW s, NEW p, Progress(s, p), NEW h, NEW e, IsEvent(s, p, e), TakesOver(h, e)
  PROVE  Entries(s, p, h) /\ Tallies(h) /\ FlowHasEnded(h)
<1>1. PICK stage, outcome : h.timeline = << [of |-> e, stage |-> stage, state |-> outcome] >>
  BY DEF TakesOver
<1> DEFINE entry == [of |-> e, stage |-> stage, state |-> outcome]
<1>2. entry.of = e
  OBVIOUS
<1> HIDE DEF entry
<1>3. IsSeq(h.timeline) /\ Len(h.timeline) = 1 /\ h.timeline[1] = entry
  BY <1>1, SingleIsSeq DEF entry
<1>4. \A n \in 1..Len(h.timeline) : h.timeline[n].of = e
  BY <1>2, <1>3
<1>5. e.eventType = "request.received" /\ h.eventId = e.eventId /\ e.eventId \in Streamed
  BY DEF TakesOver, IsEvent
<1>6. e.eventType \in Timed
  BY <1>5 DEF Timed
<1>7. Entries(s, p, h)
  BY <1>3, <1>4, <1>5, <1>6 DEF Entries
<1>8. Count(h.timeline, Candidates) = 0
  <2>1. {n \in 1..Len(h.timeline) : h.timeline[n].of.eventType \in Candidates} = {}
    BY <1>4, <1>5 DEF Candidates
  <2> QED
    BY <2>1, FS_EmptySet DEF Count
<1>9. Count(h.timeline, {"execution.completed"}) = 0
  <2>1. {n \in 1..Len(h.timeline) :
           h.timeline[n].of.eventType \in {"execution.completed"}} = {}
    BY <1>4, <1>5
  <2> QED
    BY <2>1, FS_EmptySet DEF Count
<1>10. h.candidates = << >> /\ h.attempts = << >> /\ h.flow = "receiving"
  BY DEF TakesOver
<1>11. Tallies(h)
  BY <1>8, <1>9, <1>10, EmptyIsSeq DEF Tallies
<1>12. FlowHasEnded(h)
  BY <1>10 DEF FlowHasEnded
<1> QED
  BY <1>7, <1>11, <1>12

(* A graph that grows by an event that comes after all of its entries.       *)
LEMMA GrowsTells ==
  ASSUME NEW s, NEW p, Progress(s, p), NEW g, NEW h, NEW e, IsEvent(s, p, e),
         Entries(s, p, g), Tallies(g), FlowHasEnded(g), g.eventId = e.eventId,
         \A n \in 1..Len(g.timeline) : Before(g.timeline[n].of, e),
         Grows(g, h, e)
  PROVE  /\ Entries(s, p, h) /\ Tallies(h) /\ FlowHasEnded(h) /\ h.eventId = g.eventId
         /\ \E entry : entry.of = e /\ h.timeline = Append(g.timeline, entry)
<1>1. PICK m : Same(g, m) /\ Grown(m, h, e)
  BY DEF Grows
<1>2. PICK stage, outcome :
        h.timeline = Append(m.timeline, [of |-> e, stage |-> stage, state |-> outcome])
  BY <1>1 DEF Grown
<1> DEFINE entry == [of |-> e, stage |-> stage, state |-> outcome]
           t == g.timeline
<1>3. entry.of = e
  OBVIOUS
<1>4. h.timeline = Append(t, entry)
  BY <1>1, <1>2 DEF Same
<1> HIDE DEF entry
<1>5. IsSeq(t) /\ Len(t) \in Nat
  BY SeqHas DEF Entries
<1>6. /\ IsSeq(h.timeline) /\ Len(h.timeline) = Len(t) + 1
      /\ \A i \in 1..Len(t) : h.timeline[i] = t[i]
      /\ h.timeline[Len(t) + 1] = entry
  BY <1>4, <1>5, AppendedSeq
<1>7. h.eventId = g.eventId
  BY <1>1 DEF Same, Grown
<1>8. e.eventType \in Timed
  BY DEF Grows
<1>9. Entries(s, p, h)
  <2>0. \A n \in 1..Len(h.timeline) :
          (n \in 1..Len(t) /\ h.timeline[n] = t[n]) \/ (n = Len(t) + 1 /\ h.timeline[n].of = e)
    BY <1>3, <1>5, <1>6
  <2>1. h.eventId \in Streamed \union {None}
    BY <1>7 DEF Entries
  <2>2. h.eventId # None =>
          Len(h.timeline) > 0 /\ h.timeline[1].of.eventType = "request.received"
    BY <1>5, <1>6, <1>7 DEF Entries
  <2>3. ASSUME NEW n \in 1..Len(h.timeline)
        PROVE  /\ IsEvent(s, p, h.timeline[n].of)
               /\ h.timeline[n].of.eventType \in Timed /\ h.timeline[n].of.eventId = h.eventId
    BY <2>0, <1>7, <1>8 DEF Entries
  <2>4. ASSUME NEW k \in 1..Len(h.timeline), NEW n \in 1..Len(h.timeline), k < n
        PROVE  h.timeline[k].of.index < h.timeline[n].of.index
    <3>1. k \in 1..Len(t) /\ h.timeline[k] = t[k]
      BY <2>0, <2>4, <1>5, <1>6
    <3>2. CASE n \in 1..Len(t) /\ h.timeline[n] = t[n]
      BY <3>1, <3>2, <2>4 DEF Entries
    <3>3. CASE h.timeline[n].of = e
      <4>1. t[k].of.eventId = e.eventId
        BY <3>1 DEF Entries
      <4> QED
        BY <3>1, <3>3, <4>1 DEF Before
    <3> QED
      BY <2>0, <3>2, <3>3
  <2> QED
    BY <1>6, <2>1, <2>2, <2>3, <2>4 DEF Entries
<1>10. Tallies(h)
  <2>1. CASE e.eventType \in Candidates
    <3>1. PICK view : h.candidates = Append(g.candidates, view)
      BY <1>1, <2>1 DEF Grown, Same
    <3>2. IsSeq(h.candidates) /\ Len(h.candidates) = Len(g.candidates) + 1
      BY <3>1, AppendedSeq DEF Tallies
    <3>3. Count(h.timeline, Candidates) = Count(t, Candidates) + 1
      BY <2>1, <1>3, <1>4, <1>5, CountGrows
    <3>4. e.eventType # "execution.completed"
      BY <2>1 DEF Candidates
    <3>5. h.attempts = g.attempts
      BY <1>1, <3>4 DEF Grown, Same
    <3>6. Count(h.timeline, {"execution.completed"}) = Count(t, {"execution.completed"})
      BY <3>4, <1>3, <1>4, <1>5, CountGrows
    <3> QED
      BY <3>2, <3>3, <3>5, <3>6 DEF Tallies
  <2>2. CASE ~(e.eventType \in Candidates) /\ e.eventType = "execution.completed"
    <3>1. PICK view : h.attempts = Append(g.attempts, view)
      BY <1>1, <2>2 DEF Grown, Same
    <3>2. IsSeq(h.attempts) /\ Len(h.attempts) = Len(g.attempts) + 1
      BY <3>1, AppendedSeq DEF Tallies
    <3>3. Count(h.timeline, {"execution.completed"}) = Count(t, {"execution.completed"}) + 1
      BY <2>2, <1>3, <1>4, <1>5, CountGrows
    <3>4. h.candidates = g.candidates
      BY <1>1, <2>2 DEF Grown, Same
    <3>5. Count(h.timeline, Candidates) = Count(t, Candidates)
      BY <2>2, <1>3, <1>4, <1>5, CountGrows
    <3> QED
      BY <3>2, <3>3, <3>4, <3>5 DEF Tallies
  <2>3. CASE ~(e.eventType \in Candidates) /\ ~(e.eventType = "execution.completed")
    <3>1. h.attempts = g.attempts /\ h.candidates = g.candidates
      BY <1>1, <2>3 DEF Grown, Same
    <3>2. Count(h.timeline, {"execution.completed"}) = Count(t, {"execution.completed"})
      BY <2>3, <1>3, <1>4, <1>5, CountGrows
    <3>3. Count(h.timeline, Candidates) = Count(t, Candidates)
      BY <2>3, <1>3, <1>4, <1>5, CountGrows
    <3> QED
      BY <3>1, <3>2, <3>3 DEF Tallies
  <2> QED
    BY <2>1, <2>2, <2>3
<1>11. FlowHasEnded(h)
  <2>1. SUFFICES ASSUME h.flow \in {"success", "failed"}
                 PROVE  \E n \in 1..Len(h.timeline) : h.timeline[n].of.eventType \in Terminal
    BY DEF FlowHasEnded
  <2>2. CASE e.eventType \in Terminal
    <3>1. Len(t) + 1 \in 1..Len(h.timeline)
      BY <1>5, <1>6
    <3> QED
      BY <2>2, <3>1, <1>3, <1>6
  <2>3. CASE h.flow = g.flow
    <3>1. PICK n \in 1..Len(t) : t[n].of.eventType \in Terminal
      BY <2>1, <2>3 DEF FlowHasEnded
    <3>2. n \in 1..Len(h.timeline) /\ h.timeline[n] = t[n]
      BY <1>5, <1>6
    <3> QED
      BY <3>1, <3>2
  <2>4. h.flow = m.flow => h.flow = g.flow
    BY <1>1 DEF Same
  <2> QED
    BY <1>1, <2>1, <2>2, <2>3, <2>4 DEF Grown
<1> QED
  BY <1>3, <1>4, <1>7, <1>9, <1>10, <1>11

(* The first event on its way reaches the reducer: the story goes on.        *)
LEMMA TakeTells ==
  ASSUME NEW s, NEW p, Progress(s, p), NEW line, EventsIn(s, p, line), line # << >>,
         NEW g, StoryOf(s, p, g, line)
  PROVE  /\ EventsIn(s, p, Tail(line))
         /\ StoryOf(s, p, Reduce(g, Head(line)), Tail(line))
<1> DEFINE e == Head(line)
           h == Reduce(g, e)
           rest == Tail(line)
<1>1. Len(line) \in Nat /\ Len(line) > 0 /\ e = line[1]
  BY SeqHas DEF EventsIn
<1>2. /\ IsSeq(rest) /\ Len(rest) = Len(line) - 1
      /\ \A i \in 1..Len(rest) : rest[i] = line[i + 1]
  BY TailOfSeq DEF EventsIn
<1>3. IsEvent(s, p, e)
  BY <1>1 DEF EventsIn
<1>4. e.eventType \in Timed \union {"budget.evaluated", "event.completed"}
  BY <1>3, EventHasType
<1>5. IsGraph(g)
  BY DEF StoryOf
<1>6. /\ IsGraph(h)
      /\ \/ SaysNothing(g, h, e)
         \/ TakesOver(h, e)
         \/ g.eventId = e.eventId /\ Finishes(g, h, e)
         \/ g.eventId = e.eventId /\ Grows(g, h, e)
  BY <1>4, <1>5, ReduceDoes
<1>7. \A n \in 1..Len(g.timeline) : Before(g.timeline[n].of, e)
  BY <1>1 DEF StoryOf, TimelinePrecedes
<1>8. \A i \in 1..Len(rest) : Before(e, rest[i])
  BY <1>1, <1>2 DEF EventsIn
<1>9. \A i \in 1..Len(rest) : i + 1 \in 1..Len(line) /\ rest[i] = line[i + 1]
  BY <1>1, <1>2
<1>10. EventsIn(s, p, rest)
  <2>1. \A i \in 1..Len(rest) : IsEvent(s, p, rest[i])
    BY <1>9 DEF EventsIn
  <2>2. ASSUME NEW i \in 1..Len(rest), NEW j \in 1..Len(rest), i < j
        PROVE  Before(rest[i], rest[j])
    <3>1. i + 1 \in 1..Len(line) /\ j + 1 \in 1..Len(line) /\ i + 1 < j + 1
      BY <1>9, <2>2
    <3> QED
      BY <3>1, <1>9 DEF EventsIn
  <2> QED
    BY <1>2, <2>1, <2>2 DEF EventsIn
<1>11. TimelinePrecedes(g, rest)
  BY <1>9 DEF StoryOf, TimelinePrecedes
<1>12. e.seq \in Nat
  BY <1>3 DEF IsEvent
<1> HIDE DEF e, h, rest
<1>13. CASE SaysNothing(g, h, e)
  BY <1>10, <1>11, <1>13 DEF SaysNothing, StoryOf, e, h, rest
<1>14. CASE TakesOver(h, e)
  <2>1. Entries(s, p, h) /\ Tallies(h) /\ FlowHasEnded(h)
    BY <1>3, <1>14, TakesOverTells
  <2>2. h.lastSeq \in Nat
    BY <1>12, <1>14 DEF TakesOver
  <2>3. TimelinePrecedes(h, rest)
    <3>1. PICK stage, outcome : h.timeline = << [of |-> e, stage |-> stage, state |-> outcome] >>
      BY <1>14 DEF TakesOver
    <3> DEFINE entry == [of |-> e, stage |-> stage, state |-> outcome]
    <3>2. entry.of = e /\ h.timeline = << entry >>
      BY <3>1
    <3> HIDE DEF entry
    <3>3. \A n \in 1..Len(h.timeline) : h.timeline[n].of = e
      BY <3>2, SingleIsSeq
    <3> QED
      BY <1>8, <3>3 DEF TimelinePrecedes
  <2> QED
    BY <1>6, <1>10, <2>1, <2>2, <2>3 DEF StoryOf, e, h, rest
<1>15. CASE g.eventId = e.eventId /\ Finishes(g, h, e)
  <2>1. Entries(s, p, h)
    BY <1>15 DEF Finishes, Same, StoryOf, Entries
  <2>2. Tallies(h)
    BY <1>15 DEF Finishes, Same, StoryOf, Tallies
  <2>3. FlowHasEnded(h)
    BY <1>15 DEF Finishes, Same, StoryOf, FlowHasEnded
  <2>4. TimelinePrecedes(h, rest)
    BY <1>15, <1>11 DEF Finishes, Same, TimelinePrecedes
  <2>5. h.lastSeq \in Nat
    BY <1>12, <1>15 DEF Finishes
  <2> QED
    BY <1>6, <1>10, <2>1, <2>2, <2>3, <2>4, <2>5 DEF StoryOf, e, h, rest
<1>16. CASE g.eventId = e.eventId /\ Grows(g, h, e)
  <2>0. Entries(s, p, g) /\ Tallies(g) /\ FlowHasEnded(g)
    BY DEF StoryOf
  <2>1. /\ Entries(s, p, h) /\ Tallies(h) /\ FlowHasEnded(h)
        /\ \E entry : entry.of = e /\ h.timeline = Append(g.timeline, entry)
    BY <1>3, <1>7, <1>16, <2>0, GrowsTells
  <2>2. h.lastSeq \in Nat
    BY <1>12, <1>16 DEF Grows
  <2>3. TimelinePrecedes(h, rest)
    <3>1. PICK entry : entry.of = e /\ h.timeline = Append(g.timeline, entry)
      BY <2>1
    <3>2. IsSeq(g.timeline)
      BY <2>0 DEF Entries
    <3>3. Len(g.timeline) \in Nat
      BY <3>2, SeqHas
    <3>4. \A n \in 1..Len(h.timeline) :
            (n \in 1..Len(g.timeline) /\ h.timeline[n] = g.timeline[n]) \/ h.timeline[n].of = e
      BY <3>1, <3>2, <3>3, AppendedSeq
    <3> QED
      BY <1>8, <1>11, <3>4 DEF TimelinePrecedes
  <2> QED
    BY <1>6, <1>10, <2>1, <2>2, <2>3 DEF StoryOf, e, h, rest
<1> QED
  BY <1>6, <1>13, <1>14, <1>15, <1>16

-----------------------------------------------------------------------------
(* The graph's entry of stage n of request r, and the event of it on its way.*)
Told(g, r, n) ==
  g.eventId = r /\ \E m \in 1..Len(g.timeline) : g.timeline[m].of.index = n

Comes(line, r, n) == \E i \in 1..Len(line) : line[i].eventId = r /\ line[i].index = n

(* Numbers rise towards the end of the line, and none is used up yet.        *)
Rising(b, g, line) ==
  /\ g.lastSeq <= b
  /\ \A i \in 1..Len(line) : g.lastSeq < line[i].seq /\ line[i].seq <= b
  /\ \A i, j \in 1..Len(line) : i < j => line[i].seq < line[j].seq

(* Of a request whose first stage the view has or gets, no stage is missing. *)
NoGap(s, p, f, g, line) ==
  \A r \in Streamed : g.eventId = r \/ Comes(line, r, 1) =>
    /\ f \in {None, OwnerOf[r]}
    /\ \A n \in 1..p[r] : s[r][n].eventType \in Timed => Told(g, r, n) \/ Comes(line, r, n)

(* The first event on its way reaches the reducer: the story has no gap.     *)
LEMMA TakeLeavesNoGap ==
  ASSUME NEW s, NEW p, Progress(s, p), NEW line, EventsIn(s, p, line), line # << >>,
         NEW g, StoryOf(s, p, g, line), NEW b \in Nat, NEW f,
         Rising(b, g, line), NoGap(s, p, f, g, line)
  PROVE  /\ Rising(b, Reduce(g, Head(line)), Tail(line))
         /\ NoGap(s, p, f, Reduce(g, Head(line)), Tail(line))
<1> DEFINE e == Head(line)
           h == Reduce(g, e)
           rest == Tail(line)
<1>1. Len(line) \in Nat /\ Len(line) > 0 /\ e = line[1]
  BY SeqHas DEF EventsIn
<1>2. /\ IsSeq(rest) /\ Len(rest) = Len(line) - 1
      /\ \A i \in 1..Len(rest) : rest[i] = line[i + 1]
  BY TailOfSeq DEF EventsIn
<1>3. IsEvent(s, p, e)
  BY <1>1 DEF EventsIn
<1>4. /\ e.eventType \in Timed \union {"budget.evaluated", "event.completed"}
      /\ (e.eventType = "request.received") = (e.index = 1)
  BY <1>3, EventHasType
<1>5. IsGraph(g)
  BY DEF StoryOf
<1>6. /\ IsGraph(h)
      /\ \/ SaysNothing(g, h, e)
         \/ TakesOver(h, e)
         \/ g.eventId = e.eventId /\ Finishes(g, h, e)
         \/ g.eventId = e.eventId /\ Grows(g, h, e)
  BY <1>4, <1>5, ReduceDoes
<1>7. \A n \in 1..Len(g.timeline) : Before(g.timeline[n].of, e)
  BY <1>1 DEF StoryOf, TimelinePrecedes
<1>9. \A i \in 1..Len(rest) : i + 1 \in 1..Len(line) /\ rest[i] = line[i + 1]
  BY <1>1, <1>2
<1>10. \A i \in 1..Len(rest) : Before(e, rest[i]) /\ IsEvent(s, p, rest[i])
  BY <1>1, <1>2, <1>9 DEF EventsIn
<1>11. e.seq \in Nat /\ g.lastSeq < e.seq /\ e.seq <= b /\ g.lastSeq \in Nat \union {-1}
  BY <1>1, <1>3 DEF IsEvent, Rising, StoryOf
<1>12. \A r, n : Comes(line, r, n) <=> (e.eventId = r /\ e.index = n) \/ Comes(rest, r, n)
  <2>1. ASSUME NEW r, NEW n, Comes(line, r, n)
        PROVE  (e.eventId = r /\ e.index = n) \/ Comes(rest, r, n)
    <3>1. PICK i \in 1..Len(line) : line[i].eventId = r /\ line[i].index = n
      BY <2>1 DEF Comes
    <3>2. CASE i = 1
      BY <3>1, <3>2, <1>1
    <3>3. CASE i # 1
      <4>1. i - 1 \in 1..Len(rest) /\ rest[i - 1] = line[i]
        BY <1>1, <1>2, <3>3
      <4> QED
        BY <3>1, <4>1 DEF Comes
    <3> QED
      BY <3>2, <3>3
  <2>2. ASSUME NEW r, NEW n, (e.eventId = r /\ e.index = n) \/ Comes(rest, r, n)
        PROVE  Comes(line, r, n)
    <3>1. CASE e.eventId = r /\ e.index = n
      BY <3>1, <1>1 DEF Comes
    <3>2. CASE Comes(rest, r, n)
      BY <3>2, <1>9 DEF Comes
    <3> QED
      BY <2>2, <3>1, <3>2
  <2> QED
    BY <2>1, <2>2
<1>13. \A r : Comes(rest, r, 1) => e.eventId # r
  <2>1. ASSUME NEW r, Comes(rest, r, 1), e.eventId = r
        PROVE  FALSE
    <3>1. PICK i \in 1..Len(rest) : rest[i].eventId = r /\ rest[i].index = 1
      BY <2>1 DEF Comes
    <3>2. e.index < 1
      BY <1>10, <2>1, <3>1 DEF Before
    <3> QED
      BY <1>3, <3>2, EventHasType
  <2> QED
    BY <2>1
<1>14. \A r : g.eventId = r /\ r # None => ~Comes(line, r, 1)
  <2>1. ASSUME NEW r, g.eventId = r, r # None, Comes(line, r, 1)
        PROVE  FALSE
    <3>1. PICK i \in 1..Len(line) : line[i].eventId = r /\ line[i].index = 1
      BY <2>1 DEF Comes
    <3>2. /\ Len(g.timeline) > 0 /\ IsSeq(g.timeline)
          /\ \A n \in 1..Len(g.timeline) :
               IsEvent(s, p, g.timeline[n].of) /\ g.timeline[n].of.eventId = g.eventId
      BY <2>1 DEF StoryOf, Entries
    <3>3. 1 \in 1..Len(g.timeline)
      BY <3>2, SeqHas
    <3>4. g.timeline[1].of.index < 1
      BY <2>1, <3>1, <3>2, <3>3 DEF StoryOf, TimelinePrecedes, Before
    <3>5. IsEvent(s, p, g.timeline[1].of)
      BY <3>2, <3>3
    <3> QED
      BY <3>4, <3>5, EventHasType
  <2> QED
    BY <2>1
<1> HIDE DEF e, h, rest
<1>15. SaysNothing(g, h, e) =>
         /\ h = g
         /\ \/ e.eventType = "budget.evaluated"
            \/ e.eventType # "request.received" /\ g.eventId # e.eventId
  <2>1. ~(e.seq <= g.lastSeq)
    BY <1>11
  <2>2. e.eventType \in Ignored => e.eventType = "budget.evaluated"
    BY <1>4 DEF Ignored, Timed
  <2> QED
    BY <2>1, <2>2, Zenon DEF SaysNothing
<1>16. h.eventId = IF e.eventType = "request.received" THEN e.eventId ELSE g.eventId
  <2>1. CASE SaysNothing(g, h, e)
    BY <1>15, <2>1
  <2>2. CASE TakesOver(h, e)
    BY <2>2 DEF TakesOver
  <2>3. CASE Finishes(g, h, e)
    BY <2>3 DEF Finishes, Same
  <2>4. CASE Grows(g, h, e)
    BY <2>4 DEF Grows, Grown, Same
  <2> QED
    BY <1>6, <2>1, <2>2, <2>3, <2>4
<1>17. ASSUME NEW r, NEW n
       PROVE  /\ e.eventType = "request.received" /\ e.eventId = r /\ e.index = n => Told(h, r, n)
              /\ e.eventType # "request.received" /\ Told(g, r, n) => Told(h, r, n)
              /\ e.eventType \in Timed \ {"request.received"} /\ g.eventId = r /\ e.eventId = r
                   /\ e.index = n => Told(h, r, n)
  <2>1. CASE SaysNothing(g, h, e)
    BY <1>15, <2>1 DEF Timed
  <2>2. CASE TakesOver(h, e)
    <3>1. PICK stage, outcome : h.timeline = << [of |-> e, stage |-> stage, state |-> outcome] >>
      BY <2>2 DEF TakesOver
    <3> DEFINE entry == [of |-> e, stage |-> stage, state |-> outcome]
    <3>2. entry.of = e /\ h.timeline = << entry >>
      BY <3>1
    <3> HIDE DEF entry
    <3>3. 1 \in 1..Len(h.timeline) /\ h.timeline[1].of = e
      BY <3>2, SingleIsSeq
    <3> QED
      BY <2>2, <3>3 DEF TakesOver, Told
  <2>3. CASE Finishes(g, h, e)
    BY <2>3 DEF Finishes, Same, Told, Timed
  <2>4. CASE g.eventId = e.eventId /\ Grows(g, h, e)
    <3>0. Entries(s, p, g) /\ Tallies(g) /\ FlowHasEnded(g)
      BY DEF StoryOf
    <3>1. /\ h.eventId = g.eventId
          /\ \E entry : entry.of = e /\ h.timeline = Append(g.timeline, entry)
      BY <1>3, <1>7, <2>4, <3>0, GrowsTells
    <3>2. PICK entry : entry.of = e /\ h.timeline = Append(g.timeline, entry)
      BY <3>1
    <3>3. IsSeq(g.timeline)
      BY <3>0 DEF Entries
    <3>4. Len(g.timeline) \in Nat
      BY <3>3, SeqHas
    <3>5. /\ Len(h.timeline) = Len(g.timeline) + 1
          /\ \A m \in 1..Len(g.timeline) : h.timeline[m] = g.timeline[m]
          /\ h.timeline[Len(g.timeline) + 1].of = e
      BY <3>2, <3>3, AppendedSeq
    <3>6. Told(g, r, n) => Told(h, r, n)
      BY <3>1, <3>4, <3>5 DEF Told
    <3>7. g.eventId = r /\ e.index = n => Told(h, r, n)
      <4>1. Len(g.timeline) + 1 \in 1..Len(h.timeline)
        BY <3>4, <3>5
      <4> QED
        BY <3>1, <3>5, <4>1 DEF Told
    <3> QED
      BY <2>4, <3>6, <3>7 DEF Grows
  <2> QED
    BY <1>6, <2>1, <2>2, <2>3, <2>4
<1>18. Rising(b, h, rest)
  <2>1. h.lastSeq = g.lastSeq \/ h.lastSeq = e.seq
    BY <1>6 DEF SaysNothing, TakesOver, Finishes, Grows
  <2>2. h.lastSeq <= e.seq /\ h.lastSeq \in Int
    BY <1>11, <2>1
  <2>3. \A i \in 1..Len(rest) : e.seq < rest[i].seq /\ rest[i].seq <= b /\ rest[i].seq \in Nat
    <3>1. SUFFICES ASSUME NEW i \in 1..Len(rest)
                   PROVE  e.seq < rest[i].seq /\ rest[i].seq <= b /\ rest[i].seq \in Nat
      OBVIOUS
    <3>2. /\ i + 1 \in 1..Len(line) /\ rest[i] = line[i + 1]
          /\ 1 \in 1..Len(line) /\ 1 < i + 1
      BY <1>1, <1>2, <1>9
    <3>3. line[1].seq < line[i + 1].seq /\ line[i + 1].seq <= b
      BY <3>2 DEF Rising
    <3>4. rest[i].seq \in Nat
      BY <1>10 DEF IsEvent
    <3> QED
      BY <1>1, <3>2, <3>3, <3>4
  <2>4. ASSUME NEW i \in 1..Len(rest), NEW j \in 1..Len(rest), i < j
        PROVE  rest[i].seq < rest[j].seq
    <3>1. i + 1 \in 1..Len(line) /\ j + 1 \in 1..Len(line) /\ i + 1 < j + 1
      BY <1>9, <2>4
    <3> QED
      BY <3>1, <1>9 DEF Rising
  <2> QED
    BY <1>11, <2>2, <2>3, <2>4 DEF Rising
<1>19. NoGap(s, p, f, h, rest)
  <2>1. SUFFICES ASSUME NEW r \in Streamed, h.eventId = r \/ Comes(rest, r, 1)
                 PROVE  /\ f \in {None, OwnerOf[r]}
                        /\ \A n \in 1..p[r] :
                             s[r][n].eventType \in Timed => Told(h, r, n) \/ Comes(rest, r, n)
    BY DEF NoGap
  <2>2. g.eventId = r \/ Comes(line, r, 1)
    BY <1>4, <1>12, <1>16, <2>1
  <2>3. f \in {None, OwnerOf[r]}
    BY <2>2 DEF NoGap
  <2>4. ASSUME NEW n \in 1..p[r], s[r][n].eventType \in Timed
        PROVE  Told(h, r, n) \/ Comes(rest, r, n)
    <3>1. Told(g, r, n) \/ Comes(line, r, n)
      BY <2>2, <2>4 DEF NoGap
    <3>2. CASE Told(g, r, n)
      <4>1. g.eventId = r /\ r # None
        BY <3>2, StreamAssumption DEF Told
      <4>2. ~Comes(line, r, 1)
        BY <1>14, <4>1
      <4>3. e.eventType # "request.received"
        BY <1>4, <1>12, <1>16, <2>1, <4>2
      <4> QED
        BY <1>17, <3>2, <4>3
    <3>3. CASE e.eventId = r /\ e.index = n
      <4>1. e.eventType \in Timed
        BY <1>3, <2>4, <3>3 DEF IsEvent
      <4>2. CASE e.eventType = "request.received"
        BY <1>17, <3>3, <4>2
      <4>3. CASE e.eventType # "request.received"
        <5>1. g.eventId = r
          BY <1>13, <1>16, <2>1, <3>3, <4>3
        <5> QED
          BY <1>17, <3>3, <4>1, <4>3, <5>1
      <4> QED
        BY <4>2, <4>3
    <3> QED
      BY <1>12, <3>1, <3>2, <3>3
  <2> QED
    BY <2>3, <2>4
<1> QED
  BY <1>18, <1>19 DEF e, h, rest

-----------------------------------------------------------------------------
(* A published stage as an event.                                            *)
LEMMA NumberedIs ==
  ASSUME NEW stage, "eventType" \in DOMAIN stage, NEW seq, NEW r, NEW index
  PROVE  /\ Numbered(stage, seq, r, index).seq = seq
         /\ Numbered(stage, seq, r, index).eventId = r
         /\ Numbered(stage, seq, r, index).index = index
         /\ Numbered(stage, seq, r, index).eventType = stage.eventType
<1> DEFINE fields == DOMAIN stage \union {"seq", "eventId", "index"}
<1>1. /\ "seq" \in fields /\ "eventId" \in fields /\ "index" \in fields
      /\ "eventType" \in fields
  OBVIOUS
<1> QED
  BY <1>1 DEF Numbered

(* The next stage of a request as an event, and what has been published then.*)
NextEvent(s, p, r, b) == Numbered(s[r][p[r] + 1], b + 1, r, p[r] + 1)

Advanced(p, r) == [p EXCEPT ![r] = @ + 1]

(* The story after it was published, when next is the line.                  *)
GoesOn(s, p, r, b, g, line, next) ==
  /\ Progress(s, Advanced(p, r)) /\ EventsIn(s, Advanced(p, r), next)
  /\ StoryOf(s, Advanced(p, r), g, next)
  /\ Rising(b, g, line) => Rising(b + 1, g, next)
  /\ \A f :
       /\ NoGap(s, p, f, g, line)
       /\ next = IF f \in {None, OwnerOf[r]} THEN Append(line, NextEvent(s, p, r, b)) ELSE line
       => NoGap(s, Advanced(p, r), f, g, next)

(* A request publishes its next stage, which may join the line.              *)
LEMMA PublishTells ==
  ASSUME NEW s, NEW p, Progress(s, p), NEW r \in Streamed, p[r] < Len(s[r]), NEW b \in Nat,
         NEW line, EventsIn(s, p, line), NEW g, StoryOf(s, p, g, line),
         NEW next, next = line \/ next = Append(line, NextEvent(s, p, r, b))
  PROVE  GoesOn(s, p, r, b, g, line, next)
<1> DEFINE e == NextEvent(s, p, r, b)
           q == Advanced(p, r)
<1>1. IsScript(s[r]) /\ p[r] \in Nat
  BY StreamAssumption DEF Progress
<1>2. p[r] + 1 \in 1..Len(s[r]) /\ p[r] + 1 \in DOMAIN s[r]
  BY <1>1 DEF IsScript
<1>3. "eventType" \in DOMAIN s[r][p[r] + 1]
  BY <1>1, <1>2 DEF IsScript
<1>4. /\ e.seq = b + 1 /\ e.eventId = r /\ e.index = p[r] + 1
      /\ e.eventType = s[r][p[r] + 1].eventType
  BY <1>3, NumberedIs DEF NextEvent
<1>5. q[r] = p[r] + 1 /\ \A c \in Streamed :
        /\ q[c] \in Nat /\ p[c] \in Nat /\ p[c] <= q[c]
        /\ c # r => q[c] = p[c]
  BY DEF Progress, Advanced
<1>6. Progress(s, q)
  BY <1>1 DEF Progress, IsScript, Advanced
<1> HIDE DEF e, q
<1>7. \A d : IsEvent(s, p, d) => IsEvent(s, q, d)
  BY <1>5 DEF IsEvent
<1>8. IsEvent(s, q, e)
  BY <1>1, <1>4, <1>5 DEF IsEvent
<1>9. \A d : IsEvent(s, p, d) => Before(d, e)
  BY <1>1, <1>4 DEF IsEvent, Before
<1>10. IsSeq(line) /\ Len(line) \in Nat
  BY SeqHas DEF EventsIn
<1>11. /\ IsSeq(next) /\ Len(next) \in {Len(line), Len(line) + 1}
       /\ \A i \in 1..Len(next) :
            \/ i \in 1..Len(line) /\ next[i] = line[i]
            \/ next = Append(line, e) /\ i = Len(line) + 1 /\ next[i] = e
  <2>1. CASE next = line
    BY <1>10, <2>1
  <2>2. CASE next = Append(line, e)
    BY <1>10, <2>2, AppendedSeq
  <2> QED
    BY <2>1, <2>2 DEF e
<1>12. EventsIn(s, q, next)
  <2>1. ASSUME NEW i \in 1..Len(next)
        PROVE  IsEvent(s, q, next[i])
    BY <1>7, <1>8, <1>11 DEF EventsIn
  <2>2. ASSUME NEW i \in 1..Len(next), NEW j \in 1..Len(next), i < j
        PROVE  Before(next[i], next[j])
    <3>1. i \in 1..Len(line) /\ next[i] = line[i]
      BY <1>10, <1>11, <2>2
    <3>2. CASE j \in 1..Len(line) /\ next[j] = line[j]
      BY <2>2, <3>1, <3>2 DEF EventsIn
    <3>3. CASE next[j] = e
      BY <1>9, <3>1, <3>3 DEF EventsIn
    <3> QED
      BY <1>11, <3>2, <3>3
  <2> QED
    BY <1>11, <2>1, <2>2 DEF EventsIn
<1>13. StoryOf(s, q, g, next)
  <2>1. Entries(s, q, g)
    BY <1>7 DEF StoryOf, Entries
  <2>2. ASSUME NEW n \in 1..Len(g.timeline), NEW i \in 1..Len(next)
        PROVE  Before(g.timeline[n].of, next[i])
    <3>1. IsEvent(s, p, g.timeline[n].of)
      BY DEF StoryOf, Entries
    <3> QED
      BY <1>9, <1>11, <3>1 DEF StoryOf, TimelinePrecedes
  <2> QED
    BY <2>1, <2>2 DEF StoryOf, TimelinePrecedes
<1>14. ASSUME Rising(b, g, line)
       PROVE  Rising(b + 1, g, next)
  <2>1. g.lastSeq \in Int /\ g.lastSeq <= b
    BY <1>14 DEF StoryOf, Rising
  <2>2. \A i \in 1..Len(line) :
          line[i].seq \in Nat /\ g.lastSeq < line[i].seq /\ line[i].seq <= b
    BY <1>14 DEF EventsIn, IsEvent, Rising
  <2>3. \A i \in 1..Len(next) : g.lastSeq < next[i].seq /\ next[i].seq <= b + 1
    BY <1>4, <1>11, <2>1, <2>2
  <2>4. ASSUME NEW i \in 1..Len(next), NEW j \in 1..Len(next), i < j
        PROVE  next[i].seq < next[j].seq
    <3>1. i \in 1..Len(line) /\ next[i] = line[i]
      BY <1>10, <1>11, <2>4
    <3>2. CASE j \in 1..Len(line) /\ next[j] = line[j]
      BY <1>14, <2>4, <3>1, <3>2 DEF Rising
    <3>3. CASE next[j] = e
      BY <1>4, <2>2, <3>1, <3>3
    <3> QED
      BY <1>11, <3>2, <3>3
  <2> QED
    BY <2>1, <2>3, <2>4 DEF Rising
<1>15. ASSUME NEW f, NoGap(s, p, f, g, line),
              next = IF f \in {None, OwnerOf[r]} THEN Append(line, e) ELSE line
       PROVE  NoGap(s, q, f, g, next)
  <2>1. \A c, n : Comes(line, c, n) => Comes(next, c, n)
    <3>1. \A i \in 1..Len(line) : i \in 1..Len(next) /\ next[i] = line[i]
      BY <1>10, <1>15, AppendedSeq
    <3> QED
      BY <3>1 DEF Comes
  <2>2. next = Append(line, e) => Comes(next, r, p[r] + 1)
    <3>1. Len(line) + 1 \in 1..Len(Append(line, e)) /\ Append(line, e)[Len(line) + 1] = e
      BY <1>10, AppendedSeq
    <3> QED
      BY <1>4, <3>1 DEF Comes
  <2>3. SUFFICES ASSUME NEW c \in Streamed, g.eventId = c \/ Comes(next, c, 1)
                 PROVE  /\ f \in {None, OwnerOf[c]}
                        /\ \A n \in 1..q[c] :
                             s[c][n].eventType \in Timed => Told(g, c, n) \/ Comes(next, c, n)
    BY DEF NoGap
  <2>4. \/ g.eventId = c \/ Comes(line, c, 1)
        \/ next = Append(line, e) /\ c = r /\ p[r] + 1 = 1
    BY <1>4, <1>11, <2>3 DEF Comes
  <2>5. f \in {None, OwnerOf[c]}
    <3>1. CASE g.eventId = c \/ Comes(line, c, 1)
      BY <1>15, <3>1 DEF NoGap
    <3>2. CASE next = Append(line, e) /\ c = r
      <4>1. Append(line, e) # line
        BY <1>10, AppendedSeq
      <4> QED
        BY <1>15, <3>2, <4>1
    <3> QED
      BY <2>4, <3>1, <3>2
  <2>6. ASSUME NEW n \in 1..q[c], s[c][n].eventType \in Timed
        PROVE  Told(g, c, n) \/ Comes(next, c, n)
    <3>1. n \in 1..p[c] \/ (c = r /\ n = p[r] + 1)
      BY <1>1, <1>5
    <3>2. CASE c = r /\ n = p[r] + 1
      BY <1>15, <2>2, <2>5, <3>2
    <3>3. CASE n \in 1..p[c] /\ (g.eventId = c \/ Comes(line, c, 1))
      BY <1>15, <2>1, <2>6, <3>3 DEF NoGap
    <3>4. CASE c = r /\ p[r] + 1 = 1 /\ n \in 1..p[c]
      BY <1>1, <3>4
    <3> QED
      BY <2>4, <3>1, <3>2, <3>3, <3>4
  <2> QED
    BY <2>5, <2>6
<1> QED
  BY <1>6, <1>12, <1>13, <1>14, <1>15 DEF GoesOn, e, q

(* Events at the end of the line are lost.                                   *)
LEMMA LossTells ==
  ASSUME NEW s, NEW p, NEW line, EventsIn(s, p, line), NEW g, StoryOf(s, p, g, line),
         NEW next, IsSeq(next), Len(next) <= Len(line),
         \A i \in 1..Len(next) : next[i] = line[i]
  PROVE  EventsIn(s, p, next) /\ StoryOf(s, p, g, next)
<1>1. Len(next) \in Nat /\ Len(line) \in Nat
  BY SeqHas DEF EventsIn
<1>2. \A i \in 1..Len(next) : i \in 1..Len(line) /\ next[i] = line[i]
  BY <1>1
<1>3. EventsIn(s, p, next)
  BY <1>2 DEF EventsIn
<1>4. TimelinePrecedes(g, next)
  BY <1>2 DEF StoryOf, TimelinePrecedes
<1> QED
  BY <1>3, <1>4 DEF StoryOf

-----------------------------------------------------------------------------
(* What is published and not yet reduced: the queue, and the wire behind it. *)
Coming == queue \o wire

StreamServer == Progress(script, published) /\ gone \subseteq Streamed /\ busSeq \in Nat

StreamLink ==
  /\ connection.phase \in {"fetching", "live", "waiting"}
  /\ connection.shown \in {"connecting", "live", "reconnecting", "disconnected", "error"}
  /\ connection.phase # "live" => wire = << >>
  /\ filter \in Filters /\ breaks \in 0..MaxBreaks
  /\ wire = << >> \/ \E e : wire = << e >>

StreamView ==
  /\ IsSeq(queue) /\ Len(queue) + Len(wire) <= MaxQueue
  /\ pacing \in {"idle", "flushing", "held"} /\ (queue # << >> => pacing # "idle")

StreamStory ==
  EventsIn(script, published, Coming) /\ StoryOf(script, published, graph, Coming)

StreamWhole ==
  breaks = 0 =>
    /\ connection.phase \in {"fetching", "live"}
    /\ connection.phase = "fetching" => Coming = << >> /\ graph.eventId = None
    /\ Rising(busSeq, graph, Coming)
    /\ NoGap(script, published, filter, graph, Coming)

(* The inductive invariant of the stream.  GraphShowsOneRequest follows: the *)
(* story by StreamStory, that it has no gap by StreamWhole.                  *)
StreamInv == StreamServer /\ StreamLink /\ StreamView /\ StreamStory /\ StreamWhole

(* The line is the queue while the wire is empty, and the wire alone while   *)
(* the queue is.                                                             *)
LEMMA ComingIs ==
  ASSUME StreamLink, StreamView
  PROVE  /\ IsSeq(queue) /\ IsSeq(wire) /\ Len(queue) \in Nat /\ Len(wire) \in 0..1
         /\ wire = << >> => Coming = queue
         /\ queue = << >> => Coming = wire
         /\ wire # << >> => wire = << Head(wire) >> /\ Coming = Append(queue, Head(wire))
<1>1. IsSeq(queue) /\ Len(queue) \in Nat
  BY SeqHas DEF StreamView
<1>2. CASE wire = << >>
  BY <1>1, <1>2, EmptyIsSeq, Followed DEF Coming
<1>3. CASE wire # << >>
  <2>1. PICK e : wire = << e >>
    BY <1>3 DEF StreamLink
  <2>2. IsSeq(wire) /\ Len(wire) = 1 /\ Head(wire) = e
    BY <2>1, <1>3, SingleIsSeq, SeqHas
  <2>3. Coming = Append(queue, e)
    BY <1>1, <2>1, Followed DEF Coming
  <2>4. queue = << >> => Coming = wire
    BY <2>2, Followed DEF Coming
  <2> QED
    BY <1>1, <1>3, <2>1, <2>2, <2>3, <2>4
<1> QED
  BY <1>2, <1>3

(* Everything is as it has to be before anything is published.               *)
LEMMA StreamInitHolds == StreamInit => StreamInv
<1> SUFFICES ASSUME StreamInit
             PROVE  StreamInv
  OBVIOUS
<1>1. queue = << >> /\ wire = << >> /\ graph = InitialGraphState /\ busSeq = 0
  BY DEF StreamInit
<1>2. Coming = << >> /\ IsSeq(Coming) /\ Len(Coming) = 0
  BY <1>1, EmptyIsSeq, Followed DEF Coming
<1>3. StreamServer
  <2>1. \A r \in Streamed : Len(script[r]) \in Nat
    BY StreamAssumption DEF StreamInit, IsScript
  <2> QED
    BY <2>1 DEF StreamInit, StreamServer, Progress
<1>4. StreamLink
  BY StreamAssumption DEF StreamInit, StreamLink, Connecting
<1>5. StreamView
  BY <1>1, EmptyIsSeq, StreamAssumption DEF StreamInit, StreamView
<1>6. IsGraph(graph)
  BY <1>1 DEF IsGraph, GraphFields, InitialGraphState
<1>7. /\ graph.lastSeq = -1 /\ graph.eventId = None /\ graph.timeline = << >>
      /\ graph.candidates = << >> /\ graph.attempts = << >> /\ graph.flow = "idle"
  BY <1>1 DEF InitialGraphState
<1>8. Count(graph.timeline, Candidates) = 0
  <2>1. {n \in 1..Len(graph.timeline) : graph.timeline[n].of.eventType \in Candidates} = {}
    BY <1>7, EmptyIsSeq
  <2> QED
    BY <2>1, FS_EmptySet DEF Count
<1>9. Count(graph.timeline, {"execution.completed"}) = 0
  <2>1. {n \in 1..Len(graph.timeline) :
           graph.timeline[n].of.eventType \in {"execution.completed"}} = {}
    BY <1>7, EmptyIsSeq
  <2> QED
    BY <2>1, FS_EmptySet DEF Count
<1>10. Tallies(graph)
  BY <1>7, <1>8, <1>9, EmptyIsSeq DEF Tallies
<1>11. Entries(script, published, graph)
  BY <1>7, EmptyIsSeq DEF Entries
<1>12. TimelinePrecedes(graph, Coming) /\ FlowHasEnded(graph)
  BY <1>2, <1>7 DEF TimelinePrecedes, FlowHasEnded
<1>13. StreamStory
  BY <1>2, <1>6, <1>7, <1>10, <1>11, <1>12 DEF StreamStory, EventsIn, StoryOf
<1>14. StreamWhole
  <2>1. Rising(busSeq, graph, Coming)
    BY <1>1, <1>2, <1>7 DEF Rising
  <2>2. NoGap(script, published, filter, graph, Coming)
    BY <1>2, <1>7, StreamAssumption DEF NoGap, Comes
  <2> QED
    BY <1>2, <1>7, <2>1, <2>2 DEF StreamWhole, StreamInit, Connecting
<1> QED
  BY <1>3, <1>4, <1>5, <1>13, <1>14 DEF StreamInv

(* PublishStage keeps the invariant.                                         *)
LEMMA PublishStageKeeps ==
  ASSUME StreamInv, NEW r \in Streamed, PublishStage(r)
  PROVE  StreamInv'
<1> DEFINE e == NextEvent(script, published, r, busSeq)
           toView == connection.phase = "live" /\ filter \in {None, OwnerOf[r]}
<1>1. /\ published[r] < Len(script[r]) /\ Len(queue) < MaxQueue /\ wire = << >>
      /\ published' = [published EXCEPT ![r] = @ + 1] /\ busSeq' = busSeq + 1
      /\ wire' = IF toView THEN << e >> ELSE wire
      /\ script' = script /\ gone' = gone /\ connection' = connection /\ filter' = filter
      /\ breaks' = breaks /\ queue' = queue /\ pacing' = pacing /\ graph' = graph
  BY DEF PublishStage, viewVars, NextEvent
<1> HIDE DEF e
<1>2. StreamLink /\ StreamView /\ Progress(script, published) /\ busSeq \in Nat
      /\ EventsIn(script, published, Coming) /\ StoryOf(script, published, graph, Coming)
  BY DEF StreamInv, StreamServer, StreamStory
<1>3. Coming = queue /\ IsSeq(queue) /\ Len(queue) \in Nat
  BY <1>1, <1>2, ComingIs
<1>4. Coming' = IF toView THEN Append(Coming, e) ELSE Coming
  BY <1>1, <1>3, Followed DEF Coming
<1> DEFINE next == Coming'
<1>5. next \in {Coming, Append(Coming, e)}
  BY <1>4
<1> HIDE DEF toView
<1>6. GoesOn(script, published, r, busSeq, graph, Coming, next)
  <2> HIDE DEF next
  <2>1. next = Coming \/ next = Append(Coming, NextEvent(script, published, r, busSeq))
    BY <1>5 DEF e
  <2> QED
    BY <1>1, <1>2, <2>1, PublishTells
<1>p. published' = Advanced(published, r)
  BY <1>1 DEF Advanced
<1>7. StreamServer'
  <2>1. Progress(script, Advanced(published, r))
    BY <1>6 DEF GoesOn
  <2>2. Progress(script', published')
    BY <1>1, <1>p, <2>1
  <2>3. busSeq' \in Nat /\ gone' \subseteq Streamed
    BY <1>1, <1>2 DEF StreamInv, StreamServer
  <2> QED
    BY <2>2, <2>3 DEF StreamServer
<1>8. StreamLink'
  BY <1>1, <1>2 DEF StreamLink, toView
<1>9. StreamView'
  <2>1. Len(wire') \in 0..1
    BY <1>1, SingleIsSeq, EmptyIsSeq
  <2> QED
    BY <1>1, <1>2, <1>3, <2>1, StreamAssumption DEF StreamView
<1>10. StreamStory'
  BY <1>1, <1>6, <1>p DEF StreamStory, GoesOn
<1>11. StreamWhole'
  <2>1. SUFFICES ASSUME breaks = 0
                 PROVE  /\ connection.phase \in {"fetching", "live"}
                        /\ connection.phase = "fetching" => next = << >> /\ graph.eventId = None
                        /\ Rising(busSeq + 1, graph, next)
                        /\ NoGap(script, published', filter, graph, next)
    BY <1>1 DEF StreamWhole
  <2>2. /\ connection.phase \in {"fetching", "live"}
        /\ connection.phase = "fetching" => Coming = << >> /\ graph.eventId = None
        /\ Rising(busSeq, graph, Coming)
        /\ NoGap(script, published, filter, graph, Coming)
    BY <2>1 DEF StreamInv, StreamWhole
  <2>3. CASE connection.phase = "fetching"
    <3>1. next = << >>
      BY <1>4, <2>2, <2>3 DEF toView
    <3>2. NoGap(script, published', filter, graph, next)
      BY <2>2, <2>3, <3>1, EmptyIsSeq, StreamAssumption DEF NoGap, Comes
    <3> HIDE DEF next
    <3> QED
      BY <1>6, <2>2, <2>3, <3>1, <3>2 DEF GoesOn
  <2>4. CASE connection.phase = "live"
    <3>1. next = IF filter \in {None, OwnerOf[r]} THEN Append(Coming, e) ELSE Coming
      BY <1>4, <2>4 DEF toView
    <3> HIDE DEF next
    <3>2. NoGap(script, published', filter, graph, next)
      BY <1>6, <1>p, <2>2, <3>1 DEF GoesOn, e
    <3> QED
      BY <1>6, <2>2, <2>4, <3>2 DEF GoesOn
  <2> QED
    BY <2>2, <2>3, <2>4
<1> QED
  BY <1>7, <1>8, <1>9, <1>10, <1>11 DEF StreamInv

(* The view takes the first event on its way.                                *)
LEMMA StepTakes ==
  ASSUME StreamInv, Coming # << >>,
         graph' = Reduce(graph, Head(Coming)), Coming' = Tail(Coming),
         UNCHANGED << serverVars, connection, filter, breaks >>
  PROVE  StreamServer' /\ StreamStory' /\ StreamWhole'
<1> DEFINE h == Reduce(graph, Head(Coming))
           rest == Tail(Coming)
<1>1. /\ script' = script /\ published' = published /\ gone' = gone /\ busSeq' = busSeq
      /\ connection' = connection /\ filter' = filter /\ breaks' = breaks
  BY DEF serverVars
<1>2. /\ Progress(script, published) /\ busSeq \in Nat
      /\ EventsIn(script, published, Coming) /\ StoryOf(script, published, graph, Coming)
  BY DEF StreamInv, StreamServer, StreamStory
<1>3. EventsIn(script, published, rest) /\ StoryOf(script, published, h, rest)
  BY <1>2, TakeTells
<1>4. StreamServer'
  BY <1>1 DEF StreamInv, StreamServer
<1>5. StreamStory'
  BY <1>1, <1>3 DEF StreamStory
<1>6. StreamWhole'
  <2>1. SUFFICES ASSUME breaks = 0
                 PROVE  /\ connection.phase \in {"fetching", "live"}
                        /\ connection.phase = "fetching" => rest = << >> /\ h.eventId = None
                        /\ Rising(busSeq, h, rest)
                        /\ NoGap(script, published, filter, h, rest)
    BY <1>1 DEF StreamWhole
  <2>2. /\ connection.phase = "live"
        /\ Rising(busSeq, graph, Coming)
        /\ NoGap(script, published, filter, graph, Coming)
    BY <2>1 DEF StreamInv, StreamWhole
  <2>3. Rising(busSeq, h, rest) /\ NoGap(script, published, filter, h, rest)
    BY <1>2, <2>2, TakeLeavesNoGap
  <2> HIDE DEF h, rest
  <2> QED
    BY <2>2, <2>3
<1> QED
  BY <1>4, <1>5, <1>6

(* Deliver keeps the invariant.                                              *)
LEMMA DeliverKeeps ==
  ASSUME StreamInv, Deliver
  PROVE  StreamInv'
<1>1. /\ wire # << >> /\ wire' = << >>
      /\ UNCHANGED << serverVars, connection, filter, breaks >>
  BY DEF Deliver
<1>2. StreamLink /\ StreamView
  BY DEF StreamInv
<1>3. /\ IsSeq(queue) /\ IsSeq(wire) /\ Len(queue) \in Nat /\ Len(wire) \in 0..1
      /\ queue = << >> => Coming = wire
      /\ wire = << Head(wire) >> /\ Coming = Append(queue, Head(wire))
  BY <1>1, <1>2, ComingIs
<1> DEFINE line == Append(queue, Head(wire))
<1>4. IsSeq(line) /\ Len(line) = Len(queue) + 1
  BY <1>3, AppendedSeq
<1>5. Len(wire) = 1
  BY <1>3, SingleIsSeq
<1>6. line # << >>
  BY <1>3, <1>4, EmptyIsSeq
<1>7. StreamLink'
  BY <1>1, <1>2 DEF StreamLink
<1>8. Len(wire') = 0
  BY <1>1, EmptyIsSeq
<1> HIDE DEF line
<1>9. Coming = line
  BY <1>3 DEF line
<1>10. CASE pacing = "idle"
  <2>1. /\ graph' = Reduce(graph, Head(line)) /\ queue' = Tail(line)
        /\ pacing' = IF Tail(line) = << >> THEN "idle" ELSE "held"
    BY <1>10 DEF Deliver, Step, line
  <2>2. IsSeq(Tail(line)) /\ Len(Tail(line)) = Len(queue)
    BY <1>3, <1>4, <1>6, TailOfSeq
  <2>3. Coming' = Tail(line)
    BY <1>1, <2>1, <2>2, Followed DEF Coming
  <2>4. StreamServer' /\ StreamStory' /\ StreamWhole'
    BY <1>1, <1>6, <1>9, <2>1, <2>3, StepTakes
  <2>5. StreamView'
    BY <1>2, <1>3, <1>5, <1>8, <2>1, <2>2, StreamAssumption DEF StreamView
  <2> QED
    BY <1>7, <2>4, <2>5 DEF StreamInv
<1>11. CASE pacing # "idle"
  <2>1. queue' = line /\ pacing' = pacing /\ graph' = graph
    BY <1>11 DEF Deliver, line
  <2>2. Coming' = Coming
    BY <1>1, <1>4, <1>9, <2>1, Followed DEF Coming
  <2>3. StreamView'
    BY <1>2, <1>3, <1>4, <1>5, <1>8, <1>11, <2>1, StreamAssumption DEF StreamView
  <2>4. StreamServer' /\ StreamStory' /\ StreamWhole'
    BY <1>1, <2>1, <2>2 DEF StreamInv, StreamServer, StreamStory, StreamWhole, serverVars
  <2> QED
    BY <1>7, <2>3, <2>4 DEF StreamInv
<1> QED
  BY <1>10, <1>11

(* PauseOver keeps the invariant.                                            *)
LEMMA PauseOverKeeps ==
  ASSUME StreamInv, PauseOver
  PROVE  StreamInv'
<1>1. /\ queue # << >> /\ graph' = Reduce(graph, Head(queue)) /\ queue' = Tail(queue)
      /\ pacing' = IF Tail(queue) = << >> THEN "idle" ELSE "held"
      /\ UNCHANGED << serverVars, connection, filter, breaks >> /\ wire' = wire
  BY DEF PauseOver, Step, linkVars
<1>2. StreamLink /\ StreamView
  BY DEF StreamInv
<1>3. IsSeq(queue) /\ Len(queue) \in Nat /\ Len(wire) \in 0..1
  BY <1>2, ComingIs
<1>4. IsSeq(Tail(queue)) /\ Len(Tail(queue)) = Len(queue) - 1
  BY <1>1, <1>3, TailOfSeq
<1>5. Coming # << >> /\ Head(Coming) = Head(queue) /\ Coming' = Tail(Coming)
  <2>1. CASE wire = << >>
    <3>1. Coming = queue
      BY <1>2, <2>1, ComingIs
    <3>2. Coming' = Tail(queue)
      BY <1>1, <1>4, <2>1, Followed DEF Coming
    <3> QED
      BY <1>1, <3>1, <3>2
  <2>2. CASE wire # << >>
    <3> DEFINE e == Head(wire)
    <3>1. wire = << e >> /\ Coming = Append(queue, e)
      BY <1>2, <2>2, ComingIs
    <3>2. PICK S : queue \in Seq(S)
      BY <1>3 DEF IsSeq
    <3>3. queue \in Seq(S \union {e})
      BY <3>2, SeqMonotonic
    <3>4. Coming' = Append(Tail(queue), e)
      BY <1>1, <1>4, <3>1, Followed DEF Coming
    <3> HIDE DEF e
    <3>5. Append(queue, e) # << >> /\ Head(Append(queue, e)) = Head(queue)
      BY <1>1, <1>3, AppendedSeq, SeqHas, EmptyIsSeq
    <3>6. Tail(Append(queue, e)) = Append(Tail(queue), e)
      BY <1>1, <3>3
    <3> QED
      BY <3>1, <3>4, <3>5, <3>6
  <2> QED
    BY <2>1, <2>2
<1>6. StreamServer' /\ StreamStory' /\ StreamWhole'
  BY <1>1, <1>5, StepTakes
<1>7. StreamLink'
  BY <1>1, <1>2 DEF StreamLink
<1>8. StreamView'
  BY <1>1, <1>2, <1>3, <1>4, StreamAssumption DEF StreamView
<1> QED
  BY <1>6, <1>7, <1>8 DEF StreamInv

(* The line loses its end, and the view its connection: it has broken.       *)
LEMMA BreakKeeps ==
  ASSUME StreamInv, Break, wire' = << >>, queue' \in {queue, << >>},
         script' = script, published' = published, graph' = graph
  PROVE  StreamStory' /\ StreamWhole' /\ breaks' \in 0..MaxBreaks
<1>1. breaks \in 0..MaxBreaks /\ MaxBreaks \in Nat
  BY StreamAssumption DEF StreamInv, StreamLink
<1>2. breaks' \in 0..MaxBreaks /\ breaks' # 0
  BY <1>1 DEF Break
<1>3. StreamLink /\ StreamView
  BY DEF StreamInv
<1>4. IsSeq(queue) /\ Len(queue) \in Nat
  BY <1>3, ComingIs
<1>5. EventsIn(script, published, Coming) /\ StoryOf(script, published, graph, Coming)
  BY DEF StreamInv, StreamStory
<1>6. /\ Len(queue) <= Len(Coming)
      /\ \A i \in 1..Len(queue) : Coming[i] = queue[i]
  <2>1. CASE wire = << >>
    BY <1>3, <1>4, <2>1, ComingIs
  <2>2. CASE wire # << >>
    <3>1. Coming = Append(queue, Head(wire))
      BY <1>3, <2>2, ComingIs
    <3> QED
      BY <1>4, <3>1, AppendedSeq
  <2> QED
    BY <2>1, <2>2
<1>7. Coming' = queue'
  BY <1>4, EmptyIsSeq, Followed DEF Coming
<1>8. IsSeq(queue') /\ Len(queue') <= Len(Coming) /\ Len(queue') \in {0, Len(queue)}
  BY <1>4, <1>6, EmptyIsSeq
<1>9. \A i \in 1..Len(queue') : queue'[i] = Coming[i]
  BY <1>4, <1>6, EmptyIsSeq
<1>10. EventsIn(script, published, queue') /\ StoryOf(script, published, graph, queue')
  BY <1>5, <1>8, <1>9, LossTells
<1>11. StreamStory'
  BY <1>7, <1>10 DEF StreamStory
<1>12. StreamWhole'
  BY <1>2 DEF StreamWhole
<1> QED
  BY <1>2, <1>11, <1>12

(* Every step of the stream keeps the invariant.                             *)
LEMMA StreamStep == StreamInv /\ [StreamNext]_streamVars => StreamInv'
<1> SUFFICES ASSUME StreamInv, [StreamNext]_streamVars
             PROVE  StreamInv'
  OBVIOUS
<1>0. Len(<< >>) = 0 /\ IsSeq(<< >>)
  BY EmptyIsSeq
<1>1. ASSUME NEW r \in Streamed, PublishStage(r)
      PROVE  StreamInv'
  BY <1>1, PublishStageKeeps
<1>2. CASE Open
  <2>1. connection' = [phase |-> "live", shown |-> "live", retry |-> FALSE]
        /\ UNCHANGED << serverVars, filter, wire, breaks, queue, pacing >>
    BY <1>2 DEF Open
  <2>2. graph' = graph
    BY <1>2 DEF Open, Reduce, Ignored
  <2>3. Coming' = Coming
    BY <2>1 DEF Coming
  <2>4. StreamServer' /\ StreamStory'
    BY <2>1, <2>2, <2>3 DEF StreamInv, StreamServer, StreamStory, serverVars
  <2>5. StreamLink' /\ StreamView'
    BY <2>1 DEF StreamInv, StreamLink, StreamView
  <2>6. StreamWhole'
    BY <2>1, <2>2, <2>3 DEF StreamInv, StreamWhole, serverVars
  <2> QED
    BY <2>4, <2>5, <2>6 DEF StreamInv
<1>3. CASE Disconnect
  <2>1. /\ Break /\ wire' = << >> /\ UNCHANGED << serverVars, filter, viewVars >>
        /\ \E status \in {"error", "disconnected"} : connection' = Ended(status)
    BY <1>3 DEF Disconnect
  <2>2. StreamStory' /\ StreamWhole' /\ breaks' \in 0..MaxBreaks
    BY <2>1, BreakKeeps DEF serverVars, viewVars
  <2>3. StreamServer'
    BY <2>1 DEF StreamInv, StreamServer, serverVars
  <2>4. StreamLink'
    BY <2>1, <2>2 DEF StreamInv, StreamLink, Ended
  <2>5. StreamView'
    <3>1. Len(queue) \in Nat /\ Len(wire) \in 0..1
      BY ComingIs DEF StreamInv
    <3> QED
      BY <1>0, <2>1, <3>1, StreamAssumption DEF StreamInv, StreamView, viewVars
  <2> QED
    BY <2>2, <2>3, <2>4, <2>5 DEF StreamInv
<1>4. CASE Reconnect
  <2>1. /\ connection.phase = "waiting" /\ connection' = Connecting(TRUE)
        /\ UNCHANGED << serverVars, filter, wire, breaks, viewVars >>
    BY <1>4 DEF Reconnect
  <2>2. breaks # 0
    BY <2>1 DEF StreamInv, StreamWhole
  <2>3. Coming' = Coming
    BY <2>1 DEF Coming, viewVars
  <2>4. StreamServer' /\ StreamStory'
    BY <2>1, <2>3 DEF StreamInv, StreamServer, StreamStory, serverVars, viewVars
  <2>5. StreamLink' /\ StreamView'
    BY <2>1 DEF StreamInv, StreamLink, StreamView, Connecting, viewVars
  <2>6. StreamWhole'
    BY <2>1, <2>2 DEF StreamWhole
  <2> QED
    BY <2>4, <2>5, <2>6 DEF StreamInv
<1>5. ASSUME NEW f \in Filters, Resubscribe(f)
      PROVE  StreamInv'
  <2>1. /\ Break /\ filter' = f /\ connection' = Connecting(FALSE)
        /\ wire' = << >> /\ queue' = << >> /\ pacing' = "idle"
        /\ UNCHANGED << serverVars, graph >>
    BY <1>5 DEF Resubscribe
  <2>2. StreamStory' /\ StreamWhole' /\ breaks' \in 0..MaxBreaks
    BY <2>1, BreakKeeps DEF serverVars
  <2>3. StreamServer'
    BY <2>1 DEF StreamInv, StreamServer, serverVars
  <2>4. StreamLink'
    BY <2>1, <2>2 DEF StreamLink, Connecting
  <2>5. StreamView'
    BY <1>0, <2>1, StreamAssumption DEF StreamView
  <2> QED
    BY <2>2, <2>3, <2>4, <2>5 DEF StreamInv
<1>6. CASE ServerRestarts
  <2>1. /\ Break /\ busSeq' = 0 /\ wire' = << >>
        /\ gone' = gone \union {r \in Streamed : published[r] > 0}
        /\ connection' = IF connection.phase = "live" THEN Ended("disconnected") ELSE connection
        /\ UNCHANGED << script, published, filter, viewVars >>
    BY <1>6 DEF ServerRestarts
  <2>2. StreamStory' /\ StreamWhole' /\ breaks' \in 0..MaxBreaks
    BY <2>1, BreakKeeps DEF viewVars
  <2>3. StreamServer'
    BY <2>1 DEF StreamInv, StreamServer
  <2>4. StreamLink'
    BY <2>1, <2>2 DEF StreamInv, StreamLink, Ended
  <2>5. StreamView'
    <3>1. Len(queue) \in Nat /\ Len(wire) \in 0..1
      BY ComingIs DEF StreamInv
    <3> QED
      BY <1>0, <2>1, <3>1, StreamAssumption DEF StreamInv, StreamView, viewVars
  <2> QED
    BY <2>2, <2>3, <2>4, <2>5 DEF StreamInv
<1>7. CASE Deliver
  BY <1>7, DeliverKeeps
<1>8. CASE PauseOver
  BY <1>8, PauseOverKeeps
<1>9. CASE UNCHANGED streamVars
  <2>1. UNCHANGED << serverVars, linkVars, viewVars >>
    BY <1>9 DEF streamVars
  <2>2. Coming' = Coming
    BY <2>1 DEF Coming, linkVars, viewVars
  <2>3. StreamServer' /\ StreamStory' /\ StreamWhole'
    BY <2>1, <2>2
    DEF StreamInv, StreamServer, StreamStory, StreamWhole, serverVars, linkVars, viewVars
  <2>4. StreamLink' /\ StreamView'
    BY <2>1 DEF StreamInv, StreamLink, StreamView, linkVars, viewVars
  <2> QED
    BY <2>3, <2>4 DEF StreamInv
<1> QED
  BY <1>1, <1>2, <1>3, <1>4, <1>5, <1>6, <1>7, <1>8, <1>9 DEF StreamNext

(* Strictly ascending indices: as many as there are entries.                 *)
LEMMA AscendingCount ==
  ASSUME NEW t, IsSeq(t), NEW S,
         \A m, n \in 1..Len(t) : m < n => t[m].of.index < t[n].of.index,
         \A n \in 1..Len(t) : t[n].of.index \in S /\ t[n].of.index \in Nat,
         \A x \in S : \E n \in 1..Len(t) : t[n].of.index = x
  PROVE  Cardinality(S) = Len(t)
<1> DEFINE f == [n \in 1..Len(t) |-> t[n].of.index]
<1>1. Len(t) \in Nat
  BY SeqHas
<1>2. f \in [1..Len(t) -> S]
  OBVIOUS
<1>3. ASSUME NEW m \in 1..Len(t), NEW n \in 1..Len(t), m # n
      PROVE  f[m] # f[n]
  <2>1. m < n \/ n < m
    BY <1>1, <1>3
  <2>2. t[m].of.index < t[n].of.index \/ t[n].of.index < t[m].of.index
    BY <2>1
  <2> QED
    BY <2>2
<1>4. \A x \in S : \E n \in 1..Len(t) : f[n] = x
  OBVIOUS
<1> HIDE DEF f
<1>5. f \in Bijection(1..Len(t), S)
  <2>1. f \in Injection(1..Len(t), S)
    BY <1>2, <1>3 DEF Injection, IsInjective
  <2>2. f \in Surjection(1..Len(t), S)
    BY <1>2, <1>4 DEF Surjection
  <2> QED
    BY <2>1, <2>2 DEF Bijection
<1>6. IsFiniteSet(1..Len(t)) /\ Cardinality(1..Len(t)) = Len(t)
  BY <1>1, FS_Interval
<1>7. ExistsBijection(1..Len(t), S)
  BY <1>5 DEF ExistsBijection
<1> QED
  BY <1>6, <1>7, FS_Bijection

(* What the invariant says of the stream's state, and of what it shows.      *)
LEMMA StreamHolds == StreamInv => GraphShowsOneRequest /\ StreamTypeOK
<1> SUFFICES ASSUME StreamInv
             PROVE  GraphShowsOneRequest /\ StreamTypeOK
  OBVIOUS
<1> DEFINE t == graph.timeline
<1>1. /\ Progress(script, published) /\ StreamLink /\ StreamView
      /\ EventsIn(script, published, Coming) /\ StoryOf(script, published, graph, Coming)
  BY DEF StreamInv, StreamServer, StreamStory
<1>2. /\ Entries(script, published, graph) /\ Tallies(graph) /\ FlowHasEnded(graph)
      /\ graph.lastSeq \in Nat \union {-1}
  BY <1>1 DEF StoryOf
<1>3. IsSeq(t) /\ Len(t) \in Nat
  BY <1>2, SeqHas DEF Entries
<1>4. \A n \in 1..Len(t) :
        /\ IsEvent(script, published, t[n].of)
        /\ t[n].of.eventType \in Timed /\ t[n].of.eventId = graph.eventId
  BY <1>2 DEF Entries
<1>5. \A m, n \in 1..Len(t) : m < n => t[m].of.index < t[n].of.index
  BY <1>2 DEF Entries
<1>6. \A n \in 1..Len(t) : n > 1 => t[n - 1].of.index < t[n].of.index
  BY <1>3, <1>5
<1>7. graph.eventId # None => t[1].of.eventType = "request.received"
  BY <1>2 DEF Entries
<1>8. ASSUME graph.flow \in {"success", "failed"}
      PROVE  Count(t, Terminal) = 1
  <2>1. PICK n \in 1..Len(t) : t[n].of.eventType \in Terminal
    BY <1>2, <1>8 DEF FlowHasEnded
  <2>2. ASSUME NEW m \in 1..Len(t), t[m].of.eventType \in Terminal
        PROVE  m = n
    <3> DEFINE r == graph.eventId
               i == t[n].of.index
               j == t[m].of.index
    <3>1. /\ IsEvent(script, published, t[n].of) /\ t[n].of.eventId = r
          /\ IsEvent(script, published, t[m].of) /\ t[m].of.eventId = r
      BY <1>4
    <3>2. r \in Streamed /\ i \in 1..Len(script[r]) /\ j \in 1..Len(script[r])
      BY <1>1, <3>1, EventHasType DEF IsEvent
    <3>3. script[r][i].eventType \in Terminal /\ script[r][j].eventType \in Terminal
      BY <2>1, <2>2, <3>1 DEF IsEvent
    <3>4. IsScript(script[r])
      BY <1>1, <3>2, StreamAssumption DEF Progress
    <3>5. i = j
      BY <3>2, <3>3, <3>4 DEF IsScript
    <3>6. ~(i < j) /\ ~(j < i)
      BY <3>1, <3>5, <1>1, EventHasType
    <3>7. ~(n < m) /\ ~(m < n)
      BY <1>5, <3>6
    <3> QED
      BY <3>7, <1>3
  <2>3. {k \in 1..Len(t) : t[k].of.eventType \in Terminal} = {n}
    BY <2>1, <2>2
  <2> QED
    BY <2>3, FS_Singleton DEF Count
<1>9. ASSUME breaks = 0, graph.eventId # None, wire = << >>, queue = << >>,
             published[graph.eventId] = Len(script[graph.eventId])
      PROVE  Len(t) = StagesOf(graph.eventId)
  <2> DEFINE r == graph.eventId
             S == {n \in 1..Len(script[r]) : script[r][n].eventType \in Timed}
  <2>1. r \in Streamed
    BY <1>2, <1>9 DEF Entries
  <2>2. Coming = << >> /\ Len(Coming) = 0
    BY <1>1, <1>9, ComingIs, EmptyIsSeq
  <2>3. NoGap(script, published, filter, graph, Coming)
    BY <1>9 DEF StreamInv, StreamWhole
  <2>4. ASSUME NEW x \in S
        PROVE  \E n \in 1..Len(t) : t[n].of.index = x
    <3>1. Told(graph, r, x) \/ Comes(Coming, r, x)
      BY <1>9, <2>1, <2>3 DEF NoGap
    <3> QED
      BY <2>2, <3>1 DEF Told, Comes
  <2>5. ASSUME NEW n \in 1..Len(t)
        PROVE  t[n].of.index \in S /\ t[n].of.index \in Nat
    <3>1. IsEvent(script, published, t[n].of) /\ t[n].of.eventType \in Timed /\ t[n].of.eventId = r
      BY <1>4
    <3>2. t[n].of.index \in 1..Len(script[r]) /\ t[n].of.index \in Nat
      BY <1>1, <3>1, EventHasType
    <3>3. script[r][t[n].of.index].eventType \in Timed
      BY <3>1 DEF IsEvent
    <3> QED
      BY <3>2, <3>3
  <2> HIDE DEF S
  <2>6. Cardinality(S) = Len(t)
    BY <1>3, <1>5, <2>4, <2>5, AscendingCount
  <2> QED
    BY <2>6 DEF StagesOf, S
<1>10. GraphShowsOneRequest
  <2>1. /\ Len(graph.candidates) = Count(t, {"candidate.evaluated", "candidate.excluded"})
        /\ Len(graph.attempts) = Count(t, {"execution.completed"})
    BY <1>2 DEF Tallies, Candidates
  <2> HIDE DEF t
  <2>2. ASSUME NEW n \in 1..Len(t)
        PROVE  t[n].of.eventId = graph.eventId /\ (n > 1 => t[n - 1].of.index < t[n].of.index)
    BY <1>4, <1>6
  <2> QED
    BY <1>7, <1>8, <1>9, <2>1, <2>2 DEF GraphShowsOneRequest, Count, t
<1>11. StreamTypeOK
  <2>1. \A r \in Streamed : published[r] \in 0..Len(script[r])
    <3>1. \A r \in Streamed : Len(script[r]) \in Nat
      BY <1>1, StreamAssumption DEF Progress, IsScript
    <3> QED
      BY <1>1, <3>1 DEF Progress
  <2>2. Len(queue) <= MaxQueue
    BY <1>1, ComingIs, StreamAssumption DEF StreamView
  <2> QED
    BY <1>1, <1>2, <2>1, <2>2
    DEF StreamTypeOK, StreamInv, StreamServer, StreamLink, StreamView, Progress
<1> QED
  BY <1>10, <1>11

-----------------------------------------------------------------------------
(* The data hooks.                                                          *)

(* The fields of a fetch and of a form.                                      *)
FetchFields == {"id", "source", "about", "stage", "aborted"}

IsFetch(c) ==
  /\ DOMAIN c = FetchFields
  /\ c.id \in 1..lastId /\ c.source \in DOMAIN views
  /\ c.stage \in {"sent", "answered", "failed"} /\ c.aborted \in BOOLEAN

FormStates == [status : {"idle", "loading", "ready", "error"}, about : Nat \union {Nothing}]

Forms ==
  [state : FormStates, inFlight : BOOLEAN, lastId : Nat, calls : SUBSET Nat, steps : Nat]

(* The fetch that is the latest asks the question that is asked; another one *)
(* is aborted.                                                               *)
FetchesAsk ==
  \A c \in calls :
    /\ IsFetch(c)
    /\ ~c.aborted => c.id = lastId /\ c.about = deps
    /\ c.id = lastId /\ Nothing \notin {deps[d] : d \in effect.deps} => ~c.aborted

HooksShape ==
  /\ effect \in CostPage \union OtherPages
  /\ deps = [d \in effect.deps |-> deps[d]]
  /\ lastId \in Nat /\ lastId > 0
  /\ views = [s \in effect.sources \cap Watched |-> views[s]]
  /\ \A s \in DOMAIN views : views[s].status \in {"idle", "loading", "ready", "error"}

ViewsAnswer ==
  effect.guard # "signal" /\ Nothing \notin {deps[d] : d \in effect.deps} =>
    \A s \in DOMAIN views :
      /\ views[s].status \in {"ready", "error"} => views[s].about = deps
      /\ views[s].status = "loading" => \E c \in calls : c.source = s /\ c.id = lastId

FormKeepsTrack ==
  /\ form \in Forms /\ form.steps <= MaxSubmits
  /\ \A id \in form.calls : id <= form.lastId
  /\ form.inFlight = TRUE <=> form.lastId \in form.calls
  /\ form.state.status = "loading" => form.inFlight = TRUE
  /\ form.state.status \in {"ready", "error"} => form.state.about = form.lastId

HooksInv == HooksShape /\ FetchesAsk /\ ViewsAnswer /\ FormKeepsTrack

(* The guards there are; the form's page has no views.                       *)
LEMMA EffectHasGuard ==
  ASSUME NEW e \in CostPage \union OtherPages
  PROVE  /\ e.guard \in {"id", "cancelled", "signal", "form"}
         /\ e.guard = "form" => e.sources = {}
BY DEF CostPage, OtherPages, UseCostData, UseBudgetStatus, UseBudgetDecisions,
       UseTimeseries, UseAnomalies, UseInsights, UseKeys, UseRules, UseRule, UseCatalog,
       UseReplay, UseRoutingEventById, UseTelemetryEvent, UseOverviewData,
       UsePlaygroundCatalog, FormPage, Effect

(* The fetches of a run of the effect: of one question, one for each view.   *)
LEMMA FetchIs ==
  ASSUME NEW id, NEW question, NEW b \in Fetches(id, question)
  PROVE  /\ DOMAIN b = FetchFields
         /\ b.id = id /\ b.about = question /\ b.stage = "sent" /\ b.aborted = FALSE
         /\ b.source \in effect.sources \cap Watched
<1>1. PICK s \in effect.sources \cap Watched :
        b = [id |-> id, source |-> s, about |-> question, stage |-> "sent", aborted |-> FALSE]
  BY DEF Fetches
<1> QED
  BY <1>1 DEF FetchFields

(* Every source that is watched has a fetch in a batch.                     *)
LEMMA FetchOf ==
  ASSUME NEW id, NEW question, NEW s \in effect.sources \cap Watched
  PROVE  \E b \in Fetches(id, question) : b.source = s /\ b.id = id
<1> DEFINE b == [id |-> id, source |-> s, about |-> question, stage |-> "sent", aborted |-> FALSE]
<1>1. b \in Fetches(id, question)
  BY DEF Fetches
<1> QED
  BY <1>1

(* The page has mounted.                                                     *)
LEMMA HooksInitHolds == HooksInit => HooksInv
<1> SUFFICES ASSUME HooksInit
             PROVE  HooksInv
  OBVIOUS
<1>1. HooksShape
  BY DEF HooksInit, HooksShape, Loading
<1>2. calls = Fetches(1, deps) /\ lastId = 1
      /\ views = [s \in effect.sources \cap Watched |-> Loading]
  BY DEF HooksInit
<1>3. FetchesAsk
  <2>1. SUFFICES ASSUME NEW c \in calls
                 PROVE  IsFetch(c) /\ ~c.aborted /\ c.id = lastId /\ c.about = deps
    BY DEF FetchesAsk
  <2>2. c \in Fetches(1, deps)
    BY <1>2, <2>1
  <2>3. /\ DOMAIN c = FetchFields
        /\ c.id = 1 /\ c.about = deps /\ c.stage = "sent" /\ c.aborted = FALSE
        /\ c.source \in effect.sources \cap Watched
    BY <2>2, FetchIs
  <2>4. DOMAIN views = effect.sources \cap Watched /\ lastId = 1
    BY <1>2
  <2>5. c.id \in 1..lastId
    BY <2>3, <2>4
  <2>6. c.stage \in {"sent", "answered", "failed"} /\ c.aborted \in BOOLEAN
    BY <2>3
  <2>7. IsFetch(c)
    BY <2>3, <2>4, <2>5, <2>6 DEF IsFetch
  <2> QED
    BY <2>3, <2>4, <2>7
<1>4. ViewsAnswer
  <2>1. ASSUME NEW s \in DOMAIN views
        PROVE  views[s].status = "loading" /\ \E c \in calls : c.source = s /\ c.id = lastId
    <3>1. s \in effect.sources \cap Watched /\ views[s].status = "loading"
      BY <1>2 DEF Loading
    <3>2. \E c \in Fetches(1, deps) : c.source = s /\ c.id = 1
      BY <3>1, FetchOf
    <3> QED
      BY <1>2, <3>1, <3>2
  <2> QED
    BY <2>1 DEF ViewsAnswer
<1>5. FormKeepsTrack
  <2>1. form = NoForm
    BY DEF HooksInit
  <2>2. /\ NoForm.state = Idle /\ NoForm.inFlight = FALSE /\ NoForm.lastId = 0
        /\ NoForm.calls = {} /\ NoForm.steps = 0 /\ Idle.status = "idle"
    BY DEF NoForm, Idle
  <2>3. NoForm \in Forms
    BY DEF NoForm, Forms, FormStates, Idle
  <2> QED
    BY <2>1, <2>2, <2>3, HooksAssumption DEF FormKeepsTrack
<1> QED
  BY <1>1, <1>3, <1>4, <1>5 DEF HooksInv

(* A change of what the effect depends on.                                   *)
LEMMA ChangeKeeps ==
  ASSUME HooksInv, NEW d \in effect.deps, NEW value, Change(d, value)
  PROVE  HooksShape' /\ FetchesAsk' /\ ViewsAnswer'
<1>1. /\ deps' = [deps EXCEPT ![d] = value] /\ effect' = effect
      /\ lastId \in Nat /\ lastId > 0
  BY DEF Change, HooksInv, HooksShape
<1>2. \A c \in calls :
        IsFetch(c) /\ IsFetch(Cut(c)) /\ Cut(c).aborted /\ Cut(c).id = c.id
  BY DEF HooksInv, FetchesAsk, IsFetch, FetchFields, Cut
<1>3. DOMAIN views = effect.sources \cap Watched /\ DOMAIN deps = effect.deps
  BY DEF HooksInv, HooksShape
<1>4. deps'[d] = value /\ DOMAIN deps' = effect.deps
  BY <1>1, <1>3
<1>5. CASE value = Nothing
  <2>1. /\ calls' = {Cut(c) : c \in calls} /\ lastId' = lastId
        /\ views' = [s \in DOMAIN views |-> Idle]
    BY <1>5 DEF Change
  <2>2. HooksShape'
    BY <1>1, <1>3, <1>4, <2>1 DEF HooksInv, HooksShape, Idle
  <2>3. Nothing \in {deps'[x] : x \in effect'.deps}
    BY <1>1, <1>4, <1>5
  <2>4. FetchesAsk'
    <3>1. SUFFICES ASSUME NEW b \in calls'
                   PROVE  IsFetch(b)' /\ b.aborted
      BY <2>3 DEF FetchesAsk
    <3>2. PICK c \in calls : b = Cut(c)
      BY <2>1
    <3>3. IsFetch(b) /\ b.aborted
      BY <1>2, <3>2
    <3> QED
      BY <2>1, <3>3 DEF IsFetch
  <2>5. ViewsAnswer'
    BY <2>3 DEF ViewsAnswer
  <2> QED
    BY <2>2, <2>4, <2>5
<1>6. CASE value # Nothing
  <2>1. /\ calls' = {Cut(c) : c \in calls} \union Fetches(lastId + 1, deps')
        /\ lastId' = lastId + 1 /\ views' = [s \in DOMAIN views |-> Loading]
    BY <1>6 DEF Change
  <2>2. HooksShape'
    BY <1>1, <1>3, <1>4, <2>1 DEF HooksInv, HooksShape, Loading
  <2>3. FetchesAsk'
    <3>1. SUFFICES ASSUME NEW b \in calls'
                   PROVE  /\ IsFetch(b)'
                          /\ ~b.aborted => b.id = lastId' /\ b.about = deps'
                          /\ b.id = lastId' => ~b.aborted
      BY DEF FetchesAsk
    <3>2. CASE b \in Fetches(lastId + 1, deps')
      <4>1. /\ DOMAIN b = FetchFields
            /\ b.id = lastId + 1 /\ b.about = deps' /\ b.stage = "sent" /\ b.aborted = FALSE
            /\ b.source \in effect.sources \cap Watched
        BY <3>2, FetchIs
      <4>2. DOMAIN views' = effect.sources \cap Watched
        BY <1>3, <2>1
      <4>3. b.id \in 1..lastId'
        BY <1>1, <2>1, <4>1
      <4>4. b.stage \in {"sent", "answered", "failed"} /\ b.aborted \in BOOLEAN
        BY <4>1
      <4>5. IsFetch(b)'
        BY <4>1, <4>2, <4>3, <4>4 DEF IsFetch
      <4> QED
        BY <2>1, <4>1, <4>5
    <3>3. ASSUME NEW c \in calls, b = Cut(c)
          PROVE  IsFetch(b)' /\ b.aborted /\ b.id # lastId'
      <4>1. IsFetch(b) /\ b.aborted
        BY <1>2, <3>3
      <4> QED
        BY <1>1, <2>1, <4>1 DEF IsFetch
    <3> QED
      BY <2>1, <3>2, <3>3
  <2>4. ViewsAnswer'
    <3>1. ASSUME NEW s \in DOMAIN views'
          PROVE  /\ views'[s].status = "loading"
                 /\ \E c \in calls' : c.source = s /\ c.id = lastId'
      <4>1. s \in effect.sources \cap Watched /\ views'[s].status = "loading"
        BY <1>3, <2>1 DEF Loading
      <4> DEFINE id == lastId + 1
                 question == deps'
      <4> HIDE DEF id, question
      <4>2. \E c \in Fetches(id, question) : c.source = s /\ c.id = id
        BY <4>1, FetchOf
      <4> QED
        BY <2>1, <4>1, <4>2 DEF id, question
    <3> QED
      BY <3>1 DEF ViewsAnswer
  <2> QED
    BY <2>2, <2>3, <2>4
<1> QED
  BY <1>5, <1>6

(* A fetch settles.                                                          *)
LEMMA SettleKeeps ==
  ASSUME HooksInv, NEW c \in calls, NEW stage \in {"answered", "failed"}, Settle(c, stage)
  PROVE  HooksShape' /\ FetchesAsk' /\ ViewsAnswer'
<1> DEFINE b == [c EXCEPT !.stage = stage]
<1>1. /\ calls' = (calls \ {c}) \union {b}
      /\ effect' = effect /\ deps' = deps /\ lastId' = lastId /\ views' = views
  BY DEF Settle
<1>2. IsFetch(c)
  BY DEF HooksInv, FetchesAsk
<1>3. IsFetch(b) /\ b.id = c.id /\ b.source = c.source /\ b.about = c.about
      /\ b.aborted = c.aborted
  BY <1>2 DEF IsFetch, FetchFields
<1> HIDE DEF b
<1>4. HooksShape'
  BY <1>1 DEF HooksInv, HooksShape
<1>5. FetchesAsk'
  BY <1>1, <1>3 DEF HooksInv, FetchesAsk, IsFetch
<1>6. ViewsAnswer'
  <2>1. ASSUME NEW s, NEW x \in calls, x.source = s, x.id = lastId
        PROVE  \E y \in calls' : y.source = s /\ y.id = lastId
    BY <1>1, <1>3, <2>1
  <2> QED
    BY <1>1, <2>1 DEF HooksInv, ViewsAnswer
<1> QED
  BY <1>4, <1>5, <1>6

(* The continuation of a fetch runs.                                         *)
LEMMA ContinueKeeps ==
  ASSUME HooksInv, NEW c \in calls, Continue(c)
  PROVE  HooksShape' /\ FetchesAsk' /\ ViewsAnswer'
<1>1. /\ c.stage # "sent" /\ calls' = calls \ {c}
      /\ views' = IF Shows(c) THEN [views EXCEPT ![c.source] = Shown(c)] ELSE views
      /\ effect' = effect /\ deps' = deps /\ lastId' = lastId
  BY DEF Continue
<1>2. IsFetch(c) /\ (~c.aborted => c.id = lastId /\ c.about = deps)
      /\ (c.id = lastId /\ Nothing \notin {deps[d] : d \in effect.deps} => ~c.aborted)
  BY DEF HooksInv, FetchesAsk
<1>3. DOMAIN views' = DOMAIN views /\ c.source \in DOMAIN views
  BY <1>1, <1>2 DEF IsFetch
<1>4. Shown(c).status \in {"ready", "error"} /\ Shown(c).about = c.about
  BY DEF Shown
<1>5. \A s \in DOMAIN views :
        views'[s] = IF s = c.source /\ Shows(c) THEN Shown(c) ELSE views[s]
  BY <1>1, <1>3
<1>6. HooksShape'
  <2>1. views' = [s \in effect.sources \cap Watched |-> views'[s]]
    <3>1. views = [s \in effect.sources \cap Watched |-> views[s]]
      BY DEF HooksInv, HooksShape
    <3>2. CASE Shows(c)
      <4>1. views' = [views EXCEPT ![c.source] = Shown(c)]
        BY <1>1, <3>2
      <4> QED
        BY <3>1, <4>1
    <3> QED
      BY <1>1, <3>1, <3>2
  <2>2. \A s \in DOMAIN views' : views'[s].status \in {"idle", "loading", "ready", "error"}
    BY <1>3, <1>4, <1>5 DEF HooksInv, HooksShape
  <2> QED
    BY <1>1, <2>1, <2>2 DEF HooksInv, HooksShape
<1>7. FetchesAsk'
  BY <1>1, <1>3 DEF HooksInv, FetchesAsk, IsFetch
<1>8. ViewsAnswer'
  <2>1. SUFFICES ASSUME effect.guard # "signal",
                        Nothing \notin {deps[d] : d \in effect.deps},
                        NEW s \in DOMAIN views
                 PROVE  /\ views'[s].status \in {"ready", "error"} => views'[s].about = deps
                        /\ views'[s].status = "loading" =>
                             \E x \in calls' : x.source = s /\ x.id = lastId
    BY <1>1, <1>3 DEF ViewsAnswer
  <2>2. effect.guard \in {"id", "cancelled"}
    <3>1. effect.sources # {}
      BY <1>3 DEF HooksInv, HooksShape
    <3>2. effect \in CostPage \union OtherPages
      BY DEF HooksInv, HooksShape
    <3> QED
      BY <2>1, <3>1, <3>2, EffectHasGuard
  <2>3. Shows(c) => c.about = deps
    BY <1>2, <2>1, <2>2 DEF Shows
  <2>4. c.id = lastId => Shows(c)
    BY <1>2, <2>1, <2>2 DEF Shows
  <2>5. CASE s = c.source /\ Shows(c)
    BY <1>4, <1>5, <2>3, <2>5
  <2>6. CASE ~(s = c.source /\ Shows(c))
    <3>1. views'[s] = views[s]
      BY <1>5, <2>6
    <3>2. views[s].status \in {"ready", "error"} => views[s].about = deps
      BY <2>1 DEF HooksInv, ViewsAnswer
    <3>3. ASSUME views[s].status = "loading"
          PROVE  \E x \in calls' : x.source = s /\ x.id = lastId
      <4>1. PICK x \in calls : x.source = s /\ x.id = lastId
        BY <2>1, <3>3 DEF HooksInv, ViewsAnswer
      <4>2. x # c
        BY <2>4, <2>6, <4>1
      <4> QED
        BY <1>1, <4>1, <4>2
    <3> QED
      BY <3>1, <3>2, <3>3
  <2> QED
    BY <2>5, <2>6
<1> QED
  BY <1>6, <1>7, <1>8

(* What a form does keeps its part of the invariant.                         *)
LEMMA FormStep ==
  ASSUME HooksInv,
         Submit \/ Reset \/ \E id \in form.calls, status \in {"ready", "error"} :
                               FormAnswered(id, status)
  PROVE  FormKeepsTrack' /\ UNCHANGED << effect, deps, lastId, calls, views >>
<1>1. /\ form \in Forms /\ form.steps <= MaxSubmits
      /\ \A id \in form.calls : id <= form.lastId
      /\ form.inFlight = TRUE <=> form.lastId \in form.calls
      /\ form.state.status = "loading" => form.inFlight = TRUE
      /\ form.state.status \in {"ready", "error"} => form.state.about = form.lastId
  BY DEF HooksInv, FormKeepsTrack
<1>2. MaxSubmits \in Nat
  BY HooksAssumption
<1>3. /\ form.lastId \in Nat /\ form.steps \in Nat /\ form.calls \subseteq Nat
      /\ form.lastId + 1 \notin form.calls
  BY <1>1 DEF Forms
<1>4. CASE Submit
  <2>1. /\ form.steps < MaxSubmits
        /\ form' = [form EXCEPT !.inFlight = TRUE, !.lastId = form.lastId + 1,
                                !.state = Loading, !.calls = @ \union {form.lastId + 1},
                                !.steps = @ + 1]
    BY <1>1, <1>4 DEF Submit, Formed, Forms
  <2>2. /\ form' \in Forms /\ form'.steps = form.steps + 1 /\ form'.lastId = form.lastId + 1
        /\ form'.calls = form.calls \union {form.lastId + 1}
        /\ form'.inFlight = TRUE /\ form'.state = Loading
    <3> DEFINE calling == form.calls \union {form.lastId + 1}
    <3>1. Loading \in FormStates /\ calling \in SUBSET Nat
      BY <1>3 DEF FormStates, Loading
    <3> HIDE DEF calling
    <3>2. form' = [form EXCEPT !.inFlight = TRUE, !.lastId = form.lastId + 1,
                               !.state = Loading, !.calls = calling, !.steps = form.steps + 1]
      BY <2>1 DEF calling
    <3>8. form \in Forms /\ form.lastId + 1 \in Nat /\ form.steps + 1 \in Nat
          /\ TRUE \in BOOLEAN
      BY <1>1, <1>3
    <3>3. form' \in Forms
      BY <3>1, <3>2, <3>8 DEF Forms
    <3>4. form'.steps = form.steps + 1 /\ form'.lastId = form.lastId + 1
      BY <1>1, <3>2 DEF Forms
    <3>5. form'.calls = calling
      BY <1>1, <3>2 DEF Forms
    <3>6. form'.inFlight = TRUE
      BY <1>1, <3>2 DEF Forms
    <3>7. form'.state = Loading
      BY <1>1, <3>2 DEF Forms
    <3> QED
      BY <3>3, <3>4, <3>5, <3>6, <3>7 DEF calling
  <2>3. FormKeepsTrack'
    <3>1. Loading.status = "loading"
      BY DEF Loading
    <3> QED
      BY <1>1, <1>2, <1>3, <2>1, <2>2, <3>1 DEF FormKeepsTrack
  <2> QED
    BY <1>4, <2>3 DEF Submit
<1>5. CASE Reset
  <2>1. /\ form.steps < MaxSubmits
        /\ form' = [form EXCEPT !.inFlight = FALSE, !.lastId = @ + 1, !.state = Idle,
                                !.steps = @ + 1]
    BY <1>1, <1>5 DEF Reset, Formed, Forms
  <2>2. /\ form' \in Forms /\ form'.steps = form.steps + 1 /\ form'.lastId = form.lastId + 1
        /\ form'.calls = form.calls /\ form'.inFlight = FALSE /\ form'.state = Idle
    <3>1. Idle \in FormStates
      BY DEF FormStates, Idle
    <3>8. form \in Forms /\ form.lastId + 1 \in Nat /\ form.steps + 1 \in Nat
          /\ FALSE \in BOOLEAN
      BY <1>1, <1>3
    <3>3. form' \in Forms
      BY <2>1, <3>1, <3>8 DEF Forms
    <3>4. form'.steps = form.steps + 1 /\ form'.lastId = form.lastId + 1
      BY <1>1, <2>1 DEF Forms
    <3>5. form'.calls = form.calls
      BY <1>1, <2>1 DEF Forms
    <3>6. form'.inFlight = FALSE
      BY <1>1, <2>1 DEF Forms
    <3>7. form'.state = Idle
      BY <1>1, <2>1 DEF Forms
    <3> QED
      BY <3>3, <3>4, <3>5, <3>6, <3>7
  <2>3. FormKeepsTrack'
    <3>1. Idle.status = "idle"
      BY DEF Idle
    <3> QED
      BY <1>1, <1>2, <1>3, <2>1, <2>2, <3>1 DEF FormKeepsTrack
  <2> QED
    BY <1>5, <2>3 DEF Reset
<1>6. ASSUME NEW id \in form.calls, NEW status \in {"ready", "error"}, FormAnswered(id, status)
      PROVE  FormKeepsTrack' /\ UNCHANGED << effect, deps, lastId, calls, views >>
  <2> DEFINE state == [status |-> status, about |-> id]
  <2>1. form' = [form EXCEPT !.calls = @ \ {id}, !.inFlight = Ends(id),
                             !.state = IF id = form.lastId THEN state ELSE @]
    BY <1>6 DEF FormAnswered
  <2>2. state \in FormStates /\ state.status = status /\ state.about = id
    BY <1>3 DEF FormStates
  <2> HIDE DEF state
  <2>3. /\ form' \in Forms /\ form'.steps = form.steps /\ form'.lastId = form.lastId
        /\ form'.calls = form.calls \ {id} /\ form'.inFlight = Ends(id)
        /\ form'.state = IF id = form.lastId THEN state ELSE form.state
    BY <1>1, <1>3, <2>1, <2>2 DEF Forms, Ends
  <2>4. FormKeepsTrack'
    <3>1. CASE id = form.lastId
      BY <1>1, <1>3, <2>2, <2>3, <3>1 DEF FormKeepsTrack, Ends
    <3>2. CASE id # form.lastId
      BY <1>1, <1>3, <2>2, <2>3, <3>2 DEF FormKeepsTrack, Ends
    <3> QED
      BY <3>1, <3>2
  <2> QED
    BY <1>6, <2>4 DEF FormAnswered
<1> QED
  BY <1>4, <1>5, <1>6

(* Every step of the hooks keeps the invariant.                              *)
LEMMA HooksStep == HooksInv /\ [HooksNext]_hookVars => HooksInv'
<1> SUFFICES ASSUME HooksInv, [HooksNext]_hookVars
             PROVE  HooksInv'
  OBVIOUS
<1>0. form' = form => FormKeepsTrack'
  BY DEF HooksInv, FormKeepsTrack
<1>1. ASSUME NEW d \in effect.deps, NEW value \in ValuesOf(d), Change(d, value)
      PROVE  HooksInv'
  BY <1>0, <1>1, ChangeKeeps DEF Change, HooksInv
<1>2. ASSUME NEW c \in calls, NEW stage \in {"answered", "failed"}, Settle(c, stage)
      PROVE  HooksInv'
  BY <1>0, <1>2, SettleKeeps DEF Settle, HooksInv
<1>3. ASSUME NEW c \in calls, Continue(c)
      PROVE  HooksInv'
  BY <1>0, <1>3, ContinueKeeps DEF Continue, HooksInv
<1>4. ASSUME UNCHANGED << effect, deps, lastId, calls, views >>
      PROVE  HooksShape' /\ FetchesAsk' /\ ViewsAnswer'
  <2>1. HooksShape'
    BY <1>4 DEF HooksInv, HooksShape
  <2>2. FetchesAsk'
    BY <1>4 DEF HooksInv, FetchesAsk, IsFetch
  <2>3. ViewsAnswer'
    BY <1>4 DEF HooksInv, ViewsAnswer
  <2> QED
    BY <2>1, <2>2, <2>3
<1>5. CASE Submit \/ Reset \/ \E id \in form.calls, status \in {"ready", "error"} :
                                FormAnswered(id, status)
  BY <1>4, <1>5, FormStep DEF HooksInv
<1>6. CASE UNCHANGED hookVars
  BY <1>0, <1>4, <1>6 DEF hookVars, HooksInv
<1> QED
  BY <1>1, <1>2, <1>3, <1>5, <1>6 DEF HooksNext

(* What the invariant says of the views and of the state.                    *)
LEMMA HooksHold == HooksInv => ViewsAnswerTheirQuestion /\ HooksTypeOK
<1> SUFFICES ASSUME HooksInv
             PROVE  ViewsAnswerTheirQuestion /\ HooksTypeOK
  OBVIOUS
<1>0. form.inFlight = (form.lastId \in form.calls)
  BY DEF HooksInv, FormKeepsTrack, Forms
<1>1. ViewsAnswerTheirQuestion
  BY <1>0 DEF HooksInv, ViewsAnswer, FormKeepsTrack, ViewsAnswerTheirQuestion
<1>2. form.state.status \in {"idle", "loading", "ready", "error"} /\ form.inFlight \in BOOLEAN
  BY DEF HooksInv, FormKeepsTrack, Forms, FormStates
<1>3. HooksTypeOK
  BY <1>2 DEF HooksInv, HooksShape, FetchesAsk, IsFetch, FormKeepsTrack, HooksTypeOK
<1> QED
  BY <1>1, <1>3

-----------------------------------------------------------------------------
(* The keys page.                                                           *)

KeyStates == {"none", "active", "revoked"}
SomeKey == PageKeys \union {NoPageKey}
PageCalls == [key : PageKeys, id : Nat, stage : {"sent", "done"}]
KeyLists == [status : {"loading", "ready", "error"}, rows : [PageKeys -> KeyStates]]
KeyListings == [stage : {"idle", "sent", "read"}, rows : [PageKeys -> KeyStates]]
CreateDialogs == [open : BOOLEAN, busy : BOOLEAN, secret : SomeKey, ack : BOOLEAN, id : Nat]
RevokeDialogs == [target : SomeKey, busy : BOOLEAN, id : Nat]
KeyHistories ==
  [keys : SUBSET (PageKeys \union ListedFirst), overtaken : BOOLEAN, uncertain : BOOLEAN]

KeysShape ==
  /\ serverKeys \in [PageKeys -> KeyStates]
  /\ keyList \in KeyLists /\ listing \in KeyListings
  /\ keyList.status = "loading" <=> listing.stage # "idle"
  /\ createDialog \in CreateDialogs /\ creations \in SUBSET PageCalls
  /\ revokeDialog \in RevokeDialogs /\ revocations \in SUBSET PageCalls
  /\ dialogs \in 0..MaxDialogs /\ seen \in KeyHistories

(* What is listed or revoked was created; what is being created was not.     *)
KeysExist ==
  /\ \A k \in PageKeys :
       serverKeys[k] = "none" => keyList.rows[k] = "none" /\ listing.rows[k] = "none"
  /\ revokeDialog.target # NoPageKey => serverKeys[revokeDialog.target] # "none"
  /\ \A c \in revocations : serverKeys[c.key] # "none"
  /\ \A c \in creations : c.stage = "sent" => serverKeys[c.key] = "none"
  /\ \A c, d \in creations : c.key = d.key => c = d

(* Until a second key is asked for before the first one came, one secret is  *)
(* on its way at a time.                                                     *)
OneSecret ==
  seen.overtaken = FALSE =>
    /\ \A c, d \in creations : c = d
    /\ creations # {} => createDialog.secret = NoPageKey
    /\ \A k \in PageKeys :
         serverKeys[k] # "none" =>
           k \in seen.keys \/ k = createDialog.secret \/ \E c \in creations : c.key = k

(* What a list call read, and what is listed, is what the server has.        *)
ListsCurrent ==
  (/\ seen.uncertain = FALSE /\ createDialog.secret = NoPageKey
   /\ \A c \in creations \union revocations : c.stage = "sent") =>
     /\ listing.stage = "read" => listing.rows = serverKeys
     /\ keyList.status = "ready" => keyList.rows = serverKeys

KeysPageInv == KeysShape /\ KeysExist /\ OneSecret /\ ListsCurrent

(* The page has mounted.                                                     *)
LEMMA KeysPageInitHolds == KeysPageInit => KeysPageInv
<1> SUFFICES ASSUME KeysPageInit
             PROVE  KeysPageInv
  OBVIOUS
<1>1. serverKeys \in [PageKeys -> KeyStates]
  BY DEF KeysPageInit, KeyStates
<1>2. /\ keyList \in KeyLists /\ keyList.status = "loading" /\ keyList.rows = serverKeys
      /\ listing \in KeyListings /\ listing.stage = "sent" /\ listing.rows = serverKeys
  BY <1>1 DEF KeysPageInit, KeyLists, KeyListings
<1>3. /\ createDialog \in CreateDialogs /\ createDialog.secret = NoPageKey
      /\ revokeDialog \in RevokeDialogs /\ revokeDialog.target = NoPageKey
  BY DEF KeysPageInit, CreateDialogs, RevokeDialogs, Closed, NoTarget, SomeKey
<1>4. seen \in KeyHistories /\ seen.keys = ListedFirst
  BY DEF KeysPageInit, KeyHistories
<1>5. creations = {} /\ revocations = {} /\ dialogs \in 0..MaxDialogs
  BY KeysPageAssumption DEF KeysPageInit
<1>6. KeysShape
  BY <1>1, <1>2, <1>3, <1>4, <1>5 DEF KeysShape
<1>7. KeysExist
  BY <1>2, <1>3, <1>5 DEF KeysExist
<1>8. \A k \in PageKeys : serverKeys[k] # "none" => k \in ListedFirst
  BY DEF KeysPageInit
<1>9. OneSecret
  BY <1>4, <1>5, <1>8 DEF OneSecret
<1>10. ListsCurrent
  BY <1>2 DEF ListsCurrent
<1> QED
  BY <1>6, <1>7, <1>9, <1>10 DEF KeysPageInv

(* The list is read, answered, or asked for again.                           *)
LEMMA ListStep ==
  ASSUME KeysPageInv, ListRead \/ Retry \/ \E ok \in BOOLEAN : ListAnswered(ok)
  PROVE  KeysPageInv'
<1>1. /\ serverKeys \in [PageKeys -> KeyStates]
      /\ keyList \in KeyLists /\ listing \in KeyListings
      /\ keyList.status = "loading" <=> listing.stage # "idle"
  BY DEF KeysPageInv, KeysShape
<1>2. UNCHANGED << serverKeys, createDialog, creations, revokeDialog, revocations, dialogs,
                   seen >>
  BY DEF ListRead, Retry, ListAnswered
<1>3. SUFFICES /\ keyList' \in KeyLists /\ listing' \in KeyListings
               /\ keyList'.status = "loading" <=> listing'.stage # "idle"
               /\ keyList'.rows \in {keyList.rows, listing.rows, serverKeys}
               /\ listing'.rows \in {keyList.rows, listing.rows, serverKeys}
               /\ listing'.stage = "read" =>
                    listing'.rows = serverKeys \/ (listing.stage = "read" /\ listing' = listing)
               /\ keyList'.status = "ready" =>
                    \/ listing.stage = "read" /\ keyList'.rows = listing.rows
                    \/ keyList.status = "ready" /\ keyList'.rows = keyList.rows
  <2>1. KeysShape'
    BY <1>2, <1>3 DEF KeysPageInv, KeysShape
  <2>2. KeysExist'
    BY <1>2, <1>3 DEF KeysPageInv, KeysExist
  <2>3. OneSecret'
    BY <1>2 DEF KeysPageInv, OneSecret
  <2>4. ListsCurrent'
    BY <1>2, <1>3 DEF KeysPageInv, ListsCurrent
  <2> QED
    BY <2>1, <2>2, <2>3, <2>4 DEF KeysPageInv
<1>4. CASE ListRead
  <2>1. /\ listing' = [stage |-> "read", rows |-> serverKeys] /\ keyList' = keyList
        /\ listing.stage = "sent"
    BY <1>4 DEF ListRead
  <2>2. listing' \in KeyListings /\ listing'.stage = "read" /\ listing'.rows = serverKeys
    BY <1>1, <2>1 DEF KeyListings
  <2> QED
    BY <1>1, <2>1, <2>2
<1>5. CASE Retry
  <2>1. /\ listing' = [stage |-> "sent", rows |-> serverKeys]
        /\ keyList' = [keyList EXCEPT !.status = "loading"]
    BY <1>5 DEF Retry, Refreshed
  <2>2. listing' \in KeyListings /\ listing'.stage = "sent" /\ listing'.rows = serverKeys
    BY <1>1, <2>1 DEF KeyListings
  <2>3. keyList' \in KeyLists /\ keyList'.status = "loading" /\ keyList'.rows = keyList.rows
    BY <1>1, <2>1 DEF KeyLists
  <2> QED
    BY <2>2, <2>3
<1>6. ASSUME NEW ok \in BOOLEAN, ListAnswered(ok)
      PROVE  /\ keyList' \in KeyLists /\ listing' \in KeyListings
             /\ keyList'.status = "loading" <=> listing'.stage # "idle"
             /\ keyList'.rows \in {keyList.rows, listing.rows, serverKeys}
             /\ listing'.rows \in {keyList.rows, listing.rows, serverKeys}
             /\ listing'.stage = "read" =>
                  listing'.rows = serverKeys \/ (listing.stage = "read" /\ listing' = listing)
             /\ keyList'.status = "ready" =>
                  \/ listing.stage = "read" /\ keyList'.rows = listing.rows
                  \/ keyList.status = "ready" /\ keyList'.rows = keyList.rows
  <2>1. listing' = [listing EXCEPT !.stage = "idle"]
    BY <1>6 DEF ListAnswered
  <2>2. listing' \in KeyListings /\ listing'.stage = "idle" /\ listing'.rows = listing.rows
    BY <1>1, <2>1 DEF KeyListings
  <2>3. CASE ok = TRUE
    <3>1. listing.stage = "read" /\ keyList' = [status |-> "ready", rows |-> listing.rows]
      BY <1>6, <2>3 DEF ListAnswered
    <3>2. keyList' \in KeyLists /\ keyList'.status = "ready" /\ keyList'.rows = listing.rows
      BY <1>1, <3>1 DEF KeyLists, KeyListings
    <3> QED
      BY <2>2, <3>1, <3>2
  <2>4. CASE ok = FALSE
    <3>1. keyList' = [keyList EXCEPT !.status = "error"]
      BY <1>6, <2>4 DEF ListAnswered
    <3>2. keyList' \in KeyLists /\ keyList'.status = "error" /\ keyList'.rows = keyList.rows
      BY <1>1, <3>1 DEF KeyLists
    <3> QED
      BY <2>2, <3>2
  <2> QED
    BY <2>3, <2>4
<1> QED
  BY <1>4, <1>5, <1>6

(* A dialog opens, is filled in or is cancelled.                             *)
LEMMA DialogStep ==
  ASSUME KeysPageInv, NewKey \/ CancelCreate \/ Acknowledge
  PROVE  KeysPageInv'
<1>1. createDialog \in CreateDialogs /\ dialogs \in 0..MaxDialogs
  BY DEF KeysPageInv, KeysShape
<1>2. UNCHANGED << serverKeys, keyList, listing, creations, revokeDialog, revocations, seen >>
  BY DEF NewKey, CancelCreate, Acknowledge
<1>3. SUFFICES /\ createDialog' \in CreateDialogs /\ dialogs' \in 0..MaxDialogs
               /\ createDialog'.secret = createDialog.secret
  <2>1. KeysShape'
    BY <1>2, <1>3 DEF KeysPageInv, KeysShape
  <2>2. KeysExist'
    BY <1>2 DEF KeysPageInv, KeysExist
  <2>3. OneSecret'
    BY <1>2, <1>3 DEF KeysPageInv, OneSecret
  <2>4. ListsCurrent'
    BY <1>2, <1>3 DEF KeysPageInv, ListsCurrent
  <2> QED
    BY <2>1, <2>2, <2>3, <2>4 DEF KeysPageInv
<1>4. CASE NewKey
  <2>1. dialogs' = dialogs + 1 /\ dialogs < MaxDialogs
    BY <1>4 DEF NewKey, OpenDialog
  <2>2. dialogs' \in 0..MaxDialogs /\ dialogs' \in Nat
    BY <1>1, <2>1, KeysPageAssumption
  <2>3. createDialog' = [createDialog EXCEPT !.open = TRUE, !.busy = FALSE, !.ack = FALSE,
                                             !.id = dialogs']
    BY <1>4 DEF NewKey
  <2>4. TRUE \in BOOLEAN /\ FALSE \in BOOLEAN
    OBVIOUS
  <2>5. createDialog' \in CreateDialogs
    BY <1>1, <2>2, <2>3, <2>4 DEF CreateDialogs
  <2>6. createDialog'.secret = createDialog.secret
    BY <1>1, <2>3 DEF CreateDialogs
  <2> QED
    BY <2>2, <2>5, <2>6
<1>5. CASE CancelCreate
  <2>1. createDialog' = [createDialog EXCEPT !.open = FALSE] /\ dialogs' = dialogs
    BY <1>5 DEF CancelCreate
  <2>2. createDialog' \in CreateDialogs
    BY <1>1, <2>1 DEF CreateDialogs
  <2>3. createDialog'.secret = createDialog.secret
    BY <1>1, <2>1 DEF CreateDialogs
  <2> QED
    BY <1>1, <2>1, <2>2, <2>3
<1>6. CASE Acknowledge
  <2> DEFINE other == ~createDialog.ack
  <2>1. other \in BOOLEAN
    OBVIOUS
  <2>2. createDialog' = [createDialog EXCEPT !.ack = other] /\ dialogs' = dialogs
    BY <1>6 DEF Acknowledge
  <2> HIDE DEF other
  <2>3. createDialog' \in CreateDialogs
    BY <1>1, <2>1, <2>2 DEF CreateDialogs
  <2>4. createDialog'.secret = createDialog.secret
    BY <1>1, <2>2 DEF CreateDialogs
  <2> QED
    BY <1>1, <2>2, <2>3, <2>4
<1> QED
  BY <1>4, <1>5, <1>6

(* A key is asked for.                                                       *)
LEMMA SubmitStep ==
  ASSUME KeysPageInv, SubmitKey
  PROVE  KeysPageInv'
<1>1. /\ createDialog \in CreateDialogs /\ creations \in SUBSET PageCalls
      /\ createDialog.secret = NoPageKey /\ seen \in KeyHistories
  BY DEF KeysPageInv, KeysShape, SubmitKey, FormShown
<1>2. UNCHANGED << serverKeys, keyList, listing, revokeDialog, revocations, dialogs >>
  BY DEF SubmitKey
<1>3. PICK k \in PageKeys :
        /\ serverKeys[k] = "none" /\ k \notin {c.key : c \in creations}
        /\ creations' = creations \union {[key |-> k, id |-> createDialog.id, stage |-> "sent"]}
  BY DEF SubmitKey
<1> DEFINE call == [key |-> k, id |-> createDialog.id, stage |-> "sent"]
<1>4. call \in PageCalls /\ call.key = k /\ call.stage = "sent"
  BY <1>1 DEF CreateDialogs, PageCalls
<1>5. creations' = creations \union {call}
  BY <1>3
<1> HIDE DEF call
<1>6. createDialog' \in CreateDialogs /\ createDialog'.secret = NoPageKey
  <2>1. createDialog' = [createDialog EXCEPT !.busy = TRUE]
    BY DEF SubmitKey
  <2> QED
    BY <1>1, <2>1 DEF CreateDialogs
<1>7. /\ seen' \in KeyHistories /\ seen'.keys = seen.keys /\ seen'.uncertain = seen.uncertain
      /\ seen'.overtaken = FALSE => seen.overtaken = FALSE /\ creations = {}
  <2> DEFINE late == seen.overtaken \/ creations # {}
  <2>1. /\ late \in BOOLEAN
        /\ late = FALSE => seen.overtaken = FALSE /\ creations = {}
    BY <1>1 DEF KeyHistories
  <2>2. seen' = [seen EXCEPT !.overtaken = late]
    BY DEF SubmitKey
  <2> HIDE DEF late
  <2>3. seen' \in KeyHistories
    BY <1>1, <2>1, <2>2 DEF KeyHistories
  <2>4. seen'.keys = seen.keys /\ seen'.uncertain = seen.uncertain /\ seen'.overtaken = late
    BY <1>1, <2>2 DEF KeyHistories
  <2> QED
    BY <2>1, <2>3, <2>4
<1>8. KeysShape'
  BY <1>1, <1>2, <1>4, <1>5, <1>6, <1>7 DEF KeysPageInv, KeysShape
<1>9. KeysExist'
  <2>1. \A c \in creations' : c.stage = "sent" => serverKeys[c.key] = "none"
    BY <1>3, <1>4, <1>5 DEF KeysPageInv, KeysExist
  <2>2. \A c, d \in creations' : c.key = d.key => c = d
    BY <1>3, <1>4, <1>5 DEF KeysPageInv, KeysExist
  <2> QED
    BY <1>2, <2>1, <2>2 DEF KeysPageInv, KeysExist
<1>10. OneSecret'
  BY <1>1, <1>2, <1>5, <1>6, <1>7 DEF KeysPageInv, OneSecret
<1>11. ListsCurrent'
  BY <1>1, <1>2, <1>4, <1>5, <1>6, <1>7 DEF KeysPageInv, ListsCurrent
<1> QED
  BY <1>8, <1>9, <1>10, <1>11 DEF KeysPageInv

(* What a call becomes when the server has run it.                           *)
LEMMA CallDone ==
  ASSUME NEW c \in PageCalls
  PROVE  /\ [c EXCEPT !.stage = "done"] \in PageCalls
         /\ [c EXCEPT !.stage = "done"].key = c.key
         /\ [c EXCEPT !.stage = "done"].stage = "done"
BY DEF PageCalls

(* The server creates a key.                                                 *)
LEMMA ServerCreatesStep ==
  ASSUME KeysPageInv, NEW c \in creations, ServerCreates(c)
  PROVE  KeysPageInv'
<1> DEFINE b == [c EXCEPT !.stage = "done"]
<1>1. /\ serverKeys \in [PageKeys -> KeyStates] /\ creations \in SUBSET PageCalls
      /\ revokeDialog \in RevokeDialogs /\ revocations \in SUBSET PageCalls
      /\ c \in PageCalls
  BY DEF KeysPageInv, KeysShape
<1>2. b \in PageCalls /\ b.key = c.key /\ b.stage = "done"
  BY <1>1, CallDone
<1>3. /\ creations' = (creations \ {c}) \union {b} /\ c.stage = "sent"
      /\ serverKeys' = [serverKeys EXCEPT ![c.key] = "active"]
      /\ UNCHANGED << keyList, listing, createDialog, revokeDialog, revocations, dialogs, seen >>
  BY DEF ServerCreates
<1> HIDE DEF b
<1>4. c.key \in PageKeys /\ "active" \in KeyStates
  BY <1>1 DEF PageCalls, KeyStates
<1>5. /\ serverKeys' \in [PageKeys -> KeyStates] /\ serverKeys'[c.key] = "active"
      /\ \A k \in PageKeys : k # c.key => serverKeys'[k] = serverKeys[k]
  BY <1>1, <1>3, <1>4
<1>6. KeysShape'
  BY <1>1, <1>2, <1>3, <1>5 DEF KeysPageInv, KeysShape
<1>7. KeysExist'
  <2>1. \A k \in PageKeys :
          serverKeys'[k] = "none" => keyList'.rows[k] = "none" /\ listing'.rows[k] = "none"
    BY <1>3, <1>5 DEF KeysPageInv, KeysExist
  <2>2. \A k \in PageKeys : serverKeys[k] # "none" => serverKeys'[k] # "none"
    BY <1>5
  <2>3. revokeDialog.target # NoPageKey => serverKeys'[revokeDialog.target] # "none"
    BY <1>1, <2>2 DEF KeysPageInv, KeysExist, RevokeDialogs, SomeKey
  <2>4. \A d \in revocations : serverKeys'[d.key] # "none"
    BY <1>1, <2>2 DEF KeysPageInv, KeysExist, PageCalls
  <2>5. \A d \in creations' : d.stage = "sent" => serverKeys'[d.key] = "none"
    <3>1. ASSUME NEW d \in creations, d # c, d.stage = "sent"
          PROVE  serverKeys'[d.key] = "none"
      <4>1. d.key # c.key /\ serverKeys[d.key] = "none" /\ d.key \in PageKeys
        BY <1>1, <3>1 DEF KeysPageInv, KeysExist, PageCalls
      <4> QED
        BY <1>5, <4>1
    <3> QED
      BY <1>2, <1>3, <3>1
  <2>6. \A d, e \in creations' : d.key = e.key => d = e
    BY <1>2, <1>3 DEF KeysPageInv, KeysExist
  <2> QED
    BY <1>3, <2>1, <2>3, <2>4, <2>5, <2>6 DEF KeysExist
<1>8. OneSecret'
  <2>1. SUFFICES ASSUME seen.overtaken = FALSE
                 PROVE  /\ \A d, e \in creations' : d = e
                        /\ creations' # {} => createDialog.secret = NoPageKey
                        /\ \A k \in PageKeys :
                             serverKeys'[k] # "none" =>
                               \/ k \in seen.keys \/ k = createDialog.secret
                               \/ \E d \in creations' : d.key = k
    BY <1>3 DEF OneSecret
  <2>2. /\ \A d, e \in creations : d = e
        /\ createDialog.secret = NoPageKey
    BY <2>1 DEF KeysPageInv, OneSecret
  <2>3. creations' = {b}
    BY <1>3, <2>2
  <2>4. ASSUME NEW k \in PageKeys, serverKeys'[k] # "none", k # c.key
        PROVE  k \in seen.keys \/ k = createDialog.secret
    <3>1. serverKeys[k] # "none"
      BY <1>5, <2>4
    <3>2. k \in seen.keys \/ k = createDialog.secret \/ \E d \in creations : d.key = k
      BY <2>1, <3>1 DEF KeysPageInv, OneSecret
    <3> QED
      BY <2>2, <2>4, <3>2
  <2> QED
    BY <1>2, <2>2, <2>3, <2>4
<1>9. ListsCurrent'
  BY <1>2, <1>3 DEF ListsCurrent
<1> QED
  BY <1>6, <1>7, <1>8, <1>9 DEF KeysPageInv

(* The answer of a call comes, or it fails.                                  *)
LEMMA CreatedStep ==
  ASSUME KeysPageInv, NEW c \in creations, Created(c)
  PROVE  KeysPageInv'
<1>1. /\ createDialog \in CreateDialogs /\ creations \in SUBSET PageCalls
      /\ c \in PageCalls /\ c.key \in PageKeys
  BY DEF KeysPageInv, KeysShape, PageCalls
<1>2. /\ createDialog' = [createDialog EXCEPT !.secret = c.key]
      /\ creations' = creations \ {c}
      /\ UNCHANGED << serverKeys, keyList, listing, revokeDialog, revocations, dialogs, seen >>
  BY DEF Created
<1>3. createDialog' \in CreateDialogs /\ createDialog'.secret = c.key
  BY <1>1, <1>2 DEF CreateDialogs, SomeKey
<1>4. KeysShape'
  BY <1>1, <1>2, <1>3 DEF KeysPageInv, KeysShape
<1>5. KeysExist'
  BY <1>2 DEF KeysPageInv, KeysExist
<1>6. OneSecret'
  <2>1. SUFFICES ASSUME seen.overtaken = FALSE
                 PROVE  /\ creations' = {}
                        /\ \A k \in PageKeys :
                             serverKeys[k] # "none" => k \in seen.keys \/ k = c.key
    BY <1>2, <1>3 DEF OneSecret
  <2>2. /\ \A d, e \in creations : d = e
        /\ createDialog.secret = NoPageKey
        /\ \A k \in PageKeys :
             serverKeys[k] # "none" =>
               k \in seen.keys \/ k = createDialog.secret \/ \E d \in creations : d.key = k
    BY <2>1 DEF KeysPageInv, OneSecret
  <2> QED
    BY <1>2, <2>2, KeysPageAssumption
<1>7. ListsCurrent'
  BY <1>1, <1>3, KeysPageAssumption DEF ListsCurrent
<1> QED
  BY <1>4, <1>5, <1>6, <1>7 DEF KeysPageInv

(* The creation failed: the dialog says so, if it still waits for it.       *)
LEMMA CreateFailedStep ==
  ASSUME KeysPageInv, NEW c \in creations, CreateFailed(c)
  PROVE  KeysPageInv'
<1>1. /\ createDialog \in CreateDialogs /\ creations \in SUBSET PageCalls
      /\ c \in PageCalls /\ c.key \in PageKeys /\ c.stage \in {"sent", "done"}
      /\ seen \in KeyHistories
  BY DEF KeysPageInv, KeysShape, PageCalls
<1>2. /\ creations' = creations \ {c}
      /\ UNCHANGED << serverKeys, keyList, listing, revokeDialog, revocations, dialogs >>
  BY DEF CreateFailed
<1>3. createDialog' \in CreateDialogs /\ createDialog'.secret = createDialog.secret
  <2> DEFINE stays == createDialog.busy /\ c.id # createDialog.id
  <2>1. stays \in BOOLEAN
    OBVIOUS
  <2>2. createDialog' = [createDialog EXCEPT !.busy = stays]
    BY DEF CreateFailed
  <2> HIDE DEF stays
  <2>3. createDialog' \in CreateDialogs
    BY <1>1, <2>1, <2>2 DEF CreateDialogs
  <2>4. createDialog'.secret = createDialog.secret
    BY <1>1, <2>2 DEF CreateDialogs
  <2> QED
    BY <2>3, <2>4
<1>4. /\ seen' \in KeyHistories /\ seen'.overtaken = seen.overtaken
      /\ seen.keys \subseteq seen'.keys
      /\ c.stage = "done" => c.key \in seen'.keys
      /\ seen'.uncertain = FALSE => seen.uncertain = FALSE /\ c.stage = "sent"
  <2> DEFINE doubt == seen.uncertain \/ c.stage = "done"
             handed == IF c.stage = "done" THEN seen.keys \union {c.key} ELSE seen.keys
  <2>1. /\ doubt \in BOOLEAN
        /\ doubt = FALSE => seen.uncertain = FALSE /\ c.stage = "sent"
    BY <1>1 DEF KeyHistories
  <2>2. /\ handed \in SUBSET (PageKeys \union ListedFirst) /\ seen.keys \subseteq handed
        /\ c.stage = "done" => c.key \in handed
    BY <1>1 DEF KeyHistories
  <2>3. seen' = [seen EXCEPT !.uncertain = doubt, !.keys = handed]
    BY DEF CreateFailed
  <2> HIDE DEF doubt, handed
  <2>4. seen' \in KeyHistories
    BY <1>1, <2>1, <2>2, <2>3 DEF KeyHistories
  <2>5. seen'.overtaken = seen.overtaken /\ seen'.uncertain = doubt /\ seen'.keys = handed
    BY <1>1, <2>3 DEF KeyHistories
  <2> QED
    BY <2>1, <2>2, <2>4, <2>5
<1>5. KeysShape'
  BY <1>1, <1>2, <1>3, <1>4 DEF KeysPageInv, KeysShape
<1>6. KeysExist'
  BY <1>2 DEF KeysPageInv, KeysExist
<1>7. OneSecret'
  <2>1. SUFFICES ASSUME seen.overtaken = FALSE
                 PROVE  /\ creations' = {}
                        /\ \A k \in PageKeys : serverKeys[k] # "none" => k \in seen'.keys
    BY <1>2, <1>4 DEF OneSecret
  <2>2. /\ \A d, e \in creations : d = e
        /\ createDialog.secret = NoPageKey
        /\ \A k \in PageKeys :
             serverKeys[k] # "none" =>
               k \in seen.keys \/ k = createDialog.secret \/ \E d \in creations : d.key = k
    BY <2>1 DEF KeysPageInv, OneSecret
  <2>3. c.stage = "sent" => serverKeys[c.key] = "none"
    BY DEF KeysPageInv, KeysExist
  <2>4. creations' = {} /\ \A d \in creations : d.key = c.key
    BY <1>2, <2>2
  <2>5. ASSUME NEW k \in PageKeys, serverKeys[k] # "none"
        PROVE  k \in seen'.keys
    <3>1. k \in seen.keys \/ k = c.key
      BY <2>2, <2>4, <2>5, KeysPageAssumption
    <3>2. k = c.key => c.stage = "done"
      BY <1>1, <2>3, <2>5
    <3> QED
      BY <1>4, <3>1, <3>2
  <2> QED
    BY <2>4, <2>5
<1>8. ListsCurrent'
  BY <1>2, <1>3, <1>4 DEF KeysPageInv, ListsCurrent
<1> QED
  BY <1>5, <1>6, <1>7, <1>8 DEF KeysPageInv

(* The dialog that shows a secret is done.                                   *)
LEMMA DoneStep ==
  ASSUME KeysPageInv, Done
  PROVE  KeysPageInv'
<1>1. /\ createDialog \in CreateDialogs /\ seen \in KeyHistories
      /\ serverKeys \in [PageKeys -> KeyStates] /\ keyList \in KeyLists
  BY DEF KeysPageInv, KeysShape
<1>2. /\ createDialog.secret \in PageKeys /\ createDialog.secret # NoPageKey
      /\ seen' = [seen EXCEPT !.keys = @ \union {createDialog.secret}]
      /\ UNCHANGED << serverKeys, creations, revokeDialog, revocations, dialogs >>
  BY <1>1 DEF Done, MayClose, SecretShown, CreateDialogs, SomeKey
<1>3. createDialog' \in CreateDialogs /\ createDialog'.secret = NoPageKey
  <2>1. createDialog' = [createDialog EXCEPT !.open = FALSE, !.secret = NoPageKey]
    BY DEF Done
  <2>2. NoPageKey \in SomeKey /\ FALSE \in BOOLEAN
    BY DEF SomeKey
  <2> QED
    BY <1>1, <2>1, <2>2 DEF CreateDialogs
<1>4. /\ seen' \in KeyHistories /\ seen'.overtaken = seen.overtaken
      /\ seen'.keys = seen.keys \union {createDialog.secret}
  <2> DEFINE handed == seen.keys \union {createDialog.secret}
  <2>1. handed \in SUBSET (PageKeys \union ListedFirst)
    BY <1>1, <1>2 DEF KeyHistories
  <2>2. seen' = [seen EXCEPT !.keys = handed]
    BY <1>2
  <2> HIDE DEF handed
  <2>3. seen' \in KeyHistories
    BY <1>1, <2>1, <2>2 DEF KeyHistories
  <2>4. seen'.overtaken = seen.overtaken /\ seen'.keys = handed
    BY <1>1, <2>2 DEF KeyHistories
  <2> QED
    BY <2>3, <2>4 DEF handed
<1>5. /\ keyList' \in KeyLists /\ keyList'.status = "loading" /\ keyList'.rows = keyList.rows
      /\ listing' \in KeyListings /\ listing'.stage = "sent" /\ listing'.rows = serverKeys
  BY <1>1 DEF Done, Refreshed, KeyLists, KeyListings
<1>6. KeysShape'
  BY <1>1, <1>2, <1>3, <1>4, <1>5 DEF KeysPageInv, KeysShape
<1>7. KeysExist'
  BY <1>2, <1>5 DEF KeysPageInv, KeysExist
<1>8. OneSecret'
  BY <1>2, <1>3, <1>4 DEF KeysPageInv, OneSecret
<1>9. ListsCurrent'
  BY <1>5 DEF ListsCurrent
<1> QED
  BY <1>6, <1>7, <1>8, <1>9 DEF KeysPageInv

(* A key is chosen to be revoked, the choice confirmed or dropped.           *)
LEMMA ChoiceStep ==
  ASSUME KeysPageInv, (\E k \in PageKeys : ChooseRevoke(k)) \/ ConfirmRevoke \/ CancelRevoke
  PROVE  KeysPageInv'
<1>1. /\ revokeDialog \in RevokeDialogs /\ dialogs \in 0..MaxDialogs
      /\ revocations \in SUBSET PageCalls /\ keyList \in KeyLists
      /\ revokeDialog.target # NoPageKey => serverKeys[revokeDialog.target] # "none"
  BY DEF KeysPageInv, KeysShape, KeysExist
<1>2. UNCHANGED << serverKeys, keyList, listing, createDialog, creations, seen >>
  BY DEF ChooseRevoke, ConfirmRevoke, CancelRevoke
<1>3. SUFFICES /\ revokeDialog' \in RevokeDialogs /\ dialogs' \in 0..MaxDialogs
               /\ revocations' \in SUBSET PageCalls /\ revocations \subseteq revocations'
               /\ \A c \in revocations' \ revocations : serverKeys[c.key] # "none"
               /\ revokeDialog'.target # NoPageKey =>
                    serverKeys[revokeDialog'.target] # "none"
  <2>1. KeysShape'
    BY <1>2, <1>3 DEF KeysPageInv, KeysShape
  <2>2. KeysExist'
    BY <1>2, <1>3 DEF KeysPageInv, KeysExist
  <2>3. OneSecret'
    BY <1>2 DEF KeysPageInv, OneSecret
  <2>4. ListsCurrent'
    BY <1>2, <1>3 DEF KeysPageInv, ListsCurrent
  <2> QED
    BY <2>1, <2>2, <2>3, <2>4 DEF KeysPageInv
<1>4. ASSUME NEW k \in PageKeys, ChooseRevoke(k)
      PROVE  /\ revokeDialog' \in RevokeDialogs /\ dialogs' \in 0..MaxDialogs
             /\ revocations' = revocations /\ serverKeys[revokeDialog'.target] # "none"
  <2>1. dialogs' = dialogs + 1 /\ dialogs < MaxDialogs /\ keyList.rows[k] = "active"
        /\ revocations' = revocations
    BY <1>4 DEF ChooseRevoke, OpenDialog
  <2>2. dialogs' \in 0..MaxDialogs /\ dialogs' \in Nat
    BY <1>1, <2>1, KeysPageAssumption
  <2>3. revokeDialog' = [target |-> k, busy |-> FALSE, id |-> dialogs']
    BY <1>4 DEF ChooseRevoke
  <2>4. revokeDialog' \in RevokeDialogs /\ revokeDialog'.target = k
    BY <2>2, <2>3 DEF RevokeDialogs, SomeKey
  <2>5. serverKeys[k] # "none"
    BY <2>1 DEF KeysPageInv, KeysExist
  <2> QED
    BY <2>1, <2>2, <2>4, <2>5
<1>5. CASE ConfirmRevoke
  <2> DEFINE call == [key |-> revokeDialog.target, id |-> revokeDialog.id, stage |-> "sent"]
  <2>1. /\ revokeDialog.target # NoPageKey /\ dialogs' = dialogs
        /\ revokeDialog' = [revokeDialog EXCEPT !.busy = TRUE]
        /\ revocations' = revocations \union {call}
    BY <1>5 DEF ConfirmRevoke
  <2>2. call \in PageCalls /\ call.key = revokeDialog.target
    BY <1>1, <2>1 DEF RevokeDialogs, SomeKey, PageCalls
  <2> HIDE DEF call
  <2>3. revokeDialog' \in RevokeDialogs /\ revokeDialog'.target = revokeDialog.target
    BY <1>1, <2>1 DEF RevokeDialogs
  <2> QED
    BY <1>1, <2>1, <2>2, <2>3
<1>6. CASE CancelRevoke
  <2>1. revokeDialog' = NoTarget /\ dialogs' = dialogs /\ revocations' = revocations
    BY <1>6 DEF CancelRevoke
  <2>2. NoTarget \in RevokeDialogs /\ NoTarget.target = NoPageKey
    BY DEF NoTarget, RevokeDialogs, SomeKey
  <2> QED
    BY <1>1, <2>1, <2>2
<1> QED
  BY <1>1, <1>4, <1>5, <1>6

(* The server revokes a key.                                                 *)
LEMMA ServerRevokesStep ==
  ASSUME KeysPageInv, NEW c \in revocations, ServerRevokes(c)
  PROVE  KeysPageInv'
<1> DEFINE b == [c EXCEPT !.stage = "done"]
<1>1. /\ serverKeys \in [PageKeys -> KeyStates] /\ creations \in SUBSET PageCalls
      /\ revokeDialog \in RevokeDialogs /\ revocations \in SUBSET PageCalls
      /\ c \in PageCalls /\ c.key \in PageKeys /\ serverKeys[c.key] # "none"
  BY DEF KeysPageInv, KeysShape, KeysExist, PageCalls
<1>2. b \in PageCalls /\ b.key = c.key /\ b.stage = "done"
  BY <1>1, CallDone
<1>3. /\ revocations' = (revocations \ {c}) \union {b}
      /\ serverKeys' = [serverKeys EXCEPT ![c.key] = "revoked"]
      /\ UNCHANGED << keyList, listing, createDialog, creations, revokeDialog, dialogs, seen >>
  BY DEF ServerRevokes
<1> HIDE DEF b
<1>4. /\ serverKeys' \in [PageKeys -> KeyStates]
      /\ \A k \in PageKeys : (serverKeys'[k] = "none" <=> serverKeys[k] = "none")
  <2>1. "revoked" \in KeyStates
    BY DEF KeyStates
  <2> QED
    BY <1>1, <1>3, <2>1
<1>5. KeysShape'
  BY <1>1, <1>2, <1>3, <1>4 DEF KeysPageInv, KeysShape
<1>6. KeysExist'
  <2>1. \A k \in PageKeys :
          serverKeys'[k] = "none" => keyList'.rows[k] = "none" /\ listing'.rows[k] = "none"
    BY <1>3, <1>4 DEF KeysPageInv, KeysExist
  <2>2. revokeDialog.target # NoPageKey => serverKeys'[revokeDialog.target] # "none"
    BY <1>1, <1>4 DEF KeysPageInv, KeysExist, RevokeDialogs, SomeKey
  <2>3. \A d \in revocations' : serverKeys'[d.key] # "none"
    <3>1. ASSUME NEW d \in revocations
          PROVE  serverKeys'[d.key] # "none"
      <4>1. d.key \in PageKeys /\ serverKeys[d.key] # "none"
        BY <1>1 DEF KeysPageInv, KeysExist, PageCalls
      <4> QED
        BY <1>4, <4>1
    <3> QED
      BY <1>1, <1>2, <1>3, <1>4, <3>1
  <2>4. \A d \in creations : d.stage = "sent" => serverKeys'[d.key] = "none"
    <3>1. SUFFICES ASSUME NEW d \in creations, d.stage = "sent"
                   PROVE  serverKeys'[d.key] = "none"
      OBVIOUS
    <3>2. d.key \in PageKeys /\ serverKeys[d.key] = "none"
      BY <1>1, <3>1 DEF KeysPageInv, KeysExist, PageCalls
    <3> QED
      BY <1>4, <3>2
  <2> QED
    BY <1>3, <2>1, <2>2, <2>3, <2>4 DEF KeysPageInv, KeysExist
<1>7. OneSecret'
  BY <1>3, <1>4 DEF KeysPageInv, OneSecret
<1>8. ListsCurrent'
  BY <1>2, <1>3 DEF ListsCurrent
<1> QED
  BY <1>5, <1>6, <1>7, <1>8 DEF KeysPageInv

(* The answer of a revocation comes, or it fails.                            *)
LEMMA RevokeEnds ==
  ASSUME KeysPageInv, NEW c \in revocations, RevokeAnswered(c) \/ RevokeFailed(c)
  PROVE  KeysPageInv'
<1>1. /\ revokeDialog \in RevokeDialogs /\ revocations \in SUBSET PageCalls
      /\ c \in PageCalls /\ c.stage \in {"sent", "done"} /\ seen \in KeyHistories
      /\ serverKeys \in [PageKeys -> KeyStates] /\ keyList \in KeyLists
  BY DEF KeysPageInv, KeysShape, PageCalls
<1>2. /\ revocations' = revocations \ {c}
      /\ UNCHANGED << serverKeys, createDialog, creations, dialogs >>
  BY DEF RevokeAnswered, RevokeFailed
<1>3. CASE RevokeAnswered(c)
  <2>1. revokeDialog' = NoTarget /\ seen' = seen
    BY <1>3 DEF RevokeAnswered
  <2>2. NoTarget \in RevokeDialogs /\ NoTarget.target = NoPageKey
    BY DEF NoTarget, RevokeDialogs, SomeKey
  <2>3. /\ keyList' \in KeyLists /\ keyList'.status = "loading"
        /\ keyList'.rows = keyList.rows
        /\ listing' \in KeyListings /\ listing'.stage = "sent" /\ listing'.rows = serverKeys
    BY <1>1, <1>3 DEF RevokeAnswered, Refreshed, KeyLists, KeyListings
  <2>4. KeysShape'
    BY <1>1, <1>2, <2>1, <2>2, <2>3 DEF KeysPageInv, KeysShape
  <2>5. KeysExist'
    BY <1>2, <2>1, <2>2, <2>3 DEF KeysPageInv, KeysExist
  <2>6. OneSecret'
    BY <1>2, <2>1 DEF KeysPageInv, OneSecret
  <2>7. ListsCurrent'
    BY <2>3 DEF ListsCurrent
  <2> QED
    BY <2>4, <2>5, <2>6, <2>7 DEF KeysPageInv
<1>4. CASE RevokeFailed(c)
  <2>1. UNCHANGED << keyList, listing >>
    BY <1>4 DEF RevokeFailed
  <2>2. revokeDialog' \in RevokeDialogs /\ revokeDialog'.target = revokeDialog.target
    <3> DEFINE stays == revokeDialog.busy /\ c.id # revokeDialog.id
    <3>1. stays \in BOOLEAN
      OBVIOUS
    <3>2. revokeDialog' = [revokeDialog EXCEPT !.busy = stays]
      BY <1>4 DEF RevokeFailed
    <3> HIDE DEF stays
    <3> QED
      BY <1>1, <3>1, <3>2 DEF RevokeDialogs
  <2>3. /\ seen' \in KeyHistories /\ seen'.overtaken = seen.overtaken
        /\ seen'.keys = seen.keys
        /\ seen'.uncertain = FALSE => seen.uncertain = FALSE /\ c.stage = "sent"
    <3> DEFINE doubt == seen.uncertain \/ c.stage = "done"
    <3>1. /\ doubt \in BOOLEAN
          /\ doubt = FALSE => seen.uncertain = FALSE /\ c.stage = "sent"
      BY <1>1 DEF KeyHistories
    <3>2. seen' = [seen EXCEPT !.uncertain = doubt]
      BY <1>4 DEF RevokeFailed
    <3> HIDE DEF doubt
    <3>3. seen' \in KeyHistories
      BY <1>1, <3>1, <3>2 DEF KeyHistories
    <3>4. /\ seen'.overtaken = seen.overtaken /\ seen'.uncertain = doubt
          /\ seen'.keys = seen.keys
      BY <1>1, <3>2 DEF KeyHistories
    <3> QED
      BY <3>1, <3>3, <3>4
  <2>4. KeysShape'
    BY <1>1, <1>2, <2>1, <2>2, <2>3 DEF KeysPageInv, KeysShape
  <2>5. KeysExist'
    BY <1>2, <2>1, <2>2 DEF KeysPageInv, KeysExist
  <2>6. OneSecret'
    BY <1>2, <2>3 DEF KeysPageInv, OneSecret
  <2>7. ListsCurrent'
    BY <1>2, <2>1, <2>3 DEF KeysPageInv, ListsCurrent
  <2> QED
    BY <2>4, <2>5, <2>6, <2>7 DEF KeysPageInv
<1> QED
  BY <1>3, <1>4

(* Every step of the page keeps the invariant.                               *)
LEMMA KeysPageStep == KeysPageInv /\ [KeysPageNext]_keysPageVars => KeysPageInv'
<1> SUFFICES ASSUME KeysPageInv, [KeysPageNext]_keysPageVars
             PROVE  KeysPageInv'
  OBVIOUS
<1>1. CASE ListRead \/ Retry \/ \E ok \in BOOLEAN : ListAnswered(ok)
  BY <1>1, ListStep
<1>2. CASE NewKey \/ CancelCreate \/ Acknowledge
  BY <1>2, DialogStep
<1>3. CASE SubmitKey
  BY <1>3, SubmitStep
<1>4. CASE Done
  BY <1>4, DoneStep
<1>5. ASSUME NEW c \in creations, ServerCreates(c) \/ Created(c) \/ CreateFailed(c)
      PROVE  KeysPageInv'
  BY <1>5, ServerCreatesStep, CreatedStep, CreateFailedStep
<1>6. CASE (\E k \in PageKeys : ChooseRevoke(k)) \/ ConfirmRevoke \/ CancelRevoke
  BY <1>6, ChoiceStep
<1>7. ASSUME NEW c \in revocations, ServerRevokes(c) \/ RevokeAnswered(c) \/ RevokeFailed(c)
      PROVE  KeysPageInv'
  BY <1>7, ServerRevokesStep, RevokeEnds
<1>8. CASE UNCHANGED keysPageVars
  BY <1>8 DEF keysPageVars, KeysPageInv, KeysShape, KeysExist, OneSecret, ListsCurrent
<1> QED
  BY <1>1, <1>2, <1>3, <1>4, <1>5, <1>6, <1>7, <1>8 DEF KeysPageNext

(* What the invariant says of the list, the secrets and the state.           *)
LEMMA KeysPageHolds ==
  KeysPageInv => KeyListIsCurrent /\ SecretsAreHandedOver /\ KeysPageTypeOK
<1> SUFFICES ASSUME KeysPageInv
             PROVE  KeyListIsCurrent /\ SecretsAreHandedOver /\ KeysPageTypeOK
  OBVIOUS
<1>1. /\ seen.overtaken \in BOOLEAN /\ seen.uncertain \in BOOLEAN
  BY DEF KeysPageInv, KeysShape, KeyHistories
<1>2. KeyListIsCurrent
  BY <1>1 DEF KeysPageInv, ListsCurrent, KeyListIsCurrent
<1>3. SecretsAreHandedOver
  <2>1. CASE seen.overtaken = TRUE
    BY <2>1 DEF SecretsAreHandedOver
  <2>2. CASE seen.overtaken = FALSE
    <3>1. ASSUME NEW k \in PageKeys, serverKeys[k] # "none"
          PROVE  \/ k \in seen.keys \/ k = createDialog.secret
                 \/ k \in {c.key : c \in creations}
      BY <2>2, <3>1 DEF KeysPageInv, OneSecret
    <3> QED
      BY <3>1 DEF SecretsAreHandedOver
  <2> QED
    BY <1>1, <2>1, <2>2
<1>4. /\ serverKeys \in [PageKeys -> {"none", "active", "revoked"}]
      /\ keyList.status \in {"loading", "ready", "error"}
      /\ listing.stage \in {"idle", "sent", "read"}
      /\ createDialog.secret \in PageKeys \union {NoPageKey}
      /\ revokeDialog.target \in PageKeys \union {NoPageKey}
      /\ dialogs \in 0..MaxDialogs
  BY DEF KeysPageInv, KeysShape, KeyStates, KeyLists, KeyListings, CreateDialogs,
         RevokeDialogs, SomeKey
<1>5. (keyList.status = "loading") = (listing.stage # "idle")
  BY DEF KeysPageInv, KeysShape
<1> QED
  BY <1>2, <1>3, <1>4, <1>5 DEF KeysPageTypeOK

-----------------------------------------------------------------------------
(* The development trigger.                                                 *)

FireSteps == {"none", "arm", "list", "create", "complete", "sent", "error"}
FireStates == [scenario : Scenarios \union {NoScenario}, step : FireSteps, fell : BOOLEAN]
TriggerStates ==
  [scenario : Scenarios \union {NoScenario}, status : {"idle", "sending", "sent", "error"}]

Begun(f) == fires[f].step # "none"

(* The fires that may have created a rule.                                   *)
Passed == {f \in FireIds : fires[f].step \in {"complete", "sent", "error"}}

TriggerShape ==
  /\ fires \in [FireIds -> FireStates] /\ trigger \in TriggerStates
  /\ resets \subseteq {f \in FireIds : fires[f].step = "sent"}
  /\ armed \subseteq ArmedMocks /\ ensured \in Nat
  /\ stale \in BOOLEAN /\ misses \in Nat /\ unlisted \in Nat

FiresBegin ==
  \A f \in FireIds :
    /\ fires[f].step = "none" => fires[f] = NoFire
    /\ Begun(f) => \A g \in FireIds : g < f => Begun(g)
    /\ fires[f].step = "arm" => fires[f].scenario = "fallback"
    /\ fires[f].step \in {"list", "create"} => fires[f].scenario = "operator_rule"

OneFire ==
  stale = FALSE =>
    /\ \A f \in FireIds : UnderWay(f) =>
         /\ \A g \in FireIds : Begun(g) => g <= f
         /\ trigger.scenario = fires[f].scenario
    /\ trigger.status = "sending" <=> \E f \in FireIds : UnderWay(f)
    /\ trigger.status \in {"sent", "error"} =>
         \E f \in FireIds :
           /\ Begun(f) /\ \A g \in FireIds : Begun(g) => g <= f
           /\ trigger.scenario = fires[f].scenario /\ trigger.status = fires[f].step

RulesOnce ==
  /\ ensured <= Cardinality(Passed)
  /\ stale = FALSE =>
       /\ ensured <= 1 + unlisted
       /\ \A f \in FireIds : fires[f].step = "create" => ensured <= unlisted

FallsAsAsked ==
  /\ "mock-cheap" \in armed =>
       \E f \in FireIds :
         fires[f].scenario = "fallback" /\ fires[f].step \in {"complete", "error"}
  /\ stale = FALSE /\ misses = 0 =>
       /\ "mock-cheap" \in armed <=>
            \E f \in FireIds : fires[f].scenario = "fallback" /\ fires[f].step = "complete"
       /\ \A f \in FireIds : fires[f].step = "sent" =>
            (fires[f].fell = TRUE <=> fires[f].scenario = "fallback")

TriggerInv == TriggerShape /\ FiresBegin /\ OneFire /\ RulesOnce /\ FallsAsAsked

(* The fires that passed are finitely many.                                  *)
LEMMA PassedFinite ==
  IsFiniteSet(Passed) /\ Cardinality(Passed) \in Nat /\ Cardinality(Passed) <= MaxFires
<1>1. IsFiniteSet(FireIds) /\ Cardinality(FireIds) <= MaxFires
  BY TriggerAssumption, FS_Interval DEF FireIds
<1>2. Passed \in SUBSET FireIds
  BY DEF Passed
<1>3. IsFiniteSet(Passed) /\ Cardinality(Passed) <= Cardinality(FireIds)
  BY <1>1, <1>2, FS_Subset
<1>4. Cardinality(Passed) \in Nat /\ Cardinality(FireIds) \in Nat
  BY <1>1, <1>3, FS_CardinalityType
<1> QED
  BY <1>1, <1>3, <1>4, TriggerAssumption

(* No failure has been fired yet.                                           *)
LEMMA TriggerInitHolds == TriggerInit => TriggerInv
<1> SUFFICES ASSUME TriggerInit
             PROVE  TriggerInv
  OBVIOUS
<1>1. /\ NoFire \in FireStates /\ NoFire.step = "none"
  BY DEF NoFire, FireStates, FireSteps
<1>2. /\ fires = [f \in FireIds |-> NoFire] /\ resets = {} /\ armed = {} /\ ensured = 0
      /\ stale = FALSE /\ misses = 0 /\ unlisted = 0
  BY DEF TriggerInit
<1>3. trigger \in TriggerStates /\ trigger.status = "idle"
  BY DEF TriggerInit, TriggerStates
<1>4. TriggerShape
  BY <1>1, <1>2, <1>3 DEF TriggerShape
<1>5. FiresBegin
  BY <1>1, <1>2 DEF FiresBegin, Begun
<1>6. OneFire
  BY <1>1, <1>2, <1>3 DEF OneFire, Begun, UnderWay
<1>7. RulesOnce
  BY <1>1, <1>2, PassedFinite DEF RulesOnce
<1>8. FallsAsAsked
  BY <1>1, <1>2 DEF FallsAsAsked
<1> QED
  BY <1>4, <1>5, <1>6, <1>7, <1>8 DEF TriggerInv

(* A fire takes a step and the others rest.                                  *)
Stepped(f, step) ==
  /\ fires' \in [FireIds -> FireStates]
  /\ fires'[f].step = step /\ fires'[f].scenario = fires[f].scenario
  /\ \A g \in FireIds : g # f => fires'[g] = fires[g]

(* A fire that takes its next step keeps what else is known of it.          *)
LEMMA ToStepped ==
  ASSUME TriggerShape, NEW f \in FireIds, NEW step \in FireSteps, To(f, step)
  PROVE  Stepped(f, step) /\ fires'[f].fell = fires[f].fell
<1>1. fires \in [FireIds -> FireStates] /\ fires[f] \in FireStates
  BY DEF TriggerShape
<1> DEFINE next == [fires[f] EXCEPT !.step = step]
<1>2. next \in FireStates
  BY <1>1 DEF FireStates
<1>3. next.step = step /\ next.scenario = fires[f].scenario /\ next.fell = fires[f].fell
  BY <1>1 DEF FireStates
<1>4. fires' = [fires EXCEPT ![f] = next]
  BY DEF To
<1> HIDE DEF next
<1>5. fires' \in [FireIds -> FireStates] /\ fires'[f] = next
      /\ \A g \in FireIds : g # f => fires'[g] = fires[g]
  BY <1>1, <1>2, <1>4
<1> QED
  BY <1>3, <1>5 DEF Stepped

(* A fire that goes on keeps its place.                                      *)
LEMMA FireGoesOn ==
  ASSUME TriggerInv, NEW f \in FireIds, NEW step \in {"create", "complete"},
         UnderWay(f), Stepped(f, step),
         step = "create" => fires[f].scenario = "operator_rule",
         trigger' = trigger, stale' = stale, resets' = resets
  PROVE  /\ FiresBegin' /\ OneFire'
         /\ resets' \subseteq {g \in FireIds : fires'[g].step = "sent"}
<1>1. /\ \A g \in FireIds : g # f => fires'[g] = fires[g]
      /\ fires'[f].step = step /\ fires'[f].scenario = fires[f].scenario
  BY DEF Stepped
<1>2. \A g \in FireIds : (Begun(g)' <=> Begun(g)) /\ (UnderWay(g)' <=> UnderWay(g))
                         /\ fires'[g].scenario = fires[g].scenario
  BY <1>1 DEF Begun, UnderWay
<1>3. FiresBegin'
  <2>1. SUFFICES ASSUME NEW g \in FireIds
                 PROVE  /\ fires'[g].step = "none" => fires'[g] = NoFire
                        /\ Begun(g)' => \A h \in FireIds : h < g => Begun(h)'
                        /\ fires'[g].step = "arm" => fires'[g].scenario = "fallback"
                        /\ fires'[g].step \in {"list", "create"} =>
                             fires'[g].scenario = "operator_rule"
    BY DEF FiresBegin
  <2>2. Begun(g)' => \A h \in FireIds : h < g => Begun(h)'
    BY <1>2 DEF TriggerInv, FiresBegin
  <2>3. CASE g = f
    BY <1>1, <2>2, <2>3
  <2>4. CASE g # f
    BY <1>1, <2>2, <2>4 DEF TriggerInv, FiresBegin
  <2> QED
    BY <2>3, <2>4
<1>4. OneFire'
  <2>1. SUFFICES ASSUME stale = FALSE
                 PROVE  OneFire'
    BY DEF OneFire
  <2>2. trigger.status = "sending"
    BY <2>1 DEF TriggerInv, OneFire
  <2> QED
    BY <1>2, <2>1, <2>2 DEF TriggerInv, OneFire
<1>5. resets' \subseteq {g \in FireIds : fires'[g].step = "sent"}
  <2>1. fires[f].step # "sent"
    BY DEF UnderWay
  <2> QED
    BY <1>1, <2>1 DEF TriggerInv, TriggerShape
<1> QED
  BY <1>3, <1>4, <1>5

(* A fire that ends is what the trigger tells.                               *)
LEMMA FireEnds ==
  ASSUME TriggerInv, NEW f \in FireIds, NEW step \in {"sent", "error"},
         UnderWay(f), Stepped(f, step),
         trigger' = [trigger EXCEPT !.status = step], stale' = stale,
         resets' \subseteq resets \union {f}, step = "error" => resets' = resets
  PROVE  /\ FiresBegin' /\ OneFire' /\ trigger' \in TriggerStates
         /\ resets' \subseteq {g \in FireIds : fires'[g].step = "sent"}
<1>1. /\ \A g \in FireIds : g # f => fires'[g] = fires[g]
      /\ fires'[f].step = step /\ fires'[f].scenario = fires[f].scenario
  BY DEF Stepped
<1>2. \A g \in FireIds : (Begun(g)' <=> Begun(g)) /\ (UnderWay(g)' <=> UnderWay(g) /\ g # f)
                         /\ fires'[g].scenario = fires[g].scenario
  BY <1>1 DEF Begun, UnderWay
<1>0. /\ trigger' \in TriggerStates /\ trigger'.status = step
      /\ trigger'.scenario = trigger.scenario
  BY DEF TriggerInv, TriggerShape, TriggerStates
<1>3. FiresBegin'
  <2>1. SUFFICES ASSUME NEW g \in FireIds
                 PROVE  /\ fires'[g].step = "none" => fires'[g] = NoFire
                        /\ Begun(g)' => \A h \in FireIds : h < g => Begun(h)'
                        /\ fires'[g].step = "arm" => fires'[g].scenario = "fallback"
                        /\ fires'[g].step \in {"list", "create"} =>
                             fires'[g].scenario = "operator_rule"
    BY DEF FiresBegin
  <2>2. Begun(g)' => \A h \in FireIds : h < g => Begun(h)'
    BY <1>2 DEF TriggerInv, FiresBegin
  <2>3. CASE g = f
    BY <1>1, <2>2, <2>3
  <2>4. CASE g # f
    BY <1>1, <2>2, <2>4 DEF TriggerInv, FiresBegin
  <2> QED
    BY <2>3, <2>4
<1>4. OneFire'
  <2>1. SUFFICES ASSUME stale = FALSE
                 PROVE  OneFire'
    BY DEF OneFire
  <2>2. /\ \A g \in FireIds : Begun(g) => g <= f
        /\ trigger.scenario = fires[f].scenario
        /\ \A g \in FireIds : UnderWay(g) => f <= g
    <3>1. Begun(f)
      BY DEF Begun, UnderWay
    <3> QED
      BY <2>1, <3>1 DEF TriggerInv, OneFire
  <2>3. \A g \in FireIds : ~UnderWay(g)'
    <3>1. \A g \in FireIds : UnderWay(g) => Begun(g)
      BY DEF Begun, UnderWay
    <3>2. \A g \in FireIds : UnderWay(g) => g = f
      BY <2>2, <3>1 DEF FireIds
    <3> QED
      BY <1>2, <3>2
  <2>4. Begun(f)' /\ \A g \in FireIds : Begun(g)' => g <= f
    BY <1>2, <2>2 DEF Begun, UnderWay
  <2>5. trigger'.scenario = fires'[f].scenario /\ trigger'.status = fires'[f].step
    BY <1>0, <1>1, <2>2
  <2>6. trigger'.status # "sending"
    BY <1>0
  <2> QED
    BY <2>3, <2>4, <2>5, <2>6 DEF OneFire
<1>5. resets' \subseteq {g \in FireIds : fires'[g].step = "sent"}
  <2>1. fires[f].step # "sent"
    BY DEF UnderWay
  <2> QED
    BY <1>1, <2>1 DEF TriggerInv, TriggerShape
<1> QED
  BY <1>0, <1>3, <1>4, <1>5

(* The fires that passed grow.                                               *)
LEMMA PassedGrows ==
  ASSUME NEW f \in FireIds, NEW step, Stepped(f, step),
         fires[f].step \in {"complete", "sent", "error"} =>
           step \in {"complete", "sent", "error"}
  PROVE  /\ Cardinality(Passed) <= Cardinality(Passed')
         /\ fires[f].step = "create" /\ step \in {"complete", "sent", "error"} =>
              Cardinality(Passed) + 1 <= Cardinality(Passed')
<1>1. Passed \subseteq Passed'
  BY DEF Passed, Stepped
<1>2. /\ IsFiniteSet(Passed) /\ Cardinality(Passed) \in Nat
      /\ IsFiniteSet(Passed') /\ Cardinality(Passed') \in Nat
  <2>1. IsFiniteSet(Passed) /\ Cardinality(Passed) \in Nat
    BY PassedFinite
  <2>2. (IsFiniteSet(Passed) /\ Cardinality(Passed) \in Nat)'
    BY PassedFinite, PTL
  <2> QED
    BY <2>1, <2>2
<1>3. Cardinality(Passed) <= Cardinality(Passed')
  BY <1>1, <1>2, FS_Subset
<1>4. ASSUME fires[f].step = "create", step \in {"complete", "sent", "error"}
      PROVE  Cardinality(Passed) + 1 <= Cardinality(Passed')
  <2>1. f \notin Passed /\ f \in Passed'
    BY <1>4 DEF Passed, Stepped
  <2>2. Passed \union {f} \in SUBSET Passed'
    BY <1>1, <2>1
  <2>3. Cardinality(Passed \union {f}) = Cardinality(Passed) + 1
    BY <1>2, <2>1, FS_AddElement
  <2>4. Cardinality(Passed \union {f}) <= Cardinality(Passed')
    BY <1>2, <2>2, FS_Subset
  <2> QED
    BY <2>3, <2>4
<1> QED
  BY <1>3, <1>4

(* Until a timer has cleared what is not its own, one fire is under way.     *)
LEMMA OnlyOne ==
  ASSUME TriggerInv, stale = FALSE, NEW f \in FireIds, UnderWay(f)
  PROVE  \A g \in FireIds : UnderWay(g) => g = f
<1>1. \A g \in FireIds : UnderWay(g) => g <= f /\ f <= g
  BY DEF TriggerInv, OneFire, Begun, UnderWay
<1> QED
  BY <1>1 DEF FireIds

(* No rule is created by a fire that goes on otherwise or ends.              *)
LEMMA RulesKept ==
  ASSUME TriggerInv, NEW f \in FireIds, NEW step \in {"complete", "sent", "error"},
         Stepped(f, step), ensured' = ensured, stale' = stale, unlisted' = unlisted
  PROVE  RulesOnce'
<1>1. Cardinality(Passed) <= Cardinality(Passed')
  BY PassedGrows
<1>2. ensured <= Cardinality(Passed')
  <2>1. Cardinality(Passed) \in Nat
    BY PassedFinite
  <2>2. (Cardinality(Passed) \in Nat)'
    BY PassedFinite, PTL
  <2> QED
    BY <1>1, <2>1, <2>2 DEF TriggerInv, TriggerShape, RulesOnce
<1>3. \A g \in FireIds : fires'[g].step = "create" => fires[g].step = "create"
  BY DEF Stepped
<1> QED
  BY <1>2, <1>3 DEF TriggerInv, RulesOnce

(* A rule is created by a fire that found none.                              *)
LEMMA CreatedOnce ==
  ASSUME TriggerInv, NEW f \in FireIds, NEW step \in {"complete", "sent", "error"},
         fires[f].step = "create", Stepped(f, step),
         ensured' = ensured + 1, stale' = stale, unlisted' = unlisted
  PROVE  RulesOnce'
<1>1. Cardinality(Passed) + 1 <= Cardinality(Passed')
  BY PassedGrows
<1>2. ensured' <= Cardinality(Passed') /\ ensured \in Nat /\ unlisted \in Nat
  <2>1. Cardinality(Passed) \in Nat
    BY PassedFinite
  <2>2. (Cardinality(Passed) \in Nat)'
    BY PassedFinite, PTL
  <2> QED
    BY <1>1, <2>1, <2>2 DEF TriggerInv, TriggerShape, RulesOnce
<1>3. ASSUME stale = FALSE
      PROVE  /\ ensured' <= 1 + unlisted
             /\ \A g \in FireIds : fires'[g].step # "create"
  <2>1. ensured <= unlisted
    BY <1>3 DEF TriggerInv, RulesOnce
  <2>2. UnderWay(f)
    BY DEF UnderWay
  <2>3. \A g \in FireIds : UnderWay(g) => g = f
    BY <1>3, <2>2, OnlyOne
  <2>4. \A g \in FireIds : fires'[g].step # "create"
    BY <2>3 DEF Stepped, UnderWay
  <2> QED
    BY <1>2, <2>1, <2>4
<1> QED
  BY <1>2, <1>3 DEF RulesOnce

(* A button is clicked.                                                      *)
LEMMA FireStep ==
  ASSUME TriggerInv, NEW scenario \in Scenarios, Fire(scenario)
  PROVE  TriggerInv'
<1> DEFINE begins == [scenario |-> scenario, step |-> FirstStep(scenario), fell |-> FALSE]
<1>1. PICK f \in FireIds :
        /\ fires[f] = NoFire /\ \A g \in FireIds : g < f => fires[g] # NoFire
        /\ fires' = [fires EXCEPT ![f] = begins]
  BY DEF Fire
<1>2. /\ trigger.status # "sending"
      /\ trigger' = [scenario |-> scenario, status |-> "sending"]
      /\ UNCHANGED << resets, armed, ensured, stale, misses, unlisted >>
  BY DEF Fire
<1>3. /\ begins.step = FirstStep(scenario) /\ begins.scenario = scenario
      /\ begins.step \in {"arm", "list", "complete"}
      /\ begins.step = "arm" => scenario = "fallback"
      /\ begins.step = "list" => scenario = "operator_rule"
      /\ begins.step = "complete" => scenario = "normal"
      /\ begins \in FireStates
  BY DEF FirstStep, Scenarios, FireStates, FireSteps
<1> HIDE DEF begins
<1>4. /\ fires \in [FireIds -> FireStates] /\ fires[f].step = "none"
  BY <1>1 DEF TriggerInv, TriggerShape, NoFire
<1>5. /\ fires' \in [FireIds -> FireStates] /\ fires'[f] = begins
      /\ \A g \in FireIds : g # f => fires'[g] = fires[g]
  BY <1>1, <1>3, <1>4
<1>6. trigger' \in TriggerStates /\ trigger'.status = "sending" /\ trigger'.scenario = scenario
  BY <1>2 DEF TriggerStates
<1>7. TriggerShape'
  BY <1>2, <1>4, <1>5, <1>6 DEF TriggerInv, TriggerShape
<1>8. \A g \in FireIds : Begun(g)' <=> (Begun(g) \/ g = f)
  BY <1>3, <1>5 DEF Begun
<1>9. \A g \in FireIds : g < f => Begun(g)
  BY <1>1 DEF TriggerInv, FiresBegin, Begun
<1>10. \A g \in FireIds : Begun(g) => g < f
  BY <1>4 DEF TriggerInv, FiresBegin, Begun, FireIds
<1>11. FiresBegin'
  <2>1. SUFFICES ASSUME NEW g \in FireIds
                 PROVE  /\ fires'[g].step = "none" => fires'[g] = NoFire
                        /\ Begun(g)' => \A h \in FireIds : h < g => Begun(h)'
                        /\ fires'[g].step = "arm" => fires'[g].scenario = "fallback"
                        /\ fires'[g].step \in {"list", "create"} =>
                             fires'[g].scenario = "operator_rule"
    BY DEF FiresBegin
  <2>2. CASE g = f
    BY <1>3, <1>5, <1>8, <1>9, <2>2
  <2>3. CASE g # f
    BY <1>5, <1>8, <2>3 DEF TriggerInv, FiresBegin
  <2> QED
    BY <2>2, <2>3
<1>12. OneFire'
  <2>1. SUFFICES ASSUME stale = FALSE
                 PROVE  OneFire'
    BY <1>2 DEF OneFire
  <2>2. \A g \in FireIds : ~UnderWay(g)
    BY <1>2, <2>1 DEF TriggerInv, OneFire
  <2>3. \A g \in FireIds : UnderWay(g)' <=> g = f
    BY <1>3, <1>5, <2>2 DEF UnderWay
  <2>4. \A g \in FireIds : Begun(g)' => g <= f
    BY <1>8, <1>10 DEF FireIds
  <2> QED
    BY <1>3, <1>5, <1>6, <2>3, <2>4 DEF OneFire
<1>13. RulesOnce'
  <2>1. Passed \subseteq Passed'
    BY <1>4, <1>5 DEF Passed
  <2>2. /\ IsFiniteSet(Passed) /\ Cardinality(Passed) \in Nat
        /\ IsFiniteSet(Passed') /\ Cardinality(Passed') \in Nat
    <3>1. IsFiniteSet(Passed) /\ Cardinality(Passed) \in Nat
      BY PassedFinite
    <3>2. (IsFiniteSet(Passed) /\ Cardinality(Passed) \in Nat)'
      BY PassedFinite, PTL
    <3> QED
      BY <3>1, <3>2
  <2>3. Cardinality(Passed) <= Cardinality(Passed')
    BY <2>1, <2>2, FS_Subset
  <2>4. ensured \in Nat /\ ensured <= Cardinality(Passed')
    BY <2>2, <2>3 DEF TriggerInv, TriggerShape, RulesOnce
  <2>5. \A g \in FireIds : fires'[g].step = "create" => g # f /\ fires[g].step = "create"
    BY <1>3, <1>5
  <2> QED
    BY <1>2, <2>4, <2>5 DEF TriggerInv, RulesOnce
<1>14. FallsAsAsked'
  <2>1. \A g \in FireIds :
          (fires'[g].scenario = "fallback" /\ fires'[g].step \in {"complete", "error"}) <=>
          (fires[g].scenario = "fallback" /\ fires[g].step \in {"complete", "error"})
    BY <1>3, <1>4, <1>5
  <2>2. \A g \in FireIds :
          (fires'[g].scenario = "fallback" /\ fires'[g].step = "complete") <=>
          (fires[g].scenario = "fallback" /\ fires[g].step = "complete")
    BY <1>3, <1>4, <1>5
  <2>3. \A g \in FireIds : fires'[g].step = "sent" => fires'[g] = fires[g]
    BY <1>3, <1>5
  <2>4. "mock-cheap" \in armed =>
          \E g \in FireIds :
            fires'[g].scenario = "fallback" /\ fires'[g].step \in {"complete", "error"}
    BY <2>1 DEF TriggerInv, FallsAsAsked
  <2>5. ASSUME stale = FALSE, misses = 0
        PROVE  /\ "mock-cheap" \in armed <=>
                    \E g \in FireIds :
                      fires'[g].scenario = "fallback" /\ fires'[g].step = "complete"
               /\ \A g \in FireIds : fires'[g].step = "sent" =>
                    (fires'[g].fell = TRUE <=> fires'[g].scenario = "fallback")
    BY <2>2, <2>3, <2>5 DEF TriggerInv, FallsAsAsked
  <2> QED
    BY <1>2, <2>4, <2>5 DEF FallsAsAsked
<1> QED
  BY <1>7, <1>11, <1>12, <1>13, <1>14 DEF TriggerInv

(* The mocks are armed.                                                      *)
LEMMA ArmStep ==
  ASSUME TriggerInv, NEW f \in FireIds, Arm(f)
  PROVE  TriggerInv'
<1>1. /\ fires[f].step = "arm" /\ To(f, "complete") /\ armed' = ArmedMocks
      /\ UNCHANGED << trigger, resets, ensured, stale, misses, unlisted >>
  BY DEF Arm
<1>2. UnderWay(f) /\ fires[f].scenario = "fallback"
  BY <1>1 DEF UnderWay, TriggerInv, FiresBegin
<1>3. Stepped(f, "complete") /\ fires'[f].fell = fires[f].fell
  BY <1>1, ToStepped DEF TriggerInv, FireSteps
<1>4. /\ FiresBegin' /\ OneFire'
      /\ resets' \subseteq {g \in FireIds : fires'[g].step = "sent"}
  BY <1>1, <1>2, <1>3, FireGoesOn
<1>5. TriggerShape'
  BY <1>1, <1>3, <1>4 DEF Stepped, TriggerInv, TriggerShape
<1>6. RulesOnce'
  <2>1. Cardinality(Passed) <= Cardinality(Passed')
    BY <1>1, <1>3, PassedGrows
  <2>2. ensured <= Cardinality(Passed')
    <3>1. Cardinality(Passed) \in Nat
      BY PassedFinite
    <3>2. (Cardinality(Passed) \in Nat)'
      BY PassedFinite, PTL
    <3> QED
      BY <2>1, <3>1, <3>2 DEF TriggerInv, TriggerShape, RulesOnce
  <2>3. \A g \in FireIds : fires'[g].step = "create" => fires[g].step = "create"
    BY <1>3 DEF Stepped
  <2> QED
    BY <1>1, <2>2, <2>3 DEF TriggerInv, RulesOnce
<1>7. FallsAsAsked'
  <2>1. fires'[f].scenario = "fallback" /\ fires'[f].step = "complete"
    BY <1>2, <1>3 DEF Stepped
  <2>2. \A g \in FireIds : fires'[g].step = "sent" => fires'[g] = fires[g]
    BY <1>3 DEF Stepped
  <2>3. "mock-cheap" \in armed'
    BY <1>1 DEF ArmedMocks
  <2> QED
    BY <1>1, <2>1, <2>2, <2>3 DEF TriggerInv, FallsAsAsked
<1> QED
  BY <1>4, <1>5, <1>6, <1>7 DEF TriggerInv

(* Nothing is armed or used by a fire that goes from one step to another for *)
(* a rule.                                                                   *)
LEMMA RuleKeepsArmed ==
  ASSUME TriggerInv, NEW f \in FireIds, NEW step \in {"create", "complete", "error"},
         Stepped(f, step), fires[f].step \in {"list", "create"},
         armed' = armed, stale' = stale, misses' = 0 => misses = 0 /\ step # "error"
  PROVE  FallsAsAsked'
<1>1. fires[f].scenario = "operator_rule"
  BY DEF TriggerInv, FiresBegin
<1>2. /\ \A g \in FireIds : g # f => fires'[g] = fires[g]
      /\ fires'[f].scenario = "operator_rule" /\ fires'[f].step # "sent"
  BY <1>1 DEF Stepped
<1>3. \A g \in FireIds :
        (fires'[g].scenario = "fallback" /\ fires'[g].step \in {"complete", "error"}) <=>
        (fires[g].scenario = "fallback" /\ fires[g].step \in {"complete", "error"})
  BY <1>1, <1>2
<1>4. \A g \in FireIds :
        (fires'[g].scenario = "fallback" /\ fires'[g].step = "complete") <=>
        (fires[g].scenario = "fallback" /\ fires[g].step = "complete")
  BY <1>1, <1>2
<1>5. \A g \in FireIds : fires'[g].step = "sent" => fires'[g] = fires[g]
  BY <1>2
<1>6. "mock-cheap" \in armed =>
        \E g \in FireIds :
          fires'[g].scenario = "fallback" /\ fires'[g].step \in {"complete", "error"}
  BY <1>3 DEF TriggerInv, FallsAsAsked
<1>7. ASSUME stale = FALSE, misses = 0
      PROVE  /\ "mock-cheap" \in armed <=>
                  \E g \in FireIds :
                    fires'[g].scenario = "fallback" /\ fires'[g].step = "complete"
             /\ \A g \in FireIds : fires'[g].step = "sent" =>
                  (fires'[g].fell = TRUE <=> fires'[g].scenario = "fallback")
  BY <1>4, <1>5, <1>7 DEF TriggerInv, FallsAsAsked
<1> QED
  BY <1>6, <1>7 DEF FallsAsAsked

(* A bound that grows remains one.                                           *)
LEMMA OneMore ==
  ASSUME NEW a \in Nat, NEW b \in Nat, NEW c \in Nat, a <= 1 + b, b <= c
  PROVE  a <= 1 + c
OBVIOUS

(* The rules are listed.                                                     *)
LEMMA ListRulesStep ==
  ASSUME TriggerInv, NEW f \in FireIds, ListRules(f)
  PROVE  TriggerInv'
<1>1. /\ fires[f].step = "list"
      /\ UNCHANGED << trigger, resets, armed, ensured, stale >>
      /\ ensured \in Nat /\ misses \in Nat /\ unlisted \in Nat
  BY DEF ListRules, TriggerInv, TriggerShape
<1>2. PICK step \in {"create", "complete"} :
        /\ To(f, step)
        /\ \/ (step = "create" => ensured = 0) /\ UNCHANGED << misses, unlisted >>
           \/ misses' = misses + 1 /\ unlisted' = unlisted + 1
  <2>1. CASE To(f, IF ensured > 0 THEN "complete" ELSE "create")
             /\ UNCHANGED << misses, unlisted >>
    <3>1. CASE ensured > 0
      BY <2>1, <3>1
    <3>2. CASE ~(ensured > 0)
      BY <1>1, <2>1, <3>2
    <3> QED
      BY <3>1, <3>2
  <2>2. CASE Miss /\ To(f, "create") /\ unlisted' = unlisted + 1
    BY <2>2 DEF Miss
  <2> QED
    BY <2>1, <2>2 DEF ListRules
<1>3. UnderWay(f) /\ fires[f].scenario = "operator_rule"
  BY <1>1 DEF UnderWay, TriggerInv, FiresBegin
<1>4. Stepped(f, step) /\ fires'[f].fell = fires[f].fell
  BY <1>2, ToStepped DEF TriggerInv, FireSteps
<1>5. /\ FiresBegin' /\ OneFire'
      /\ resets' \subseteq {g \in FireIds : fires'[g].step = "sent"}
  BY <1>1, <1>3, <1>4, FireGoesOn
<1>6. misses' \in Nat /\ unlisted' \in Nat /\ unlisted <= unlisted'
      /\ (misses' = 0 => misses = 0)
  BY <1>1, <1>2
<1>7. TriggerShape'
  BY <1>1, <1>4, <1>5, <1>6 DEF Stepped, TriggerInv, TriggerShape
<1>8. RulesOnce'
  <2>1. Cardinality(Passed) <= Cardinality(Passed')
    BY <1>1, <1>4, PassedGrows
  <2>2. ensured <= Cardinality(Passed')
    <3>1. Cardinality(Passed) \in Nat
      BY PassedFinite
    <3>2. (Cardinality(Passed) \in Nat)'
      BY PassedFinite, PTL
    <3> QED
      BY <2>1, <3>1, <3>2 DEF TriggerInv, TriggerShape, RulesOnce
  <2>3. ASSUME stale = FALSE
        PROVE  /\ ensured <= 1 + unlisted'
               /\ \A g \in FireIds : fires'[g].step = "create" => ensured <= unlisted'
    <3>1. /\ ensured <= 1 + unlisted
          /\ \A g \in FireIds : fires[g].step = "create" => ensured <= unlisted
      BY <2>3 DEF TriggerInv, RulesOnce
    <3>2. fires'[f].step = "create" => ensured <= unlisted'
      <4>1. fires'[f].step = step
        BY <1>4 DEF Stepped
      <4>2. CASE (step = "create" => ensured = 0) /\ unlisted' = unlisted
        BY <1>1, <4>1, <4>2
      <4>3. CASE unlisted' = unlisted + 1
        BY <1>1, <3>1, <4>3
      <4> QED
        BY <1>2, <4>2, <4>3
    <3>3. \A g \in FireIds : g # f => fires'[g] = fires[g]
      BY <1>4 DEF Stepped
    <3>4. ensured <= 1 + unlisted'
      <4>1. ensured <= 1 + unlisted
        BY <3>1
      <4>2. /\ ensured \in Nat /\ unlisted \in Nat /\ unlisted' \in Nat
            /\ unlisted <= unlisted'
        BY <1>1, <1>6
      <4> QED
        BY <4>1, <4>2, OneMore
    <3>5. ASSUME NEW g \in FireIds, fires'[g].step = "create", g # f
          PROVE  ensured <= unlisted'
      <4>1. fires[g].step = "create"
        BY <3>3, <3>5
      <4>2. ensured <= unlisted
        BY <3>1, <4>1
      <4> QED
        BY <1>1, <1>6, <4>2
    <3> QED
      BY <3>2, <3>4, <3>5
  <2> QED
    BY <1>1, <2>2, <2>3 DEF RulesOnce
<1>9. FallsAsAsked'
  BY <1>1, <1>4, <1>6, RuleKeepsArmed
<1> QED
  BY <1>5, <1>7, <1>8, <1>9 DEF TriggerInv

(* The rule is created.                                                      *)
LEMMA CreateRuleStep ==
  ASSUME TriggerInv, NEW f \in FireIds, CreateRule(f)
  PROVE  TriggerInv'
<1>1. /\ fires[f].step = "create" /\ To(f, "complete") /\ ensured' = ensured + 1
      /\ UNCHANGED << trigger, resets, armed, stale, misses, unlisted >>
      /\ ensured \in Nat
  BY DEF CreateRule, TriggerInv, TriggerShape
<1>2. UnderWay(f) /\ Begun(f)
  BY <1>1 DEF UnderWay, Begun
<1>3. Stepped(f, "complete")
  BY <1>1, ToStepped DEF TriggerInv, FireSteps
<1>4. /\ FiresBegin' /\ OneFire'
      /\ resets' \subseteq {g \in FireIds : fires'[g].step = "sent"}
  BY <1>1, <1>2, <1>3, FireGoesOn
<1>5. TriggerShape'
  BY <1>1, <1>3, <1>4 DEF Stepped, TriggerInv, TriggerShape
<1>6. RulesOnce'
  BY <1>1, <1>2, <1>3, CreatedOnce
<1>7. FallsAsAsked'
  BY <1>1, <1>3, RuleKeepsArmed
<1> QED
  BY <1>4, <1>5, <1>6, <1>7 DEF TriggerInv

(* The completion is answered.                                               *)
LEMMA CompleteStep ==
  ASSUME TriggerInv, NEW f \in FireIds, Complete(f)
  PROVE  TriggerInv'
<1> DEFINE fell == "mock-cheap" \in armed
           ok == ~fell \/ fires[f].scenario # "operator_rule"
           step == IF ok THEN "sent" ELSE "error"
           next == [fires[f] EXCEPT !.step = step, !.fell = fell]
<1>1. /\ fires[f].step = "complete" /\ armed' = armed \ {"mock-cheap"}
      /\ fires' = [fires EXCEPT ![f] = next]
      /\ trigger' = [trigger EXCEPT !.status = step]
      /\ resets' = IF ok THEN resets \union {f} ELSE resets
      /\ UNCHANGED << ensured, stale, misses, unlisted >>
  BY DEF Complete
<1>2. UnderWay(f) /\ fires[f] \in FireStates /\ fires \in [FireIds -> FireStates]
      /\ ensured \in Nat
  BY <1>1 DEF UnderWay, TriggerInv, TriggerShape
<1>3. step \in {"sent", "error"} /\ fell \in BOOLEAN /\ (step = "sent" <=> ok)
      /\ (fell = TRUE <=> "mock-cheap" \in armed)
  OBVIOUS
<1>4. resets' \subseteq resets \union {f} /\ (step = "error" => resets' = resets)
  BY <1>1, <1>3
<1> HIDE DEF fell, ok, step
<1>5. /\ next \in FireStates /\ next.step = step /\ next.scenario = fires[f].scenario
      /\ next.fell = fell
  <2>1. step \in FireSteps
    BY <1>3 DEF FireSteps
  <2> QED
    BY <1>2, <1>3, <2>1 DEF FireStates
<1> HIDE DEF next
<1>6. Stepped(f, step) /\ fires'[f].fell = fell
  BY <1>1, <1>2, <1>5 DEF Stepped
<1>7. /\ FiresBegin' /\ OneFire' /\ trigger' \in TriggerStates
      /\ resets' \subseteq {g \in FireIds : fires'[g].step = "sent"}
  BY <1>1, <1>2, <1>3, <1>4, <1>6, FireEnds
<1>8. TriggerShape'
  BY <1>1, <1>6, <1>7 DEF Stepped, TriggerInv, TriggerShape
<1>9. RulesOnce'
  BY <1>1, <1>3, <1>6, RulesKept
<1>10. FallsAsAsked'
  <2>1. SUFFICES ASSUME stale = FALSE, misses = 0
                 PROVE  /\ ~\E g \in FireIds :
                              fires'[g].scenario = "fallback" /\ fires'[g].step = "complete"
                        /\ \A g \in FireIds : fires'[g].step = "sent" =>
                             (fires'[g].fell = TRUE <=> fires'[g].scenario = "fallback")
    BY <1>1 DEF FallsAsAsked
  <2>2. \A g \in FireIds : UnderWay(g) => g = f
    BY <1>2, <2>1, OnlyOne
  <2>3. ASSUME NEW g \in FireIds
        PROVE  fires'[g].step # "complete"
    <3>1. CASE g = f
      BY <1>3, <1>6, <3>1 DEF Stepped
    <3>2. CASE g # f
      BY <1>6, <2>2, <3>2 DEF Stepped, UnderWay
    <3> QED
      BY <3>1, <3>2
  <2>4. "mock-cheap" \in armed <=> fires[f].scenario = "fallback"
    <3>1. "mock-cheap" \in armed <=>
            \E g \in FireIds : fires[g].scenario = "fallback" /\ fires[g].step = "complete"
      BY <2>1 DEF TriggerInv, FallsAsAsked
    <3>2. \A g \in FireIds : fires[g].step = "complete" => g = f
      BY <2>2 DEF UnderWay
    <3> QED
      BY <1>1, <3>1, <3>2
  <2>5. fires'[f].fell = TRUE <=> fires'[f].scenario = "fallback"
    BY <1>3, <1>6, <2>4 DEF Stepped
  <2>6. ASSUME NEW g \in FireIds, g # f, fires'[g].step = "sent"
        PROVE  fires'[g].fell = TRUE <=> fires'[g].scenario = "fallback"
    <3>1. fires'[g] = fires[g]
      BY <1>6, <2>6 DEF Stepped
    <3> QED
      BY <2>1, <2>6, <3>1 DEF TriggerInv, FallsAsAsked
  <2> QED
    BY <2>3, <2>5, <2>6
<1> QED
  BY <1>7, <1>8, <1>9, <1>10 DEF TriggerInv

(* A call fails, before it took effect or after.                             *)
LEMMA CallFailsStep ==
  ASSUME TriggerInv, NEW f \in FireIds, CallFails(f)
  PROVE  TriggerInv'
<1>1. /\ UnderWay(f) /\ fires[f].step # "list" /\ misses' = misses + 1
      /\ To(f, "error") /\ trigger' = [trigger EXCEPT !.status = "error"]
      /\ UNCHANGED << resets, stale, unlisted >>
      /\ ensured \in Nat /\ misses \in Nat
  BY DEF CallFails, Miss, TriggerInv, TriggerShape
<1>2. Stepped(f, "error")
  BY <1>1, ToStepped DEF TriggerInv, FireSteps
<1>3. /\ FiresBegin' /\ OneFire' /\ trigger' \in TriggerStates
      /\ resets' \subseteq {g \in FireIds : fires'[g].step = "sent"}
  BY <1>1, <1>2, FireEnds
<1>4. /\ armed' \subseteq ArmedMocks /\ ensured' \in {ensured, ensured + 1}
      /\ ensured' # ensured => fires[f].step = "create" /\ armed' = armed
      /\ "mock-cheap" \in armed' => fires[f].step = "arm" \/ "mock-cheap" \in armed
  BY <1>1 DEF CallFails, TriggerInv, TriggerShape
<1>5. TriggerShape'
  BY <1>1, <1>2, <1>3, <1>4 DEF Stepped, TriggerInv, TriggerShape
<1>6. RulesOnce'
  <2>1. CASE ensured' = ensured
    BY <1>1, <1>2, <2>1, RulesKept
  <2>2. CASE ensured' = ensured + 1
    BY <1>1, <1>2, <1>4, <2>2, CreatedOnce
  <2> QED
    BY <1>4, <2>1, <2>2
<1>7. FallsAsAsked'
  <2>1. misses' # 0
    BY <1>1
  <2>2. ASSUME "mock-cheap" \in armed'
        PROVE  \E g \in FireIds :
                 fires'[g].scenario = "fallback" /\ fires'[g].step \in {"complete", "error"}
    <3>1. CASE fires[f].step = "arm"
      <4>1. fires'[f].scenario = "fallback" /\ fires'[f].step = "error"
        BY <1>2, <3>1 DEF Stepped, TriggerInv, FiresBegin
      <4> QED
        BY <4>1
    <3>2. CASE "mock-cheap" \in armed
      <4>1. PICK g \in FireIds :
              fires[g].scenario = "fallback" /\ fires[g].step \in {"complete", "error"}
        BY <3>2 DEF TriggerInv, FallsAsAsked
      <4>2. fires'[g].scenario = "fallback" /\ fires'[g].step \in {"complete", "error"}
        BY <1>2, <4>1 DEF Stepped
      <4> QED
        BY <4>2
    <3> QED
      BY <1>4, <2>2, <3>1, <3>2
  <2> QED
    BY <2>1, <2>2 DEF FallsAsAsked
<1> QED
  BY <1>3, <1>5, <1>6, <1>7 DEF TriggerInv

(* The timer runs.                                                           *)
LEMMA ResetTriggerStep ==
  ASSUME TriggerInv, NEW f \in FireIds, ResetTrigger(f)
  PROVE  TriggerInv'
<1>1. /\ resets' = resets \ {f} /\ trigger' = [scenario |-> NoScenario, status |-> "idle"]
      /\ stale' = (stale \/ trigger.status # "sent" \/ resets # {f})
      /\ UNCHANGED << fires, armed, ensured, misses, unlisted >>
  BY DEF ResetTrigger
<1>2. stale' \in BOOLEAN /\ (stale' = FALSE => stale = FALSE /\ trigger.status = "sent")
  BY <1>1 DEF TriggerInv, TriggerShape
<1>3. trigger' \in TriggerStates /\ trigger'.status = "idle"
  BY <1>1 DEF TriggerStates
<1>4. TriggerShape'
  BY <1>1, <1>2, <1>3 DEF TriggerInv, TriggerShape
<1>5. FiresBegin'
  BY <1>1 DEF TriggerInv, FiresBegin, Begun
<1>6. OneFire'
  <2>1. SUFFICES ASSUME stale' = FALSE
                 PROVE  \A g \in FireIds : ~UnderWay(g)'
    BY <1>3 DEF OneFire
  <2>2. \A g \in FireIds : ~UnderWay(g)
    BY <1>2, <2>1 DEF TriggerInv, OneFire
  <2> QED
    BY <1>1, <2>2 DEF UnderWay
<1>7. RulesOnce'
  BY <1>1, <1>2 DEF TriggerInv, RulesOnce, Passed
<1>8. FallsAsAsked'
  BY <1>1, <1>2 DEF TriggerInv, FallsAsAsked
<1> QED
  BY <1>4, <1>5, <1>6, <1>7, <1>8 DEF TriggerInv

(* Every step of the trigger keeps the invariant.                            *)
LEMMA TriggerStep == TriggerInv /\ [TriggerNext]_triggerVars => TriggerInv'
<1> SUFFICES ASSUME TriggerInv, [TriggerNext]_triggerVars
             PROVE  TriggerInv'
  OBVIOUS
<1>1. CASE UNCHANGED triggerVars
  BY <1>1 DEF triggerVars, TriggerInv, TriggerShape, FiresBegin, Begun, OneFire, UnderWay,
              RulesOnce, Passed, FallsAsAsked
<1> QED
  BY <1>1, FireStep, ArmStep, ListRulesStep, CreateRuleStep, CompleteStep, CallFailsStep,
     ResetTriggerStep DEF TriggerNext

(* What the invariant says of the trigger and of the state.                  *)
LEMMA TriggerHolds == TriggerInv => TriggerIsHonest /\ TriggerTypeOK
<1> SUFFICES ASSUME TriggerInv
             PROVE  TriggerIsHonest /\ TriggerTypeOK
  OBVIOUS
<1> DEFINE current == {f \in FireIds : UnderWay(f)}
           begun == {f \in FireIds : fires[f] # NoFire}
           last == CHOOSE f \in begun : \A g \in begun : g <= f
<1>1. \A f \in FireIds : f \in begun <=> Begun(f)
  <2>1. NoFire.step = "none"
    BY DEF NoFire
  <2>2. \A f \in FireIds : Begun(f) <=> fires[f] # NoFire
    BY <2>1 DEF TriggerInv, FiresBegin, Begun
  <2> QED
    BY <2>2
<1>2. stale \in BOOLEAN
  BY DEF TriggerInv, TriggerShape
<1>3. ASSUME stale = FALSE
      PROVE  /\ Cardinality(current) <= 1
             /\ (trigger.status = "sending") = (current # {})
             /\ trigger.status \in {"sent", "error"} =>
                  trigger = [scenario |-> fires[last].scenario, status |-> fires[last].step]
             /\ ensured <= 1 + unlisted
  <2>1. Cardinality(current) <= 1
    <3>1. CASE current = {}
      BY <3>1, FS_EmptySet
    <3>2. CASE current # {}
      <4>1. PICK f \in FireIds : UnderWay(f)
        BY <3>2
      <4>2. current = {f}
        BY <1>3, <4>1, OnlyOne
      <4> QED
        BY <4>2, FS_Singleton
    <3> QED
      BY <3>1, <3>2
  <2>2. (trigger.status = "sending") = (current # {})
    <3>1. trigger.status = "sending" <=> \E f \in FireIds : UnderWay(f)
      BY <1>3 DEF TriggerInv, OneFire
    <3> QED
      BY <3>1
  <2>3. ASSUME trigger.status \in {"sent", "error"}
        PROVE  trigger = [scenario |-> fires[last].scenario, status |-> fires[last].step]
    <3>1. PICK f \in FireIds :
            /\ Begun(f) /\ \A g \in FireIds : Begun(g) => g <= f
            /\ trigger.scenario = fires[f].scenario /\ trigger.status = fires[f].step
      BY <1>3, <2>3 DEF TriggerInv, OneFire
    <3>2. f \in begun /\ \A g \in begun : g <= f
      BY <1>1, <3>1
    <3>3. last \in begun /\ \A g \in begun : g <= last
      BY <3>2
    <3>4. last = f
      BY <3>2, <3>3 DEF FireIds
    <3> HIDE DEF last
    <3>5. trigger = [scenario |-> trigger.scenario, status |-> trigger.status]
      BY DEF TriggerInv, TriggerShape, TriggerStates
    <3> QED
      BY <3>1, <3>4, <3>5
  <2>4. ensured <= 1 + unlisted
    BY <1>3 DEF TriggerInv, RulesOnce
  <2> QED
    BY <2>1, <2>2, <2>3, <2>4
<1>4. ASSUME stale = FALSE, misses = 0, NEW f \in begun, fires[f].step = "sent"
      PROVE  fires[f].fell = (fires[f].scenario = "fallback")
  <2>1. fires[f].fell \in BOOLEAN
    BY DEF TriggerInv, TriggerShape, FireStates
  <2>2. fires[f].fell = TRUE <=> fires[f].scenario = "fallback"
    BY <1>4 DEF TriggerInv, FallsAsAsked
  <2> QED
    BY <2>1, <2>2
<1>5. ASSUME current = {}, "mock-cheap" \in armed
      PROVE  \E f \in begun : fires[f].scenario = "fallback" /\ fires[f].step = "error"
  <2>1. PICK f \in FireIds :
          fires[f].scenario = "fallback" /\ fires[f].step \in {"complete", "error"}
    BY <1>5 DEF TriggerInv, FallsAsAsked
  <2>2. fires[f].step = "error"
    BY <1>5, <2>1 DEF UnderWay
  <2>3. f \in begun
    BY <1>1, <2>2 DEF Begun
  <2> QED
    BY <2>1, <2>2, <2>3
<1> HIDE DEF current, begun, last
<1>6. TriggerIsHonest
  <2>1. CASE stale = FALSE
    BY <1>3, <1>4, <1>5, <2>1 DEF TriggerIsHonest, current, begun, last
  <2>2. CASE stale = TRUE
    BY <1>5, <2>2 DEF TriggerIsHonest, current, begun, last
  <2> QED
    BY <1>2, <2>1, <2>2
<1>7. TriggerTypeOK
  <2>1. ensured \in 0..MaxFires
    BY PassedFinite, TriggerAssumption DEF TriggerInv, TriggerShape, RulesOnce
  <2> QED
    BY <2>1 DEF TriggerInv, TriggerShape, TriggerStates, TriggerTypeOK
<1> QED
  BY <1>6, <1>7

-----------------------------------------------------------------------------
(* The smoke test of a deployment.                                          *)

AllChecks ==
  {"overview", "cost", "health", "unauthenticated", "keys", "catalog", "completion",
   "replay", "summary", "providers", "metrics", "paid"}

SmokeStates ==
  [ arguments : SmokeArguments, stage : {"starting", "requesting", "polling", "exited"},
    check : Nat, attempt : Nat, polls : Nat, catalog : {{}, SmokeCatalog},
    failed : SUBSET AllChecks, exit : -1..2 ]

ServiceStates ==
  [ partition : BOOLEAN, rule : BOOLEAN, buffered : Nat, stored : Nat, dropped : Nat,
    paid : Nat ]

Executions == service.buffered + service.stored + service.dropped

(* The call is one that runs the checks.                                     *)
Runs(a) == a.usage = "complete" /\ a.retries \in Nat

LastCheck(a) == IF a.provider = NoProvider THEN 11 ELSE 12

SmokeShape ==
  /\ smoke \in SmokeStates /\ service \in ServiceStates
  /\ glitches \in 0..MaxGlitches /\ unanswered \in Nat
  /\ smoke.check \in 1..LastCheck(smoke.arguments)
  /\ smoke.stage # "exited" <=> smoke.exit = -1
  /\ smoke.stage \in {"requesting", "polling"} => Runs(smoke.arguments)
  /\ smoke.stage = "polling" => smoke.check = 8
  /\ smoke.stage = "requesting" => smoke.check # 8
  /\ Runs(smoke.arguments) => smoke.attempt <= smoke.arguments.retries
  /\ service.stored > 0 => service.partition = TRUE

(* A call that does not run has done nothing, and one that does ends with its*)
(* last check.                                                               *)
CallsEnd ==
  /\ smoke.stage = "starting" => smoke.check = 1
  /\ ~Runs(smoke.arguments) =>
       /\ smoke.check = 1 /\ smoke.attempt = 0 /\ smoke.failed = {}
       /\ Executions = 0 /\ service.paid = 0
       /\ smoke.exit = 0 => smoke.arguments.usage = "help"
       /\ smoke.exit = 1 => smoke.arguments.usage = "complete"
  /\ Runs(smoke.arguments) =>
       /\ smoke.stage = "exited" => smoke.check = LastCheck(smoke.arguments)
       /\ smoke.exit = 0 => smoke.failed = {}
       /\ smoke.exit = 1 => smoke.failed # {}
       /\ smoke.exit # 2

(* Executions are counted by the attempts, and paid for where a rule says so *)
(* or the last check asks.                                                   *)
ExecutionsCounted ==
  /\ smoke.check < 7 => Executions = 0
  /\ smoke.check = 7 => Executions <= smoke.attempt /\ (Executions > 0 => unanswered > 0)
  /\ Runs(smoke.arguments) => Executions <= smoke.arguments.retries + 1
  /\ Executions > 1 => unanswered > 0
  /\ service.rule = FALSE =>
       /\ smoke.check < 12 => service.paid = 0
       /\ service.paid > 0 => smoke.stage = "exited" \/ unanswered > 0
       /\ service.paid > 1 => unanswered > 0

(* What each check leaves behind when it has been recorded.                  *)
Verdicts ==
  /\ "completion" \in smoke.failed =>
       /\ smoke.check > 7
       /\ service.rule = FALSE /\ Executions > 0 => unanswered > 0
  /\ smoke.check > 7 /\ service.rule = TRUE => "completion" \in smoke.failed
  /\ "replay" \in smoke.failed => smoke.check > 8
  /\ smoke.check > 8 /\ "replay" \notin smoke.failed => service.stored > 0
  /\ smoke.check = 12 /\ smoke.stage = "exited" /\ "paid" \notin smoke.failed =>
       service.paid > 0

(* When nothing goes wrong, only these fail, and for these reasons.          *)
Blameless ==
  glitches = 0 =>
    /\ smoke.failed \subseteq {"replay", "completion", "paid"}
    /\ "completion" \in smoke.failed => service.rule = TRUE
    /\ "paid" \in smoke.failed =>
         service.rule = TRUE \/ smoke.arguments.provider \notin SmokeCatalog
    /\ smoke.check > 6 => smoke.catalog = SmokeCatalog

SmokeInv == SmokeShape /\ CallsEnd /\ ExecutionsCounted /\ Verdicts /\ Blameless

(* Which check is which.                                                     *)
LEMMA SmokeChecksAre ==
  /\ SmokeChecks \in Seq(AllChecks) /\ Len(SmokeChecks) = 11
  /\ \A i \in 1..11 :
       /\ SmokeChecks[i] = "completion" <=> i = 7
       /\ SmokeChecks[i] = "replay" <=> i = 8
       /\ SmokeChecks[i] = "catalog" <=> i = 6
       /\ SmokeChecks[i] # "paid" /\ SmokeChecks[i] \in AllChecks
<1>1. SmokeChecks \in Seq(AllChecks) /\ Len(SmokeChecks) = 11
  BY DEF SmokeChecks, AllChecks
<1>2. /\ SmokeChecks[1] = "overview" /\ SmokeChecks[2] = "cost" /\ SmokeChecks[3] = "health"
      /\ SmokeChecks[4] = "unauthenticated" /\ SmokeChecks[5] = "keys"
      /\ SmokeChecks[6] = "catalog" /\ SmokeChecks[7] = "completion"
      /\ SmokeChecks[8] = "replay" /\ SmokeChecks[9] = "summary"
      /\ SmokeChecks[10] = "providers" /\ SmokeChecks[11] = "metrics"
  BY DEF SmokeChecks
<1>3. \A i \in 1..11 :
        \/ i = 1 \/ i = 2 \/ i = 3 \/ i = 4 \/ i = 5 \/ i = 6 \/ i = 7 \/ i = 8 \/ i = 9
        \/ i = 10 \/ i = 11
  OBVIOUS
<1>4. \A i \in 1..11 : SmokeChecks[i] \in AllChecks
  BY <1>2, <1>3 DEF AllChecks
<1> QED
  BY <1>1, <1>2, <1>3, <1>4

(* A provider that is asked for adds the last check.                        *)
LEMMA ChecksAppended ==
  /\ Len(Append(SmokeChecks, "paid")) = 12 /\ Append(SmokeChecks, "paid")[12] = "paid"
  /\ \A i \in 1..11 : Append(SmokeChecks, "paid")[i] = SmokeChecks[i]
<1>1. Len(Append(SmokeChecks, "paid")) = 12
  BY DEF SmokeChecks
<1>2. Append(SmokeChecks, "paid")[12] = "paid"
  BY DEF SmokeChecks
<1>3. \A i \in 1..11 : Append(SmokeChecks, "paid")[i] = SmokeChecks[i]
  BY DEF SmokeChecks
<1> QED
  BY <1>1, <1>2, <1>3

(* The checks of a call, by their number.                                   *)
LEMMA ChecksAre ==
  ASSUME NEW a
  PROVE  /\ Len(ChecksOf(a)) = LastCheck(a)
         /\ \A i \in 1..LastCheck(a) :
              /\ ChecksOf(a)[i] \in AllChecks
              /\ ChecksOf(a)[i] = "completion" <=> i = 7
              /\ ChecksOf(a)[i] = "replay" <=> i = 8
              /\ ChecksOf(a)[i] = "catalog" <=> i = 6
              /\ ChecksOf(a)[i] = "paid" <=> i = 12
<1>1. CASE a.provider = NoProvider
  <2>1. ChecksOf(a) = SmokeChecks /\ LastCheck(a) = 11
    BY <1>1 DEF ChecksOf, LastCheck
  <2>2. \A i \in 1..11 : SmokeChecks[i] \in AllChecks /\ i # 12
    <3>1. \A i \in 1..11 : SmokeChecks[i] \in AllChecks
      BY SmokeChecksAre
    <3> QED
      BY <3>1
  <2> QED
    BY <2>1, <2>2, SmokeChecksAre
<1>2. CASE a.provider # NoProvider
  <2> DEFINE checks == Append(SmokeChecks, "paid")
  <2>1. ChecksOf(a) = checks /\ LastCheck(a) = 12
    BY <1>2 DEF ChecksOf, LastCheck
  <2>2. Len(checks) = 12 /\ checks[12] = "paid" /\ "paid" \in AllChecks
    <3>1. "paid" \in AllChecks
      BY DEF AllChecks
    <3> QED
      BY <3>1, ChecksAppended
  <2>3. \A i \in 1..11 : checks[i] = SmokeChecks[i]
    BY ChecksAppended
  <2> HIDE DEF checks
  <2>4. \A i \in 1..12 : i \in 1..11 \/ i = 12
    OBVIOUS
  <2>5. \A i \in 1..11 :
          /\ checks[i] \in AllChecks
          /\ checks[i] = "completion" <=> i = 7
          /\ checks[i] = "replay" <=> i = 8
          /\ checks[i] = "catalog" <=> i = 6
          /\ checks[i] = "paid" <=> i = 12
    <3>1. \A i \in 1..11 : i # 12
      OBVIOUS
    <3> QED
      BY <2>3, <3>1, SmokeChecksAre
  <2>6. \A i \in 1..12 :
          /\ checks[i] \in AllChecks
          /\ checks[i] = "completion" <=> i = 7
          /\ checks[i] = "replay" <=> i = 8
          /\ checks[i] = "catalog" <=> i = 6
          /\ checks[i] = "paid" <=> i = 12
    BY <2>2, <2>4, <2>5
  <2> QED
    BY <2>1, <2>2, <2>6
<1> QED
  BY <1>1, <1>2

(* What the current check is.                                                *)
LEMMA CurrentCheck ==
  ASSUME SmokeShape
  PROVE  /\ CheckOf(smoke) \in AllChecks
         /\ CheckOf(smoke) = "completion" <=> smoke.check = 7
         /\ CheckOf(smoke) = "replay" <=> smoke.check = 8
         /\ CheckOf(smoke) = "catalog" <=> smoke.check = 6
         /\ CheckOf(smoke) = "paid" <=> smoke.check = 12
         /\ smoke.check < LastCheck(smoke.arguments) => smoke.check < 12
<1>1. smoke.check \in 1..LastCheck(smoke.arguments)
  BY DEF SmokeShape
<1>2. LastCheck(smoke.arguments) \in {11, 12}
  BY DEF LastCheck
<1> QED
  BY <1>1, <1>2, ChecksAre DEF CheckOf

(* A script that has not started has checked nothing.                       *)
LEMMA SmokeInitHolds == SmokeInit => SmokeInv
<1> SUFFICES ASSUME SmokeInit
             PROVE  SmokeInv
  OBVIOUS
<1>1. PICK a \in SmokeArguments :
        smoke = [ arguments |-> a, stage |-> "starting", check |-> 1, attempt |-> 0,
                  polls |-> 0, catalog |-> {}, failed |-> {}, exit |-> -1 ]
  BY DEF SmokeInit
<1>2. PICK partition \in BOOLEAN, rule \in BOOLEAN :
        service = [ partition |-> partition, rule |-> rule, buffered |-> 0, stored |-> 0,
                    dropped |-> 0, paid |-> 0 ]
  BY DEF SmokeInit
<1>3. /\ smoke \in SmokeStates /\ smoke.arguments = a /\ smoke.stage = "starting"
      /\ smoke.check = 1 /\ smoke.attempt = 0 /\ smoke.failed = {} /\ smoke.exit = -1
  BY <1>1 DEF SmokeStates
<1>4. /\ service \in ServiceStates /\ service.stored = 0 /\ service.buffered = 0
      /\ service.dropped = 0 /\ service.paid = 0
  BY <1>2 DEF ServiceStates
<1>5. glitches = 0 /\ unanswered = 0 /\ MaxGlitches \in Nat
  BY SmokeAssumption DEF SmokeInit
<1>6. Executions = 0
  BY <1>4 DEF Executions
<1>7. smoke.check \in 1..LastCheck(smoke.arguments)
  BY <1>3 DEF LastCheck
<1>8. Runs(smoke.arguments) => 0 <= smoke.arguments.retries /\ 0 <= smoke.arguments.retries + 1
  BY DEF Runs
<1>9. SmokeShape
  BY <1>3, <1>4, <1>5, <1>7, <1>8 DEF SmokeShape
<1>10. CallsEnd
  BY <1>3, <1>4, <1>6 DEF CallsEnd
<1>11. ExecutionsCounted
  BY <1>3, <1>4, <1>5, <1>6, <1>8 DEF ExecutionsCounted
<1>12. Verdicts
  BY <1>3 DEF Verdicts
<1>13. Blameless
  BY <1>3 DEF Blameless
<1> QED
  BY <1>9, <1>10, <1>11, <1>12, <1>13 DEF SmokeInv

(* What becomes of the script when a check is recorded, and when a request is*)
(* repeated.                                                                 *)
IsRecorded(s, t, ok) ==
  /\ t \in SmokeStates /\ t.arguments = s.arguments
  /\ ok = TRUE => t.failed = s.failed
  /\ ok = FALSE => t.failed = s.failed \union {CheckOf(s)}
  /\ s.check = LastCheck(s.arguments) =>
       /\ t.stage = "exited" /\ t.check = s.check /\ t.attempt = s.attempt
       /\ t.exit = IF t.failed = {} THEN 0 ELSE 1
  /\ s.check # LastCheck(s.arguments) =>
       /\ t.check = s.check + 1 /\ t.attempt = 0 /\ t.exit = s.exit
       /\ t.check = 8 => t.stage = "polling"
       /\ t.check # 8 => t.stage = "requesting"

IsRepeated(s, t) ==
  /\ t \in SmokeStates /\ t.arguments = s.arguments
  /\ t.failed = s.failed /\ t.stage = s.stage /\ t.check = s.check /\ t.exit = s.exit
  /\ t.attempt = s.attempt + 1 /\ s.attempt < s.arguments.retries

(* Recorded does that, to a script that is at one of its checks.            *)
LEMMA RecordedIs ==
  ASSUME NEW s \in SmokeStates, s.check \in 1..LastCheck(s.arguments), NEW ok \in BOOLEAN
  PROVE  IsRecorded(s, Recorded(s, ok), ok) /\ Recorded(s, ok).catalog = s.catalog
<1> DEFINE failed == IF ok THEN s.failed ELSE s.failed \union {CheckOf(s)}
           closed == [s EXCEPT !.failed = failed]
           next == [s EXCEPT !.failed = failed, !.check = @ + 1, !.attempt = 0]
<1>1. /\ CheckOf(s) \in AllChecks /\ Len(ChecksOf(s.arguments)) = LastCheck(s.arguments)
  BY ChecksAre DEF CheckOf
<1>2. failed \in SUBSET AllChecks /\ (ok = TRUE => failed = s.failed)
      /\ (ok = FALSE => failed = s.failed \union {CheckOf(s)})
  BY <1>1 DEF SmokeStates
<1>3. Recorded(s, ok) =
        IF s.check = Len(ChecksOf(s.arguments))
          THEN Exited(closed, IF failed = {} THEN 0 ELSE 1)
        ELSE IF CheckOf(next) = "replay" THEN [next EXCEPT !.stage = "polling"]
        ELSE [next EXCEPT !.stage = "requesting"]
  BY DEF Recorded
<1> HIDE DEF failed
<1>4. CASE s.check = LastCheck(s.arguments)
  <2> DEFINE code == IF failed = {} THEN 0 ELSE 1
             t == [closed EXCEPT !.stage = "exited", !.exit = code]
  <2>1. code \in -1..2
    OBVIOUS
  <2>2. Recorded(s, ok) = t
    BY <1>1, <1>3, <1>4 DEF Exited
  <2> HIDE DEF code
  <2>3. closed \in SmokeStates
    BY <1>2 DEF SmokeStates
  <2>4. closed.arguments = s.arguments /\ closed.catalog = s.catalog /\ closed.failed = failed
        /\ closed.check = s.check /\ closed.attempt = s.attempt
    BY DEF SmokeStates
  <2> HIDE DEF closed
  <2>5. t \in SmokeStates
    BY <2>1, <2>3 DEF SmokeStates
  <2>6. t.arguments = closed.arguments /\ t.catalog = closed.catalog /\ t.failed = closed.failed
        /\ t.check = closed.check /\ t.attempt = closed.attempt
    BY <2>3 DEF SmokeStates
  <2>7. t.stage = "exited" /\ t.exit = code
    BY <2>3 DEF SmokeStates
  <2> HIDE DEF t
  <2> QED
    BY <1>2, <1>4, <2>2, <2>4, <2>5, <2>6, <2>7 DEF IsRecorded, code
<1>5. CASE s.check # LastCheck(s.arguments)
  <2>1. next \in SmokeStates
    <3>1. s.check + 1 \in Nat /\ 0 \in Nat
      BY DEF SmokeStates
    <3> QED
      BY <1>2, <3>1 DEF SmokeStates
  <2>2. next.arguments = s.arguments /\ next.catalog = s.catalog /\ next.failed = failed
        /\ next.exit = s.exit
    BY DEF SmokeStates
  <2>3. next.check = s.check + 1 /\ next.attempt = 0
    BY DEF SmokeStates
  <2>4. CheckOf(next) = "replay" <=> next.check = 8
    <3>1. next.check \in 1..LastCheck(next.arguments)
      BY <1>5, <2>2, <2>3 DEF LastCheck
    <3> QED
      BY <3>1, ChecksAre DEF CheckOf
  <2> HIDE DEF next
  <2>5. CASE next.check = 8
    <3> DEFINE t == [next EXCEPT !.stage = "polling"]
    <3>1. Recorded(s, ok) = t
      BY <1>1, <1>3, <1>5, <2>4, <2>5
    <3>2. t \in SmokeStates /\ t.stage = "polling"
      BY <2>1 DEF SmokeStates
    <3>3. t.arguments = next.arguments /\ t.catalog = next.catalog /\ t.failed = next.failed
          /\ t.check = next.check /\ t.attempt = next.attempt /\ t.exit = next.exit
      BY <2>1 DEF SmokeStates
    <3> HIDE DEF t
    <3> QED
      BY <1>2, <1>5, <2>2, <2>3, <2>5, <3>1, <3>2, <3>3 DEF IsRecorded
  <2>6. CASE next.check # 8
    <3> DEFINE t == [next EXCEPT !.stage = "requesting"]
    <3>1. Recorded(s, ok) = t
      BY <1>1, <1>3, <1>5, <2>4, <2>6
    <3>2. t \in SmokeStates /\ t.stage = "requesting"
      BY <2>1 DEF SmokeStates
    <3>3. t.arguments = next.arguments /\ t.catalog = next.catalog /\ t.failed = next.failed
          /\ t.check = next.check /\ t.attempt = next.attempt /\ t.exit = next.exit
      BY <2>1 DEF SmokeStates
    <3> HIDE DEF t
    <3> QED
      BY <1>2, <1>5, <2>2, <2>3, <2>6, <3>1, <3>2, <3>3 DEF IsRecorded
  <2> QED
    BY <2>5, <2>6
<1> QED
  BY <1>4, <1>5

(* An attempt more is a number.                                              *)
LEMMA AttemptsAre ==
  ASSUME NEW s \in SmokeStates
  PROVE  s.attempt + 1 \in Nat
BY DEF SmokeStates

(* A request is answered: it is repeated, or its check is recorded.          *)
LEMMA AnsweredIs ==
  ASSUME NEW s \in SmokeStates, s.check \in 1..LastCheck(s.arguments),
         NEW given, given \in {"as expected", "wrong", "transient"}
  PROVE  /\ Answered(s, given).catalog = s.catalog
         /\ \/ given = "transient" /\ IsRepeated(s, Answered(s, given))
            \/ given = "as expected" /\ IsRecorded(s, Answered(s, given), TRUE)
            \/ given # "as expected" /\ IsRecorded(s, Answered(s, given), FALSE)
<1>2. CASE given = "transient" /\ s.attempt < s.arguments.retries
  <2> DEFINE t == [s EXCEPT !.attempt = s.attempt + 1]
  <2>1. Answered(s, given) = t
    BY <1>2 DEF Answered
  <2>2. t \in SmokeStates
    <3>1. s.attempt + 1 \in Nat
      BY AttemptsAre
    <3> QED
      BY <3>1 DEF SmokeStates
  <2>3. t.arguments = s.arguments /\ t.catalog = s.catalog /\ t.failed = s.failed
        /\ t.stage = s.stage /\ t.check = s.check /\ t.exit = s.exit
    BY DEF SmokeStates
  <2>4. t.attempt = s.attempt + 1
    BY DEF SmokeStates
  <2> HIDE DEF t
  <2> QED
    BY <1>2, <2>1, <2>2, <2>3, <2>4 DEF IsRepeated
<1>3. CASE ~(given = "transient" /\ s.attempt < s.arguments.retries)
  <2>2. CASE given = "as expected"
    <3>1. Answered(s, given) = Recorded(s, TRUE)
      BY <1>3, <2>2 DEF Answered
    <3> QED
      BY <2>2, <3>1, RecordedIs
  <2>3. CASE given # "as expected"
    <3>1. Answered(s, given) = Recorded(s, FALSE)
      BY <1>3, <2>3 DEF Answered
    <3> QED
      BY <2>3, <3>1, RecordedIs
  <2> QED
    BY <2>2, <2>3
<1> QED
  BY <1>2, <1>3

(* The script's own state stays well-formed when a check is recorded or its  *)
(* request repeated.                                                         *)
LEMMA RecordedShape ==
  ASSUME SmokeShape, CallsEnd, smoke.stage \in {"requesting", "polling"},
         NEW ok \in BOOLEAN, IsRecorded(smoke, smoke', ok),
         service' \in ServiceStates, service'.stored > 0 => service'.partition = TRUE,
         glitches' \in 0..MaxGlitches, unanswered' \in Nat
  PROVE  SmokeShape' /\ CallsEnd'
<1>1. /\ smoke \in SmokeStates /\ Runs(smoke.arguments) /\ smoke.exit = -1
      /\ smoke.check \in 1..LastCheck(smoke.arguments)
      /\ smoke.attempt \in Nat /\ smoke.attempt <= smoke.arguments.retries
  BY DEF SmokeShape, SmokeStates
<1>2. smoke' \in SmokeStates /\ smoke'.arguments = smoke.arguments
  BY DEF IsRecorded
<1>3. LastCheck(smoke'.arguments) = LastCheck(smoke.arguments) /\ Runs(smoke'.arguments)
  BY <1>1, <1>2
<1>4. LastCheck(smoke.arguments) \in {11, 12} /\ 0 <= smoke.arguments.retries
  BY <1>1 DEF LastCheck, Runs
<1>5. CASE smoke.check = LastCheck(smoke.arguments)
  <2>1. /\ smoke'.stage = "exited" /\ smoke'.check = smoke.check
        /\ smoke'.attempt = smoke.attempt
        /\ smoke'.exit = IF smoke'.failed = {} THEN 0 ELSE 1
    BY <1>5 DEF IsRecorded
  <2>2. smoke'.exit \in {0, 1} /\ (smoke'.exit = 0 <=> smoke'.failed = {})
    BY <2>1
  <2>3. SmokeShape'
    BY <1>1, <1>2, <1>3, <2>1, <2>2 DEF SmokeShape
  <2>4. CallsEnd'
    BY <1>2, <1>3, <1>5, <2>1, <2>2 DEF CallsEnd
  <2> QED
    BY <2>3, <2>4
<1>6. CASE smoke.check # LastCheck(smoke.arguments)
  <2>1. /\ smoke'.check = smoke.check + 1 /\ smoke'.attempt = 0 /\ smoke'.exit = -1
        /\ smoke'.check = 8 => smoke'.stage = "polling"
        /\ smoke'.check # 8 => smoke'.stage = "requesting"
    BY <1>1, <1>6 DEF IsRecorded
  <2>2. smoke'.check \in 1..LastCheck(smoke.arguments)
    BY <1>1, <1>4, <1>6, <2>1
  <2>3. smoke'.stage \in {"polling", "requesting"}
        /\ (smoke'.stage = "polling" <=> smoke'.check = 8)
    BY <2>1
  <2>4. SmokeShape'
    BY <1>2, <1>3, <1>4, <2>1, <2>2, <2>3 DEF SmokeShape
  <2>5. CallsEnd'
    BY <1>2, <1>3, <2>1, <2>3 DEF CallsEnd
  <2> QED
    BY <2>4, <2>5
<1> QED
  BY <1>5, <1>6

(* So it does when the request is repeated.                                 *)
LEMMA RepeatedShape ==
  ASSUME SmokeShape, CallsEnd, smoke.stage = "requesting", IsRepeated(smoke, smoke'),
         service' \in ServiceStates, service'.stored > 0 => service'.partition = TRUE,
         glitches' \in 0..MaxGlitches, unanswered' \in Nat
  PROVE  SmokeShape' /\ CallsEnd'
<1>1. /\ smoke \in SmokeStates /\ Runs(smoke.arguments) /\ smoke.exit = -1
      /\ smoke.check \in 1..LastCheck(smoke.arguments) /\ smoke.check # 8
      /\ smoke.attempt \in Nat /\ smoke.arguments.retries \in Nat
  BY DEF SmokeShape, SmokeStates, Runs
<1>2. /\ smoke' \in SmokeStates /\ smoke'.arguments = smoke.arguments
      /\ smoke'.failed = smoke.failed /\ smoke'.stage = "requesting"
      /\ smoke'.check = smoke.check /\ smoke'.exit = -1
      /\ smoke'.attempt = smoke.attempt + 1 /\ smoke.attempt < smoke.arguments.retries
  BY <1>1 DEF IsRepeated
<1>3. smoke'.attempt <= smoke'.arguments.retries
  BY <1>1, <1>2
<1>4. SmokeShape'
  BY <1>1, <1>2, <1>3 DEF SmokeShape
<1>5. CallsEnd'
  BY <1>1, <1>2 DEF CallsEnd
<1> QED
  BY <1>4, <1>5

(* A check that executes nothing is recorded.                                *)
LEMMA RecordsOnly ==
  ASSUME SmokeInv, smoke.stage \in {"requesting", "polling"}, smoke.check # 7,
         NEW ok \in BOOLEAN, IsRecorded(smoke, smoke', ok),
         UNCHANGED << service, unanswered >>, glitches' \in 0..MaxGlitches,
         glitches' = 0 => glitches = 0,
         smoke.check = 8 /\ ok = TRUE => service.stored > 0,
         smoke.check = 12 => ok = FALSE,
         glitches' = 0 /\ ok = FALSE =>
           \/ smoke.check = 8
           \/ smoke.check = 12 /\ smoke.arguments.provider \notin smoke.catalog,
         glitches' = 0 =>
           smoke'.catalog = IF smoke.check = 6 THEN SmokeCatalog ELSE smoke.catalog
  PROVE  SmokeInv'
<1>1. SmokeShape' /\ CallsEnd'
  BY RecordedShape DEF SmokeInv, SmokeShape
<1>2. /\ smoke.check \in Nat /\ smoke'.check \in {smoke.check, smoke.check + 1}
      /\ smoke'.check = smoke.check => smoke'.stage = "exited"
      /\ smoke'.check = smoke.check /\ smoke.check <= 12 => smoke.check \in {11, 12}
      /\ smoke.check <= 12
      /\ smoke'.check # smoke.check => smoke'.attempt = 0
      /\ smoke'.arguments = smoke.arguments /\ Runs(smoke.arguments)
  BY DEF SmokeInv, SmokeShape, SmokeStates, IsRecorded, LastCheck
<1>3. /\ CheckOf(smoke) # "completion"
      /\ CheckOf(smoke) = "replay" <=> smoke.check = 8
      /\ CheckOf(smoke) = "paid" <=> smoke.check = 12
  BY CurrentCheck DEF SmokeInv
<1>4. /\ smoke'.failed \in {smoke.failed, smoke.failed \union {CheckOf(smoke)}}
      /\ ok = TRUE => smoke'.failed = smoke.failed
      /\ ok = FALSE => smoke'.failed = smoke.failed \union {CheckOf(smoke)}
  BY DEF IsRecorded
<1>5. Executions' = Executions /\ Executions \in Nat
  BY DEF Executions, SmokeInv, SmokeShape, ServiceStates
<1>6. ExecutionsCounted'
  <2>1. smoke'.check < 7 => smoke.check < 7
    BY <1>2
  <2>2. smoke'.check = 7 => smoke.check < 7 /\ smoke'.attempt = 0
    BY <1>2
  <2>3. smoke'.check < 12 => smoke.check < 12
    BY <1>2
  <2>4. smoke.check < 12 \/ smoke'.stage = "exited"
    BY <1>2, <1>1 DEF SmokeShape, LastCheck
  <2> QED
    BY <1>2, <1>5, <2>1, <2>2, <2>3, <2>4 DEF SmokeInv, ExecutionsCounted
<1>7. Verdicts'
  <2>1. /\ smoke'.check > 7 => smoke.check > 7
        /\ smoke.check > 7 => smoke'.check > 7
        /\ smoke.check > 8 => smoke'.check > 8
        /\ smoke'.check > 8 => smoke.check > 8 \/ smoke.check = 8
        /\ smoke.check = 8 => smoke'.check > 8
        /\ smoke'.check = 12 /\ smoke'.stage = "exited" => smoke.check = 12
    BY <1>2, <1>1 DEF SmokeShape, LastCheck, IsRecorded
  <2>2. "completion" \in smoke'.failed <=> "completion" \in smoke.failed
    BY <1>3, <1>4
  <2>3. "replay" \in smoke'.failed <=>
          ("replay" \in smoke.failed \/ (smoke.check = 8 /\ ok = FALSE))
    BY <1>3, <1>4
  <2>4. smoke.check = 12 => "paid" \in smoke'.failed
    BY <1>3, <1>4
  <2> QED
    BY <1>5, <2>1, <2>2, <2>3, <2>4 DEF SmokeInv, Verdicts
<1>8. Blameless'
  <2>1. SUFFICES ASSUME glitches' = 0
                 PROVE  Blameless'
    BY DEF Blameless
  <2>2. /\ smoke.failed \subseteq {"replay", "completion", "paid"}
        /\ "completion" \in smoke.failed => service.rule = TRUE
        /\ "paid" \in smoke.failed =>
             service.rule = TRUE \/ smoke.arguments.provider \notin SmokeCatalog
        /\ smoke.check > 6 => smoke.catalog = SmokeCatalog
    BY <2>1 DEF SmokeInv, Blameless
  <2>3. smoke'.failed \subseteq {"replay", "completion", "paid"}
    BY <1>3, <1>4, <2>1, <2>2
  <2>4. "completion" \in smoke'.failed => service.rule = TRUE
    BY <1>3, <1>4, <2>2
  <2>5. "paid" \in smoke'.failed =>
          service.rule = TRUE \/ smoke.arguments.provider \notin SmokeCatalog
    <3>1. CASE smoke.check = 12
      BY <1>3, <1>4, <2>1, <2>2, <3>1
    <3>2. CASE smoke.check # 12
      BY <1>3, <1>4, <2>2, <3>2
    <3> QED
      BY <3>1, <3>2
  <2>6. smoke'.check > 6 => smoke'.catalog = SmokeCatalog
    <3>1. smoke'.check > 6 => smoke.check = 6 \/ smoke.check > 6
      BY <1>2
    <3> QED
      BY <2>1, <2>2, <3>1
  <2> QED
    BY <1>2, <2>3, <2>4, <2>5, <2>6 DEF Blameless
<1> QED
  BY <1>1, <1>6, <1>7, <1>8 DEF SmokeInv

(* Its request is repeated.                                                  *)
LEMMA RepeatsOnly ==
  ASSUME SmokeInv, smoke.stage = "requesting", smoke.check # 7,
         IsRepeated(smoke, smoke'), UNCHANGED << service, unanswered >>,
         glitches' \in 0..MaxGlitches, glitches' # 0
  PROVE  SmokeInv'
<1>1. SmokeShape' /\ CallsEnd'
  BY RepeatedShape DEF SmokeInv, SmokeShape
<1>2. /\ smoke'.check = smoke.check /\ smoke'.stage = smoke.stage
      /\ smoke'.failed = smoke.failed /\ smoke'.arguments = smoke.arguments
  BY DEF IsRepeated
<1>3. Executions' = Executions
  BY DEF Executions
<1>4. ExecutionsCounted'
  BY <1>2, <1>3 DEF SmokeInv, ExecutionsCounted
<1>5. Verdicts'
  BY <1>2, <1>3 DEF SmokeInv, Verdicts
<1>6. Blameless'
  BY DEF Blameless
<1> QED
  BY <1>1, <1>4, <1>5, <1>6 DEF SmokeInv

(* The completion is executed or not, and answered, repeated or recorded.    *)
LEMMA CompletionMoves ==
  ASSUME SmokeInv, smoke.stage = "requesting", smoke.check = 7,
         service' \in ServiceStates, service'.rule = service.rule,
         service'.partition = service.partition, service'.stored = service.stored,
         Executions' = Executions \/ Executions' = Executions + 1,
         service.rule = FALSE => service'.paid = service.paid,
         unanswered' \in Nat, unanswered <= unanswered',
         glitches' \in 0..MaxGlitches, glitches' = 0 => glitches = 0,
         \/ /\ IsRepeated(smoke, smoke') /\ glitches' # 0
            /\ Executions' # Executions => unanswered' > 0
         \/ /\ IsRecorded(smoke, smoke', FALSE)
            /\ service.rule = FALSE =>
                 glitches' # 0 /\ (Executions' # Executions => unanswered' > 0)
         \/ IsRecorded(smoke, smoke', TRUE) /\ service.rule = FALSE,
         smoke'.catalog = smoke.catalog
  PROVE  SmokeInv'
<1>1. /\ smoke \in SmokeStates /\ Runs(smoke.arguments) /\ service \in ServiceStates
      /\ service.stored > 0 => service.partition = TRUE
      /\ smoke.attempt \in Nat /\ smoke.attempt <= smoke.arguments.retries
      /\ smoke.arguments.retries \in Nat
      /\ unanswered \in Nat /\ glitches \in 0..MaxGlitches
      /\ smoke.check # LastCheck(smoke.arguments)
  BY DEF SmokeInv, SmokeShape, SmokeStates, Runs, LastCheck
<1>2. /\ Executions \in Nat /\ Executions' \in Nat /\ Executions <= smoke.attempt
      /\ Executions > 0 => unanswered > 0
      /\ service.rule = FALSE => service.paid = 0
  <2>1. Executions \in Nat /\ Executions' \in Nat
    BY <1>1 DEF Executions, ServiceStates
  <2> QED
    BY <2>1 DEF SmokeInv, ExecutionsCounted
<1>3. "completion" \notin smoke.failed /\ "replay" \notin smoke.failed
  BY DEF SmokeInv, Verdicts
<1>4. /\ glitches = 0 => smoke.failed \subseteq {"replay", "completion", "paid"}
      /\ glitches = 0 /\ "paid" \in smoke.failed =>
           service.rule = TRUE \/ smoke.arguments.provider \notin SmokeCatalog
      /\ glitches = 0 => smoke.catalog = SmokeCatalog
  BY DEF SmokeInv, Blameless
<1>5. CheckOf(smoke) = "completion"
  BY CurrentCheck DEF SmokeInv
<1>6. Executions' > 1 => unanswered' > 0
  BY <1>1, <1>2
<1>7. CASE IsRepeated(smoke, smoke') /\ glitches' # 0
           /\ (Executions' # Executions => unanswered' > 0)
  <2>1. SmokeShape' /\ CallsEnd'
    BY <1>1, <1>7, RepeatedShape DEF SmokeInv
  <2>2. /\ smoke'.check = 7 /\ smoke'.stage = "requesting" /\ smoke'.failed = smoke.failed
        /\ smoke'.arguments = smoke.arguments /\ smoke'.attempt = smoke.attempt + 1
    BY <1>7 DEF IsRepeated
  <2>3. Executions' <= smoke'.attempt /\ Executions' <= smoke.arguments.retries + 1
    BY <1>1, <1>2, <2>2
  <2>4. Executions' > 0 => unanswered' > 0
    BY <1>1, <1>2, <1>7
  <2>5. ExecutionsCounted'
    BY <1>2, <1>6, <2>2, <2>3, <2>4 DEF ExecutionsCounted
  <2>6. Verdicts'
    BY <1>3, <2>2 DEF Verdicts
  <2>7. Blameless'
    BY <1>7 DEF Blameless
  <2> QED
    BY <2>1, <2>5, <2>6, <2>7 DEF SmokeInv
<1>8. ASSUME NEW ok \in BOOLEAN, IsRecorded(smoke, smoke', ok),
             ok = TRUE => service.rule = FALSE,
             ok = FALSE /\ service.rule = FALSE =>
               glitches' # 0 /\ (Executions' # Executions => unanswered' > 0)
      PROVE  SmokeInv'
  <2>1. SmokeShape' /\ CallsEnd'
    BY <1>1, <1>8, RecordedShape DEF SmokeInv
  <2>2. /\ smoke'.check = 8 /\ smoke'.stage = "polling"
        /\ smoke'.arguments = smoke.arguments
        /\ ok = TRUE => smoke'.failed = smoke.failed
        /\ ok = FALSE => smoke'.failed = smoke.failed \union {"completion"}
    BY <1>1, <1>5, <1>8 DEF IsRecorded
  <2>3. Executions' <= smoke.arguments.retries + 1
    BY <1>1, <1>2
  <2>4. ExecutionsCounted'
    BY <1>2, <1>6, <2>2, <2>3 DEF ExecutionsCounted
  <2>5. Verdicts'
    <3>1. "completion" \in smoke'.failed <=> ok = FALSE
      BY <1>3, <1>8, <2>2
    <3>2. ok = FALSE /\ service.rule = FALSE /\ Executions' > 0 => unanswered' > 0
      BY <1>1, <1>2, <1>8
    <3>3. "replay" \notin smoke'.failed
      BY <1>3, <1>8, <2>2
    <3>4. service.rule = TRUE => ok = FALSE
      BY <1>8
    <3> QED
      BY <2>2, <3>1, <3>2, <3>3, <3>4 DEF Verdicts
  <2>6. Blameless'
    <3>1. SUFFICES ASSUME glitches' = 0
                   PROVE  Blameless'
      BY DEF Blameless
    <3>2. ok = FALSE => service.rule = TRUE
      BY <1>1, <1>8, <3>1 DEF ServiceStates
    <3> QED
      BY <1>3, <1>4, <1>8, <2>2, <3>1, <3>2 DEF Blameless
  <2> QED
    BY <2>1, <2>4, <2>5, <2>6 DEF SmokeInv
<1> QED
  BY <1>7, <1>8

(* So is the paid one.                                                       *)
LEMMA PaidMoves ==
  ASSUME SmokeInv, smoke.stage = "requesting", smoke.check = 12,
         service' \in ServiceStates, service'.rule = service.rule,
         service'.partition = service.partition, service'.stored = service.stored,
         Executions' = Executions,
         service'.paid = service.paid \/ service'.paid = service.paid + 1,
         unanswered' \in Nat, unanswered <= unanswered',
         glitches' \in 0..MaxGlitches, glitches' = 0 => glitches = 0,
         \/ /\ IsRepeated(smoke, smoke') /\ glitches' # 0
            /\ service'.paid # service.paid => unanswered' > 0
         \/ /\ IsRecorded(smoke, smoke', FALSE)
            /\ service.rule = FALSE => glitches' # 0
         \/ IsRecorded(smoke, smoke', TRUE) /\ service'.paid = service.paid + 1,
         smoke'.catalog = smoke.catalog
  PROVE  SmokeInv'
<1>1. /\ smoke \in SmokeStates /\ Runs(smoke.arguments) /\ service \in ServiceStates
      /\ service.stored > 0 => service.partition = TRUE
      /\ unanswered \in Nat /\ glitches \in 0..MaxGlitches
      /\ smoke.check = LastCheck(smoke.arguments)
      /\ service.paid \in Nat
  BY DEF SmokeInv, SmokeShape, SmokeStates, ServiceStates, LastCheck
<1>2. /\ Executions \in Nat /\ Executions <= smoke.arguments.retries + 1
      /\ Executions > 1 => unanswered > 0
      /\ service.rule = FALSE /\ service.paid > 0 => unanswered > 0
  <2>1. Executions \in Nat
    BY <1>1 DEF Executions, ServiceStates
  <2> QED
    BY <1>1, <2>1 DEF SmokeInv, ExecutionsCounted
<1>3. CheckOf(smoke) = "paid"
  BY CurrentCheck DEF SmokeInv
<1>4. unanswered > 0 => unanswered' > 0
  BY <1>1
<1>5. service.rule = FALSE /\ service'.paid > 1 => unanswered' > 0
  BY <1>1, <1>2, <1>4
<1>6. CASE IsRepeated(smoke, smoke') /\ glitches' # 0
           /\ (service'.paid # service.paid => unanswered' > 0)
  <2>1. SmokeShape' /\ CallsEnd'
    BY <1>1, <1>6, RepeatedShape DEF SmokeInv
  <2>2. /\ smoke'.check = 12 /\ smoke'.stage = "requesting" /\ smoke'.failed = smoke.failed
        /\ smoke'.arguments = smoke.arguments
    BY <1>6 DEF IsRepeated
  <2>3. service.rule = FALSE /\ service'.paid > 0 => unanswered' > 0
    BY <1>1, <1>2, <1>4, <1>6
  <2>4. ExecutionsCounted'
    BY <1>2, <1>4, <1>5, <2>2, <2>3 DEF ExecutionsCounted
  <2>5. Verdicts'
    BY <1>2, <1>4, <2>2 DEF SmokeInv, Verdicts
  <2>6. Blameless'
    BY <1>6 DEF Blameless
  <2> QED
    BY <2>1, <2>4, <2>5, <2>6 DEF SmokeInv
<1>7. ASSUME NEW ok \in BOOLEAN, IsRecorded(smoke, smoke', ok),
             ok = TRUE => service'.paid = service.paid + 1,
             ok = FALSE /\ service.rule = FALSE => glitches' # 0
      PROVE  SmokeInv'
  <2>1. SmokeShape' /\ CallsEnd'
    BY <1>1, <1>7, RecordedShape DEF SmokeInv
  <2>2. /\ smoke'.check = 12 /\ smoke'.stage = "exited"
        /\ smoke'.arguments = smoke.arguments
        /\ ok = TRUE => smoke'.failed = smoke.failed
        /\ ok = FALSE => smoke'.failed = smoke.failed \union {"paid"}
    BY <1>1, <1>3, <1>7 DEF IsRecorded
  <2>3. ExecutionsCounted'
    BY <1>2, <1>4, <1>5, <2>2 DEF ExecutionsCounted
  <2>4. Verdicts'
    <3>1. ok = TRUE => service'.paid > 0
      BY <1>1, <1>7
    <3>2. /\ "completion" \in smoke'.failed <=> "completion" \in smoke.failed
          /\ "replay" \in smoke'.failed <=> "replay" \in smoke.failed
          /\ ok = FALSE => "paid" \in smoke'.failed
      BY <1>7, <2>2
    <3> QED
      BY <1>2, <1>4, <1>7, <2>2, <3>1, <3>2 DEF SmokeInv, Verdicts
  <2>5. Blameless'
    <3>1. SUFFICES ASSUME glitches' = 0
                   PROVE  Blameless'
      BY DEF Blameless
    <3>2. ok = FALSE => service.rule = TRUE
      BY <1>1, <1>7, <3>1 DEF ServiceStates
    <3>3. /\ smoke.failed \subseteq {"replay", "completion", "paid"}
          /\ "completion" \in smoke.failed => service.rule = TRUE
          /\ "paid" \in smoke.failed =>
               service.rule = TRUE \/ smoke.arguments.provider \notin SmokeCatalog
          /\ smoke.catalog = SmokeCatalog
      BY <3>1 DEF SmokeInv, Blameless
    <3> QED
      BY <1>7, <2>2, <3>2, <3>3 DEF Blameless
  <2> QED
    BY <2>1, <2>3, <2>4, <2>5 DEF SmokeInv
<1> QED
  BY <1>6, <1>7

(* The same, for a check that passed.                                        *)
LEMMA RecordsPassed ==
  ASSUME SmokeInv, smoke.stage \in {"requesting", "polling"}, smoke.check # 7,
         smoke.check # 12, IsRecorded(smoke, smoke', TRUE),
         UNCHANGED << service, unanswered >>, glitches' \in 0..MaxGlitches,
         glitches' = 0 => glitches = 0,
         smoke.check = 8 => service.stored > 0,
         glitches' = 0 =>
           smoke'.catalog = IF smoke.check = 6 THEN SmokeCatalog ELSE smoke.catalog
  PROVE  SmokeInv'
BY RecordsOnly

(* So it is for a check that failed.                                        *)
LEMMA RecordsFailed ==
  ASSUME SmokeInv, smoke.stage \in {"requesting", "polling"}, smoke.check # 7,
         IsRecorded(smoke, smoke', FALSE),
         UNCHANGED << service, unanswered >>, glitches' \in 0..MaxGlitches,
         glitches' = 0 => glitches = 0,
         glitches' = 0 =>
           /\ \/ smoke.check = 8
              \/ smoke.check = 12 /\ smoke.arguments.provider \notin smoke.catalog
           /\ smoke'.catalog = smoke.catalog
  PROVE  SmokeInv'
<1>1. glitches' = 0 =>
        /\ smoke.check = 8
           \/ (smoke.check = 12 /\ smoke.arguments.provider \notin smoke.catalog)
        /\ smoke'.catalog = IF smoke.check = 6 THEN SmokeCatalog ELSE smoke.catalog
  OBVIOUS
<1> QED
  BY <1>1, RecordsOnly

(* What is known of a script that is at work.                                *)
LEMMA AtWork ==
  ASSUME SmokeInv, smoke.stage \in {"requesting", "polling"}
  PROVE  /\ smoke \in SmokeStates /\ smoke.check \in 1..LastCheck(smoke.arguments)
         /\ smoke.stage = "polling" <=> smoke.check = 8
         /\ service \in ServiceStates /\ unanswered \in Nat /\ glitches \in 0..MaxGlitches
BY DEF SmokeInv, SmokeShape

(* Something goes wrong.                                                     *)
LEMMA GlitchIs ==
  ASSUME SmokeInv, Glitch
  PROVE  glitches' \in 0..MaxGlitches /\ glitches' # 0
BY SmokeAssumption DEF SmokeInv, SmokeShape, Glitch

(* The call is looked at.                                                    *)
LEMMA SmokeStartStep ==
  ASSUME SmokeInv, SmokeStart
  PROVE  SmokeInv'
<1>1. /\ smoke.stage = "starting" /\ UNCHANGED << service, glitches, unanswered >>
      /\ smoke \in SmokeStates /\ smoke.check = 1 /\ smoke.exit = -1
      /\ smoke.arguments \in SmokeArguments
  BY DEF SmokeStart, SmokeInv, SmokeShape, CallsEnd, SmokeStates
<1>2. /\ smoke.arguments.usage \in {"complete", "missing", "help"}
      /\ smoke.arguments.retries \in Int \union {NotANumber} /\ NotANumber \notin Int
  BY <1>1, SmokeAssumption
<1>3. ASSUME /\ smoke' \in SmokeStates /\ smoke'.arguments = smoke.arguments
             /\ smoke'.check = smoke.check /\ smoke'.attempt = smoke.attempt
             /\ smoke'.failed = smoke.failed /\ smoke'.catalog = smoke.catalog,
             \/ /\ smoke'.stage = "requesting" /\ smoke'.exit = -1
                /\ Runs(smoke.arguments)
             \/ /\ smoke'.stage = "exited" /\ smoke'.exit # -1 /\ ~Runs(smoke.arguments)
                /\ smoke'.exit = 0 => smoke.arguments.usage = "help"
                /\ smoke'.exit = 1 => smoke.arguments.usage = "complete"
      PROVE  SmokeInv'
  <2>1. Executions' = Executions
    BY <1>1 DEF Executions
  <2>4. SmokeShape'
    BY <1>1, <1>3 DEF SmokeInv, SmokeShape
  <2>6. CallsEnd'
    BY <1>1, <1>3, <2>1 DEF SmokeInv, CallsEnd
  <2>7. ExecutionsCounted'
    BY <1>1, <1>3, <2>1 DEF SmokeInv, ExecutionsCounted
  <2>8. Verdicts'
    BY <1>1, <1>3, <2>1 DEF SmokeInv, Verdicts
  <2>9. Blameless'
    BY <1>1, <1>3 DEF SmokeInv, Blameless
  <2> QED
    BY <2>4, <2>6, <2>7, <2>8, <2>9 DEF SmokeInv
<1>4. ASSUME NEW code \in 0..2, smoke' = [smoke EXCEPT !.stage = "exited", !.exit = code],
             ~Runs(smoke.arguments), code = 0 => smoke.arguments.usage = "help",
             code = 1 => smoke.arguments.usage = "complete"
      PROVE  SmokeInv'
  <2>1. code \in -1..2 /\ code # -1
    BY <1>4
  <2>2. smoke' \in SmokeStates
    BY <1>1, <1>4, <2>1 DEF SmokeStates
  <2>3. smoke'.stage = "exited" /\ smoke'.exit = code
    BY <1>1, <1>4 DEF SmokeStates
  <2>4. /\ smoke'.arguments = smoke.arguments /\ smoke'.check = smoke.check
        /\ smoke'.attempt = smoke.attempt /\ smoke'.failed = smoke.failed
        /\ smoke'.catalog = smoke.catalog
    BY <1>1, <1>4 DEF SmokeStates
  <2> QED
    BY <1>3, <1>4, <2>1, <2>2, <2>3, <2>4
<1>5. CASE smoke.arguments.usage = "help"
  <2>1. smoke' = [smoke EXCEPT !.stage = "exited", !.exit = 0] /\ 0 \in 0..2
    BY <1>5 DEF SmokeStart, Exited
  <2>2. ~Runs(smoke.arguments)
    BY <1>5 DEF Runs
  <2> QED
    BY <1>4, <1>5, <2>1, <2>2
<1>6. CASE smoke.arguments.usage = "missing"
  <2>1. smoke' = [smoke EXCEPT !.stage = "exited", !.exit = 2] /\ 2 \in 0..2
    BY <1>6 DEF SmokeStart, Exited
  <2>2. ~Runs(smoke.arguments)
    BY <1>6 DEF Runs
  <2>3. /\ 2 = 0 => smoke.arguments.usage = "help"
        /\ 2 = 1 => smoke.arguments.usage = "complete"
    OBVIOUS
  <2> QED
    BY <1>4, <2>1, <2>2, <2>3
<1>7. CASE smoke.arguments.usage = "complete"
  <2>1. CASE smoke.arguments.retries = NotANumber \/ smoke.arguments.retries < 0
    <3>1. smoke' = [smoke EXCEPT !.stage = "exited", !.exit = 1] /\ 1 \in 0..2
      BY <1>7, <2>1 DEF SmokeStart, Exited
    <3>2. ~Runs(smoke.arguments)
      BY <1>2, <2>1 DEF Runs
    <3>3. /\ 1 = 0 => smoke.arguments.usage = "help"
          /\ 1 = 1 => smoke.arguments.usage = "complete"
      BY <1>7
    <3> QED
      BY <1>4, <3>1, <3>2, <3>3
  <2>2. CASE ~(smoke.arguments.retries = NotANumber \/ smoke.arguments.retries < 0)
    <3>1. smoke' = [smoke EXCEPT !.stage = "requesting"]
      BY <1>7, <2>2 DEF SmokeStart
    <3>2. smoke' \in SmokeStates /\ smoke'.stage = "requesting"
      BY <1>1, <3>1 DEF SmokeStates
    <3>3. /\ smoke'.arguments = smoke.arguments /\ smoke'.check = smoke.check
          /\ smoke'.attempt = smoke.attempt /\ smoke'.failed = smoke.failed
          /\ smoke'.catalog = smoke.catalog /\ smoke'.exit = smoke.exit
      BY <1>1, <3>1 DEF SmokeStates
    <3>4. Runs(smoke.arguments)
      BY <1>2, <1>7, <2>2 DEF Runs
    <3> QED
      BY <1>1, <1>3, <3>2, <3>3, <3>4
  <2> QED
    BY <2>1, <2>2
<1> QED
  BY <1>2, <1>5, <1>6, <1>7

(* A check that executes nothing.                                            *)
LEMMA SmokeAsksStep ==
  ASSUME SmokeInv, SmokeAsks
  PROVE  SmokeInv'
<1>1. /\ smoke.stage = "requesting" /\ CheckOf(smoke) \notin {"completion", "paid"}
      /\ UNCHANGED << service, unanswered >>
  BY DEF SmokeAsks
<1>2. /\ smoke \in SmokeStates /\ smoke.check \in 1..LastCheck(smoke.arguments)
      /\ smoke.check # 7 /\ smoke.check # 8 /\ smoke.check # 12
      /\ CheckOf(smoke) = "catalog" <=> smoke.check = 6
      /\ glitches \in 0..MaxGlitches
  BY <1>1, AtWork, CurrentCheck DEF SmokeInv
<1>3. CASE /\ smoke' = Answered(IF CheckOf(smoke) = "catalog"
                                 THEN [smoke EXCEPT !.catalog = SmokeCatalog] ELSE smoke,
                               "as expected")
           /\ UNCHANGED glitches
  <2> DEFINE s == IF CheckOf(smoke) = "catalog"
                    THEN [smoke EXCEPT !.catalog = SmokeCatalog] ELSE smoke
  <2>1. s \in SmokeStates
    BY <1>2 DEF SmokeStates
  <2>2. /\ s.arguments = smoke.arguments /\ s.check = smoke.check
        /\ s.attempt = smoke.attempt /\ s.failed = smoke.failed /\ s.exit = smoke.exit
    BY <1>2 DEF SmokeStates
  <2>3. s.catalog = IF smoke.check = 6 THEN SmokeCatalog ELSE smoke.catalog
    BY <1>2 DEF SmokeStates
  <2>4. smoke' = Answered(s, "as expected")
    BY <1>3
  <2> HIDE DEF s
  <2>5. smoke' = Recorded(s, TRUE)
    BY <2>4 DEF Answered
  <2>6. IsRecorded(s, smoke', TRUE) /\ smoke'.catalog = s.catalog
    BY <1>2, <2>1, <2>2, <2>5, RecordedIs
  <2>7. IsRecorded(smoke, smoke', TRUE)
    BY <2>2, <2>6 DEF IsRecorded
  <2> QED
    BY <1>1, <1>2, <1>3, <2>3, <2>6, <2>7, RecordsOnly
<1>4. ASSUME Glitch, NEW given, given = "transient" \/ given = "wrong",
             smoke' = Answered(smoke, given)
      PROVE  SmokeInv'
  <2>1. glitches' \in 0..MaxGlitches /\ glitches' # 0
    BY <1>4, GlitchIs
  <2>2. IsRepeated(smoke, smoke') \/ IsRecorded(smoke, smoke', FALSE)
    BY <1>2, <1>4, AnsweredIs
  <2>3. CASE IsRepeated(smoke, smoke')
    BY <1>1, <1>2, <2>1, <2>3, RepeatsOnly
  <2>4. CASE IsRecorded(smoke, smoke', FALSE)
    BY <1>1, <1>2, <2>1, <2>4, RecordsOnly
  <2> QED
    BY <2>2, <2>3, <2>4
<1> QED
  BY <1>3, <1>4 DEF SmokeAsks

(* The requested provider has no model.                                      *)
LEMMA SmokeOmitsStep ==
  ASSUME SmokeInv, SmokeOmits
  PROVE  SmokeInv'
<1>1. /\ smoke.stage = "requesting" /\ CheckOf(smoke) = "paid"
      /\ smoke.arguments.provider \notin smoke.catalog
      /\ smoke' = Recorded(smoke, FALSE) /\ UNCHANGED << service, glitches, unanswered >>
  BY DEF SmokeOmits
<1>2. /\ smoke \in SmokeStates /\ smoke.check \in 1..LastCheck(smoke.arguments)
      /\ smoke.check = 12 /\ glitches \in 0..MaxGlitches
  BY <1>1, AtWork, CurrentCheck DEF SmokeInv
<1>3. IsRecorded(smoke, smoke', FALSE) /\ smoke'.catalog = smoke.catalog
  BY <1>1, <1>2, RecordedIs
<1>4. /\ smoke.stage \in {"requesting", "polling"} /\ smoke.check # 7
      /\ glitches' \in 0..MaxGlitches /\ (glitches' = 0 => glitches = 0)
  BY <1>1, <1>2, <1>3
<1>5. glitches' = 0 =>
        /\ \/ smoke.check = 8
           \/ smoke.check = 12 /\ smoke.arguments.provider \notin smoke.catalog
        /\ smoke'.catalog = smoke.catalog
  BY <1>1, <1>2, <1>3
<1> QED
  BY <1>1, <1>3, <1>4, <1>5, RecordsFailed

(* What an execution changes.                                                *)
LEMMA ExecutesIs ==
  ASSUME SmokeInv, service' = Executes(service),
         CheckOf(smoke) = "completion" \/ CheckOf(smoke) = "paid"
  PROVE  /\ service' \in ServiceStates /\ service'.rule = service.rule
         /\ service'.partition = service.partition /\ service'.stored = service.stored
         /\ CheckOf(smoke) = "completion" =>
              /\ Executions' = Executions + 1
              /\ service.rule = FALSE => service'.paid = service.paid
         /\ CheckOf(smoke) = "paid" =>
              Executions' = Executions /\ service'.paid = service.paid + 1
<1> DEFINE costs == IF CheckOf(smoke) = "paid" \/ service.rule THEN service.paid + 1
                    ELSE service.paid
           waits == IF CheckOf(smoke) = "paid" THEN service.buffered
                    ELSE service.buffered + 1
<1>1. service \in ServiceStates
  BY DEF SmokeInv, SmokeShape
<1>2. /\ service.buffered \in Nat /\ service.stored \in Nat /\ service.dropped \in Nat
      /\ service.paid \in Nat /\ service.rule \in BOOLEAN
  BY <1>1 DEF ServiceStates
<1>3. /\ costs \in Nat /\ waits \in Nat
      /\ CheckOf(smoke) = "paid" => costs = service.paid + 1 /\ waits = service.buffered
      /\ CheckOf(smoke) = "completion" => waits = service.buffered + 1
      /\ CheckOf(smoke) = "completion" /\ service.rule = FALSE => costs = service.paid
  BY <1>2
<1>4. service' = [service EXCEPT !.paid = costs, !.buffered = waits]
  BY DEF Executes
<1> HIDE DEF costs, waits
<1>5. service' \in ServiceStates
  BY <1>1, <1>3, <1>4 DEF ServiceStates
<1>6. /\ service'.rule = service.rule /\ service'.partition = service.partition
      /\ service'.stored = service.stored /\ service'.dropped = service.dropped
  BY <1>1, <1>4 DEF ServiceStates
<1>7. service'.paid = costs /\ service'.buffered = waits
  BY <1>1, <1>4 DEF ServiceStates
<1>8. Executions = service.buffered + service.stored + service.dropped
      /\ Executions' = waits + service.stored + service.dropped
  BY <1>6, <1>7 DEF Executions
<1> QED
  BY <1>2, <1>3, <1>5, <1>6, <1>7, <1>8

(* A completion.                                                             *)
LEMMA SmokeCompletesStep ==
  ASSUME SmokeInv, SmokeCompletes
  PROVE  SmokeInv'
<1>1. /\ smoke.stage = "requesting"
      /\ CheckOf(smoke) = "completion" \/ CheckOf(smoke) = "paid"
  BY DEF SmokeCompletes
<1>2. /\ smoke \in SmokeStates /\ smoke.check \in 1..LastCheck(smoke.arguments)
      /\ CheckOf(smoke) = "completion" <=> smoke.check = 7
      /\ CheckOf(smoke) = "paid" <=> smoke.check = 12
      /\ glitches \in 0..MaxGlitches /\ unanswered \in Nat /\ service \in ServiceStates
      /\ service.paid \in Nat /\ service.rule \in BOOLEAN
  BY <1>1, AtWork, CurrentCheck DEF SmokeInv, ServiceStates
<1>3. CASE /\ smoke' = Answered(smoke, IF service.rule THEN "wrong" ELSE "as expected")
           /\ service' = Executes(service)
           /\ UNCHANGED << glitches, unanswered >>
  <2>1. /\ service' \in ServiceStates /\ service'.rule = service.rule
        /\ service'.partition = service.partition /\ service'.stored = service.stored
        /\ smoke.check = 7 =>
             /\ Executions' = Executions + 1
             /\ service.rule = FALSE => service'.paid = service.paid
        /\ smoke.check = 12 => Executions' = Executions /\ service'.paid = service.paid + 1
    BY <1>1, <1>2, <1>3, ExecutesIs
  <2>2. /\ smoke'.catalog = smoke.catalog
        /\ service.rule = TRUE => IsRecorded(smoke, smoke', FALSE)
        /\ service.rule = FALSE => IsRecorded(smoke, smoke', TRUE)
    <3>1. CASE service.rule = TRUE
      <4>1. smoke' = Recorded(smoke, FALSE)
        BY <1>3, <3>1 DEF Answered
      <4> QED
        BY <1>2, <3>1, <4>1, RecordedIs
    <3>2. CASE service.rule = FALSE
      <4>1. smoke' = Recorded(smoke, TRUE)
        BY <1>3, <3>2 DEF Answered
      <4> QED
        BY <1>2, <3>2, <4>1, RecordedIs
    <3> QED
      BY <1>2, <3>1, <3>2
  <2>5. /\ glitches' \in 0..MaxGlitches /\ (glitches' = 0 => glitches = 0)
        /\ unanswered' \in Nat /\ unanswered <= unanswered'
    <3>1. glitches' = glitches /\ unanswered' = unanswered
      BY <1>3
    <3>2. unanswered \in Nat /\ glitches \in 0..MaxGlitches
      BY <1>2
    <3> QED
      BY <3>1, <3>2
  <2>3. CASE smoke.check = 7
    <3>1. /\ Executions' = Executions \/ Executions' = Executions + 1
          /\ service.rule = FALSE => service'.paid = service.paid
      BY <2>1, <2>3
    <3>2. CASE service.rule = TRUE
      <4>1. IsRecorded(smoke, smoke', FALSE) /\ ~(service.rule = FALSE)
        BY <2>2, <3>2
      <4> QED
        BY <1>1, <2>1, <2>2, <2>3, <2>5, <3>1, <4>1, CompletionMoves
    <3>3. CASE service.rule = FALSE
      <4>1. IsRecorded(smoke, smoke', TRUE)
        BY <2>2, <3>3
      <4> QED
        BY <1>1, <2>1, <2>2, <2>3, <2>5, <3>1, <3>3, <4>1, CompletionMoves
    <3> QED
      BY <1>2, <3>2, <3>3
  <2>4. CASE smoke.check = 12
    <3>1. Executions' = Executions /\ service'.paid = service.paid + 1
      BY <2>1, <2>4
    <3>2. CASE service.rule = TRUE
      <4>1. IsRecorded(smoke, smoke', FALSE) /\ ~(service.rule = FALSE)
        BY <2>2, <3>2
      <4> QED
        BY <1>1, <2>1, <2>2, <2>4, <2>5, <3>1, <4>1, PaidMoves
    <3>3. CASE service.rule = FALSE
      <4>1. IsRecorded(smoke, smoke', TRUE)
        BY <2>2, <3>3
      <4> QED
        BY <1>1, <2>1, <2>2, <2>4, <2>5, <3>1, <4>1, PaidMoves
    <3> QED
      BY <1>2, <3>2, <3>3
  <2> QED
    BY <1>1, <1>2, <2>3, <2>4
<1>4. CASE /\ Glitch /\ smoke' = Answered(smoke, "transient") /\ service' = Executes(service)
           /\ unanswered' = unanswered + 1
  <2>1. /\ service' \in ServiceStates /\ service'.rule = service.rule
        /\ service'.partition = service.partition /\ service'.stored = service.stored
        /\ smoke.check = 7 =>
             /\ Executions' = Executions + 1
             /\ service.rule = FALSE => service'.paid = service.paid
        /\ smoke.check = 12 => Executions' = Executions /\ service'.paid = service.paid + 1
    BY <1>1, <1>2, <1>4, ExecutesIs
  <2>2. /\ smoke'.catalog = smoke.catalog
        /\ IsRepeated(smoke, smoke') \/ IsRecorded(smoke, smoke', FALSE)
    BY <1>2, <1>4, AnsweredIs
  <2>3. glitches' \in 0..MaxGlitches /\ glitches' # 0
    BY <1>4, GlitchIs
  <2>4. unanswered' \in Nat /\ unanswered <= unanswered' /\ unanswered' > 0
    BY <1>2, <1>4
  <2>5. CASE smoke.check = 7
    BY <1>1, <2>1, <2>2, <2>3, <2>4, <2>5, CompletionMoves
  <2>6. CASE smoke.check = 12
    BY <1>1, <2>1, <2>2, <2>3, <2>4, <2>6, PaidMoves
  <2> QED
    BY <1>1, <1>2, <2>5, <2>6
<1>5. ASSUME Glitch, NEW given, given = "transient" \/ given = "wrong",
             smoke' = Answered(smoke, given), UNCHANGED << service, unanswered >>
      PROVE  SmokeInv'
  <2>1. /\ smoke'.catalog = smoke.catalog
        /\ IsRepeated(smoke, smoke') \/ IsRecorded(smoke, smoke', FALSE)
    BY <1>2, <1>5, AnsweredIs
  <2>2. glitches' \in 0..MaxGlitches /\ glitches' # 0
    BY <1>5, GlitchIs
  <2>3. Executions' = Executions /\ unanswered <= unanswered'
    BY <1>2, <1>5 DEF Executions
  <2>4. CASE smoke.check = 7
    BY <1>1, <1>2, <1>5, <2>1, <2>2, <2>3, <2>4, CompletionMoves
  <2>5. CASE smoke.check = 12
    BY <1>1, <1>2, <1>5, <2>1, <2>2, <2>3, <2>5, PaidMoves
  <2> QED
    BY <1>1, <1>2, <2>4, <2>5
<1> QED
  BY <1>3, <1>4, <1>5 DEF SmokeCompletes

(* The script polls for the record, or gives up.                             *)
LEMMA SmokePollsStep ==
  ASSUME SmokeInv, SmokePolls \/ SmokeGivesUp
  PROVE  SmokeInv'
<1>1. smoke.stage = "polling" /\ UNCHANGED << service, unanswered >>
  BY DEF SmokePolls, SmokeGivesUp
<1>2. /\ smoke \in SmokeStates /\ smoke.check \in 1..LastCheck(smoke.arguments)
      /\ smoke.check = 8 /\ glitches \in 0..MaxGlitches /\ service \in ServiceStates
      /\ service.stored \in Nat
  BY <1>1, AtWork DEF ServiceStates
<1>3. /\ glitches' \in 0..MaxGlitches /\ (glitches' = 0 => glitches = 0)
  BY <1>2, GlitchIs DEF SmokePolls, SmokeGivesUp
<1>4. \/ smoke' = Recorded(smoke, TRUE) /\ service.stored > 0
      \/ smoke' = Recorded(smoke, FALSE)
      \/ smoke' = [smoke EXCEPT !.polls = @ + 1]
  BY DEF SmokePolls, SmokeGivesUp
<1>5. CASE smoke' = Recorded(smoke, TRUE) /\ service.stored > 0
  <2>1. IsRecorded(smoke, smoke', TRUE) /\ smoke'.catalog = smoke.catalog
    BY <1>2, <1>5, RecordedIs
  <2>2. /\ smoke.stage \in {"requesting", "polling"} /\ smoke.check # 7
        /\ smoke.check # 12
        /\ glitches' = 0 =>
             smoke'.catalog = IF smoke.check = 6 THEN SmokeCatalog ELSE smoke.catalog
    BY <1>1, <1>2, <2>1
  <2> QED
    BY <1>1, <1>3, <1>5, <2>1, <2>2, RecordsPassed
<1>6. CASE smoke' = Recorded(smoke, FALSE)
  <2>1. IsRecorded(smoke, smoke', FALSE) /\ smoke'.catalog = smoke.catalog
    BY <1>2, <1>6, RecordedIs
  <2> QED
    BY <1>1, <1>2, <1>3, <2>1, RecordsFailed
<1>7. CASE smoke' = [smoke EXCEPT !.polls = @ + 1]
  <2>1. smoke' \in SmokeStates
    <3>1. smoke.polls + 1 \in Nat
      BY <1>2 DEF SmokeStates
    <3> QED
      BY <1>2, <1>7, <3>1 DEF SmokeStates
  <2>2. /\ smoke'.arguments = smoke.arguments /\ smoke'.stage = smoke.stage
        /\ smoke'.check = smoke.check /\ smoke'.attempt = smoke.attempt
        /\ smoke'.catalog = smoke.catalog /\ smoke'.failed = smoke.failed
        /\ smoke'.exit = smoke.exit
    BY <1>2, <1>7 DEF SmokeStates
  <2>3. Executions' = Executions
    BY <1>1 DEF Executions
  <2>4. SmokeShape'
    BY <1>1, <1>3, <2>1, <2>2 DEF SmokeInv, SmokeShape
  <2>5. CallsEnd' /\ ExecutionsCounted' /\ Verdicts' /\ Blameless'
    BY <1>1, <1>3, <2>2, <2>3 DEF SmokeInv, CallsEnd, ExecutionsCounted, Verdicts, Blameless
  <2> QED
    BY <2>4, <2>5 DEF SmokeInv
<1> QED
  BY <1>4, <1>5, <1>6, <1>7

(* The buffer is stored or lost.                                             *)
LEMMA ServiceStep ==
  ASSUME SmokeInv, ServiceFlushes \/ ServiceCrashes
  PROVE  SmokeInv'
<1>1. /\ service \in ServiceStates /\ UNCHANGED << smoke, unanswered >>
      /\ glitches \in 0..MaxGlitches
      /\ service.buffered \in Nat /\ service.stored \in Nat /\ service.dropped \in Nat
      /\ service.partition \in BOOLEAN /\ service.buffered > 0
  BY DEF SmokeInv, SmokeShape, ServiceStates, ServiceFlushes, ServiceCrashes
<1>2. glitches' \in 0..MaxGlitches /\ (glitches' = 0 => glitches = 0)
  BY <1>1, GlitchIs DEF ServiceFlushes, ServiceCrashes
<1>3. /\ service' \in ServiceStates /\ service'.paid = service.paid
      /\ service'.rule = service.rule /\ service'.partition = service.partition
      /\ Executions' = Executions
      /\ service.stored > 0 => service'.stored > 0
      /\ service'.stored > 0 => service.stored > 0 \/ service.partition = TRUE
  <2>1. \/ /\ service.partition = TRUE
            /\ service' = [service EXCEPT !.stored = service.stored + service.buffered,
                                          !.buffered = 0]
         \/ service' = [service EXCEPT !.dropped = service.dropped + service.buffered,
                                       !.buffered = 0]
    BY <1>1 DEF ServiceFlushes, ServiceCrashes
  <2>2. CASE /\ service.partition = TRUE
             /\ service' = [service EXCEPT !.stored = service.stored + service.buffered,
                                           !.buffered = 0]
    <3> DEFINE kept == service.stored + service.buffered
    <3>1. kept \in Nat /\ 0 \in Nat /\ kept > 0
      BY <1>1
    <3>2. service' = [service EXCEPT !.stored = kept, !.buffered = 0]
      BY <2>2
    <3>3. Executions = service.buffered + service.stored + service.dropped
          /\ kept = service.stored + service.buffered
      BY DEF Executions
    <3> HIDE DEF kept
    <3>4. service' \in ServiceStates
      BY <1>1, <3>1, <3>2 DEF ServiceStates
    <3>5. /\ service'.paid = service.paid /\ service'.rule = service.rule
          /\ service'.partition = service.partition /\ service'.dropped = service.dropped
      BY <1>1, <3>2 DEF ServiceStates
    <3>6. service'.stored = kept /\ service'.buffered = 0
      BY <1>1, <3>2 DEF ServiceStates
    <3>7. Executions' = 0 + kept + service.dropped
      BY <3>5, <3>6 DEF Executions
    <3> QED
      BY <1>1, <2>2, <3>1, <3>3, <3>4, <3>5, <3>6, <3>7
  <2>3. CASE service' = [service EXCEPT !.dropped = service.dropped + service.buffered,
                                        !.buffered = 0]
    <3> DEFINE lost == service.dropped + service.buffered
    <3>1. lost \in Nat /\ 0 \in Nat
      BY <1>1
    <3>2. service' = [service EXCEPT !.dropped = lost, !.buffered = 0]
      BY <2>3
    <3>3. Executions = service.buffered + service.stored + service.dropped
          /\ lost = service.dropped + service.buffered
      BY DEF Executions
    <3> HIDE DEF lost
    <3>4. service' \in ServiceStates
      BY <1>1, <3>1, <3>2 DEF ServiceStates
    <3>5. /\ service'.paid = service.paid /\ service'.rule = service.rule
          /\ service'.partition = service.partition /\ service'.stored = service.stored
      BY <1>1, <3>2 DEF ServiceStates
    <3>6. service'.dropped = lost /\ service'.buffered = 0
      BY <1>1, <3>2 DEF ServiceStates
    <3>7. Executions' = 0 + service.stored + lost
      BY <3>5, <3>6 DEF Executions
    <3> QED
      BY <1>1, <3>1, <3>3, <3>4, <3>5, <3>7
  <2> QED
    BY <2>1, <2>2, <2>3
<1>4. SmokeShape'
  BY <1>1, <1>2, <1>3 DEF SmokeInv, SmokeShape
<1>5. CallsEnd' /\ ExecutionsCounted'
  BY <1>1, <1>3 DEF SmokeInv, CallsEnd, ExecutionsCounted
<1>6. Verdicts' /\ Blameless'
  BY <1>1, <1>2, <1>3 DEF SmokeInv, Verdicts, Blameless
<1> QED
  BY <1>4, <1>5, <1>6 DEF SmokeInv

(* Every step of the smoke test keeps the invariant.                         *)
LEMMA SmokeStep == SmokeInv /\ [SmokeNext]_smokeVars => SmokeInv'
<1> SUFFICES ASSUME SmokeInv, [SmokeNext]_smokeVars
             PROVE  SmokeInv'
  OBVIOUS
<1>1. CASE UNCHANGED smokeVars
  BY <1>1 DEF smokeVars, SmokeInv, SmokeShape, CallsEnd, ExecutionsCounted, Verdicts, Blameless, Executions
<1> QED
  BY <1>1, SmokeStartStep, SmokeAsksStep, SmokeOmitsStep, SmokeCompletesStep,
     SmokePollsStep, ServiceStep DEF SmokeNext

(* The verdict follows, clause by clause.                                    *)
LEMMA SmokeHolds == SmokeInv => SmokeVerdictHolds /\ SmokeTypeOK
<1> SUFFICES ASSUME SmokeInv
             PROVE  SmokeVerdictHolds /\ SmokeTypeOK
  OBVIOUS
<1> DEFINE requested == smoke.arguments.provider # NoProvider
<1>1. /\ smoke \in SmokeStates /\ service \in ServiceStates /\ unanswered \in Nat
      /\ smoke.check \in 1..LastCheck(smoke.arguments) /\ glitches \in 0..MaxGlitches
      /\ smoke.stage # "exited" <=> smoke.exit = -1
      /\ Runs(smoke.arguments) => smoke.attempt <= smoke.arguments.retries
      /\ service.stored > 0 => service.partition = TRUE
  BY DEF SmokeInv, SmokeShape
<1>2. /\ service.buffered \in Nat /\ service.stored \in Nat /\ service.dropped \in Nat
      /\ service.paid \in Nat /\ service.rule \in BOOLEAN /\ service.partition \in BOOLEAN
  BY <1>1 DEF ServiceStates
<1>3. /\ smoke.check \in Nat /\ smoke.attempt \in Nat /\ smoke.exit \in -1..2
      /\ smoke.stage \in {"starting", "requesting", "polling", "exited"}
      /\ smoke.arguments \in SmokeArguments
  BY <1>1 DEF SmokeStates
<1>4. /\ smoke.arguments.usage \in {"complete", "missing", "help"}
      /\ smoke.arguments.retries \in Int \union {NotANumber} /\ NotANumber \notin Int
  BY <1>3, SmokeAssumption
<1>5. /\ requested => LastCheck(smoke.arguments) = 12
      /\ ~requested => LastCheck(smoke.arguments) = 11
  BY DEF LastCheck
<1>6. /\ service.buffered + service.stored + service.dropped = Executions /\ Executions \in Nat
  BY <1>2 DEF Executions
<1> HIDE DEF requested
<1>7. ASSUME smoke.exit = 0, smoke.arguments.usage = "complete"
      PROVE  /\ smoke.failed = {} /\ service.stored > 0 /\ service.partition
             /\ ~service.rule
             /\ requested => service.paid > 0
  <2>1. Runs(smoke.arguments)
    BY <1>7 DEF SmokeInv, CallsEnd
  <2>2. smoke.stage = "exited"
    BY <1>1, <1>3, <1>7
  <2>3. smoke.failed = {} /\ smoke.check = LastCheck(smoke.arguments)
    BY <1>7, <2>1, <2>2 DEF SmokeInv, CallsEnd
  <2>4. smoke.check > 8 /\ smoke.check > 7 /\ (requested => smoke.check = 12)
    BY <1>5, <2>3
  <2>5. service.stored > 0
    BY <2>3, <2>4 DEF SmokeInv, Verdicts
  <2>6. service.partition = TRUE /\ service.rule = FALSE
    BY <1>1, <1>2, <2>3, <2>4, <2>5 DEF SmokeInv, Verdicts
  <2>7. requested => service.paid > 0
    BY <2>2, <2>3, <2>4 DEF SmokeInv, Verdicts
  <2> QED
    BY <2>3, <2>5, <2>6, <2>7
<1>8. ASSUME smoke.exit = 1, glitches = 0, smoke.arguments.retries \in Nat
      PROVE  /\ smoke.failed # {} /\ smoke.failed \subseteq {"replay", "completion", "paid"}
             /\ "completion" \in smoke.failed => service.rule
             /\ "paid" \in smoke.failed =>
                  service.rule \/ smoke.arguments.provider \notin SmokeCatalog
  <2>1. Runs(smoke.arguments)
    <3>1. ~Runs(smoke.arguments) => smoke.arguments.usage = "complete"
      BY <1>8 DEF SmokeInv, CallsEnd
    <3> QED
      BY <1>8, <3>1 DEF Runs
  <2>2. smoke.failed # {}
    BY <1>8, <2>1 DEF SmokeInv, CallsEnd
  <2>3. /\ smoke.failed \subseteq {"replay", "completion", "paid"}
        /\ "completion" \in smoke.failed => service.rule = TRUE
        /\ "paid" \in smoke.failed =>
             service.rule = TRUE \/ smoke.arguments.provider \notin SmokeCatalog
    BY <1>8 DEF SmokeInv, Blameless
  <2> QED
    BY <2>2, <2>3
<1>9. smoke.exit = 2 => Executions + service.paid = 0
  <2>1. smoke.exit = 2 => ~Runs(smoke.arguments)
    BY DEF SmokeInv, CallsEnd
  <2>2. ~Runs(smoke.arguments) => Executions = 0 /\ service.paid = 0
    BY DEF SmokeInv, CallsEnd
  <2> QED
    BY <2>1, <2>2
<1>10. Executions > 0 => Executions <= smoke.arguments.retries + 1
  <2>1. Executions > 0 => Runs(smoke.arguments)
    BY DEF SmokeInv, CallsEnd
  <2> QED
    BY <2>1 DEF SmokeInv, ExecutionsCounted
<1>11. Executions > 1 => unanswered > 0
  BY DEF SmokeInv, ExecutionsCounted
<1>12. /\ service.paid > 0 => requested \/ service.rule
       /\ service.paid > 1 => unanswered > 0 \/ service.rule
  <2>1. service.rule = FALSE /\ smoke.check < 12 => service.paid = 0
    BY DEF SmokeInv, ExecutionsCounted
  <2>2. ~requested => smoke.check < 12
    BY <1>1, <1>5
  <2>3. service.rule = FALSE /\ service.paid > 1 => unanswered > 0
    BY DEF SmokeInv, ExecutionsCounted
  <2> QED
    BY <1>2, <2>1, <2>2, <2>3
<1>13. "completion" \in smoke.failed /\ smoke.check > 8 /\ "replay" \notin smoke.failed =>
         unanswered > 0 \/ service.rule
  <2>1. SUFFICES ASSUME "completion" \in smoke.failed, smoke.check > 8,
                        "replay" \notin smoke.failed, service.rule = FALSE
                 PROVE  unanswered > 0
    BY <1>2
  <2>2. service.stored > 0
    BY <2>1 DEF SmokeInv, Verdicts
  <2>3. Executions > 0
    BY <1>2, <1>6, <2>2
  <2> QED
    BY <2>1, <2>3 DEF SmokeInv, Verdicts
<1>14. SmokeVerdictHolds
  <2>1. smoke.exit = 0 /\ smoke.arguments.usage = "complete" =>
          /\ smoke.failed = {} /\ service.stored > 0 /\ service.partition /\ ~service.rule
          /\ requested => service.paid > 0
    BY <1>7
  <2>2. smoke.exit = 1 /\ glitches = 0 /\ smoke.arguments.retries \in Nat =>
          /\ smoke.failed # {} /\ smoke.failed \subseteq {"replay", "completion", "paid"}
          /\ "completion" \in smoke.failed => service.rule
          /\ "paid" \in smoke.failed =>
               service.rule \/ smoke.arguments.provider \notin SmokeCatalog
    BY <1>8
  <2> DEFINE executed == service.buffered + service.stored + service.dropped
  <2>3. executed = Executions
    BY <1>6
  <2> HIDE DEF executed
  <2>4. /\ smoke.exit = 2 => executed + service.paid = 0
        /\ executed > 0 => executed <= smoke.arguments.retries + 1
        /\ executed > 1 => unanswered > 0
    BY <1>9, <1>10, <1>11, <2>3
  <2> USE DEF executed, requested
  <2> QED
    BY ONLY <1>12, <1>13, <2>1, <2>2, <2>4, Zenon DEF SmokeVerdictHolds
<1>15. smoke.check \in 1..Len(ChecksOf(smoke.arguments))
  BY <1>1, ChecksAre
<1>16. smoke.attempt = 0 \/ smoke.attempt \in 0..smoke.arguments.retries
  <2>1. ~Runs(smoke.arguments) => smoke.attempt = 0
    BY DEF SmokeInv, CallsEnd
  <2>2. Runs(smoke.arguments) => smoke.arguments.retries \in Nat
    BY DEF Runs
  <2>3. ASSUME NEW n \in Nat, NEW m \in Nat, n <= m
        PROVE  n \in 0..m
    BY <2>3
  <2> QED
    BY <1>1, <1>3, <2>1, <2>2, <2>3
<1>17. SmokeTypeOK
  BY <1>1, <1>3, <1>15, <1>16 DEF SmokeTypeOK
<1> QED
  BY <1>14, <1>17

-----------------------------------------------------------------------------
(* Sums over finite sets.  MapThenSumSet takes the elements one by one, in   *)
(* an order of its own; the sum does not depend on it.                      *)

(* A family of subsets of a finite set has a smallest member.               *)
LEMMA SmallestSet ==
  ASSUME NEW S, IsFiniteSet(S), NEW C \in SUBSET SUBSET S, C # {}
  PROVE  \E s \in C : \A t \in C : Cardinality(s) <= Cardinality(t)
  <1> DEFINE T == {Cardinality(s) : s \in C}
  <1>1. \A s \in C : Cardinality(s) \in Nat
    BY FS_Subset, FS_CardinalityType
  <1>2. T \in SUBSET Nat /\ T # {}
    BY <1>1
  <1> HIDE DEF T
  <1>3. PICK n \in T : \A m \in T : n <= m
    BY <1>2, LeastNumber
  <1>4. QED
    BY <1>3 DEF T

(* An element of a finite set, and the set without it.                      *)
LEMMA OneLess ==
  ASSUME NEW S, IsFiniteSet(S), NEW s \in SUBSET S, NEW x \in s
  PROVE  /\ s \ {x} \in SUBSET S
         /\ Cardinality(s) \in Nat /\ Cardinality(s \ {x}) \in Nat
         /\ Cardinality(s \ {x}) = Cardinality(s) - 1
  <1>1. IsFiniteSet(s)
    BY FS_Subset
  <1>2. QED
    BY <1>1, FS_RemoveElement, FS_CardinalityType

(* The sum that MapThenSumSet takes: an element, then the rest.             *)
AnElement(s) == CHOOSE x \in s : TRUE

IsSum(v, f, S) ==
  /\ DOMAIN f = SUBSET S
  /\ f[{}] = 0
  /\ \A s \in SUBSET S : f[s] \in Nat
  /\ \A s \in SUBSET S : s # {} => f[s] = v[AnElement(s)] + f[s \ {AnElement(s)}]

Counts(v, S) == \A e \in S : v[e] \in Nat

Recurs(v, f, S) ==
  f = [s \in SUBSET S |->
         IF s = {} THEN 0 ELSE v[AnElement(s)] + f[s \ {AnElement(s)}]]

SumOver(v, S) == (CHOOSE f : Recurs(v, f, S))[S]

(* There is a sum over the subsets of any finite set: one over those of at  *)
(* most n elements extends to those of one more.                            *)
LEMMA SumExists ==
  ASSUME NEW S, IsFiniteSet(S), NEW v, Counts(v, S)
  PROVE  \E f : IsSum(v, f, S) /\ Recurs(v, f, S)
  <1> DEFINE upTo(n) == {s \in SUBSET S : Cardinality(s) <= n}
             isSumTo(f, n) ==
               /\ f \in [upTo(n) -> Nat]
               /\ \A s \in upTo(n) :
                    f[s] = IF s = {} THEN 0 ELSE v[AnElement(s)] + f[s \ {AnElement(s)}]
             bad == {n \in Nat : ~\E f : isSumTo(f, n)}
  <1>1. \A s \in SUBSET S : IsFiniteSet(s) /\ Cardinality(s) \in Nat
    BY FS_Subset, FS_CardinalityType
  <1>2. 0 \notin bad
    <2> DEFINE f == [s \in upTo(0) |-> 0]
    <2>1. \A s \in upTo(0) : s = {}
      BY <1>1, FS_EmptySet
    <2> HIDE DEF upTo
    <2>2. f \in [upTo(0) -> Nat] /\ \A s \in upTo(0) : f[s] = 0
      OBVIOUS
    <2>3. isSumTo(f, 0)
      BY <2>1, <2>2
    <2> HIDE DEF f, isSumTo
    <2>4. QED
      BY <2>3
  <1>3. ASSUME NEW n \in Nat, n + 1 \in bad
        PROVE  n \in bad
    <2>1. SUFFICES ASSUME NEW f, isSumTo(f, n)
                   PROVE  \E g : isSumTo(g, n + 1)
      BY <1>3
    <2> DEFINE step(s) == IF s = {} THEN 0 ELSE v[AnElement(s)] + f[s \ {AnElement(s)}]
               g == [s \in upTo(n + 1) |-> step(s)]
    <2>2. ASSUME NEW s \in upTo(n + 1), s # {}
          PROVE  s \ {AnElement(s)} \in upTo(n) /\ AnElement(s) \in S
      <3>1. AnElement(s) \in s /\ s \in SUBSET S /\ Cardinality(s) <= n + 1
        BY <2>2 DEF AnElement
      <3>2. QED
        BY <3>1, OneLess
    <2>3. upTo(n) \subseteq upTo(n + 1)
      BY <1>1
    <2> HIDE DEF upTo
    <2>4. /\ f \in [upTo(n) -> Nat]
          /\ \A s \in upTo(n) : f[s] = step(s)
      BY <2>1
    <2>5. \A s \in upTo(n + 1) : step(s) \in Nat
      BY <2>2, <2>4 DEF Counts
    <2> HIDE DEF step
    <2>6. /\ g \in [upTo(n + 1) -> Nat]
          /\ \A s \in upTo(n + 1) : g[s] = step(s)
      BY <2>5
    <2> HIDE DEF g
    <2>7. \A s \in upTo(n) : g[s] = f[s]
      BY <2>3, <2>4, <2>6
    <2>8. \A s \in upTo(n + 1) :
            g[s] = IF s = {} THEN 0 ELSE v[AnElement(s)] + g[s \ {AnElement(s)}]
      BY <2>2, <2>6, <2>7 DEF step
    <2>9. QED
      BY <2>6, <2>8
  <1> HIDE DEF upTo, isSumTo
  <1>4. bad = {}
    <2>1. SUFFICES ASSUME bad # {} PROVE FALSE
      OBVIOUS
    <2>2. bad \in SUBSET Nat
      OBVIOUS
    <2> HIDE DEF bad
    <2>3. PICK n \in bad : \A m \in bad : n <= m
      BY <2>1, <2>2, LeastNumber
    <2>4. n \in Nat /\ n # 0
      BY <1>2, <2>2, <2>3
    <2>5. n - 1 \in Nat /\ (n - 1) + 1 = n
      BY <2>4
    <2>6. n - 1 \in bad
      BY <1>3, <2>3, <2>5
    <2>7. QED
      BY <2>3, <2>4, <2>6
  <1>5. Cardinality(S) \in Nat
    BY FS_CardinalityType
  <1>6. PICK f : isSumTo(f, Cardinality(S))
    BY <1>4, <1>5
  <1>7. upTo(Cardinality(S)) = SUBSET S
    BY FS_Subset DEF upTo
  <1>8. \A s \in SUBSET S :
          f[s] = IF s = {} THEN 0 ELSE v[AnElement(s)] + f[s \ {AnElement(s)}]
    BY <1>6, <1>7 DEF isSumTo
  <1>9. f \in [SUBSET S -> Nat]
    BY <1>6, <1>7 DEF isSumTo
  <1>10. f[{}] = 0
    BY <1>8
  <1>11. IsSum(v, f, S)
    BY <1>8, <1>9, <1>10 DEF IsSum
  <1>12. Recurs(v, f, S)
    BY <1>8, <1>9 DEF Recurs
  <1>13. QED
    BY <1>11, <1>12

(* There is one such sum only.                                              *)
LEMMA SumIsOne ==
  ASSUME NEW S, IsFiniteSet(S), NEW v, Counts(v, S), NEW f, IsSum(v, f, S), NEW g, Recurs(v, g, S)
  PROVE  \A s \in SUBSET S : g[s] = f[s]
  <1> DEFINE C == {s \in SUBSET S : f[s] # g[s]}
  <1>1. SUFFICES ASSUME C # {} PROVE FALSE
    OBVIOUS
  <1>2. PICK s \in C : \A t \in C : Cardinality(s) <= Cardinality(t)
    BY <1>1, SmallestSet
  <1>3. \A t \in SUBSET S :
          g[t] = IF t = {} THEN 0 ELSE v[AnElement(t)] + g[t \ {AnElement(t)}]
    BY DEF Recurs
  <1>4. s # {} /\ s \in SUBSET S
    BY <1>2, <1>3 DEF IsSum
  <1>5. AnElement(s) \in s
    BY <1>4 DEF AnElement
  <1>6. s \ {AnElement(s)} \in SUBSET S /\ s \ {AnElement(s)} \notin C
    <2>1. /\ s \ {AnElement(s)} \in SUBSET S
          /\ Cardinality(s) \in Nat /\ Cardinality(s \ {AnElement(s)}) \in Nat
          /\ Cardinality(s \ {AnElement(s)}) = Cardinality(s) - 1
      BY <1>4, <1>5, OneLess
    <2>2. QED
      BY <1>2, <2>1
  <1>7. f[s] = g[s]
    BY <1>3, <1>4, <1>6 DEF IsSum
  <1>8. QED
    BY <1>2, <1>7

(* Whichever element is taken first, the sum is the same.                   *)
LEMMA SumTakesEach ==
  ASSUME NEW S, IsFiniteSet(S), NEW v, Counts(v, S), NEW f, IsSum(v, f, S)
  PROVE  \A s \in SUBSET S : \A x \in s : f[s] = v[x] + f[s \ {x}]
  <1> DEFINE C == {s \in SUBSET S : \E x \in s : f[s] # v[x] + f[s \ {x}]}
  <1>1. SUFFICES ASSUME C # {} PROVE FALSE
    OBVIOUS
  <1>2. PICK s \in C : \A t \in C : Cardinality(s) <= Cardinality(t)
    BY <1>1, SmallestSet
  <1>3. PICK x \in s : f[s] # v[x] + f[s \ {x}]
    BY <1>2
  <1> DEFINE c == AnElement(s)
  <1>4. s \in SUBSET S /\ c \in s /\ f[s] = v[c] + f[s \ {c}]
    BY <1>2, <1>3 DEF IsSum, AnElement
  <1>5. c # x
    BY <1>3, <1>4
  <1>6. \A y \in s : s \ {y} \in SUBSET S /\ s \ {y} \notin C
    <2>1. TAKE y \in s
    <2>2. /\ s \ {y} \in SUBSET S
          /\ Cardinality(s) \in Nat /\ Cardinality(s \ {y}) \in Nat
          /\ Cardinality(s \ {y}) = Cardinality(s) - 1
      BY <1>4, OneLess
    <2> HIDE DEF C
    <2>3. QED
      BY <1>2, <2>2
  <1> HIDE DEF c
  <1>7. f[s \ {c}] = v[x] + f[(s \ {c}) \ {x}]
    BY <1>4, <1>5, <1>6
  <1>8. f[s \ {x}] = v[c] + f[(s \ {x}) \ {c}]
    BY <1>4, <1>5, <1>6
  <1>9. (s \ {c}) \ {x} = (s \ {x}) \ {c} /\ (s \ {x}) \ {c} \in SUBSET S
    BY <1>4
  <1> DEFINE rest == f[(s \ {x}) \ {c}]
  <1>10. rest \in Nat /\ v[c] \in Nat /\ v[x] \in Nat
    BY <1>4, <1>9 DEF IsSum, Counts
  <1>11. f[s \ {c}] = v[x] + rest /\ f[s \ {x}] = v[c] + rest
    BY <1>7, <1>8, <1>9
  <1> HIDE DEF rest
  <1>12. f[s] = v[c] + (v[x] + rest) /\ f[s] # v[x] + (v[c] + rest)
    BY <1>3, <1>4, <1>11
  <1>13. \A a, b, n \in Nat : a + (b + n) = b + (a + n)
    OBVIOUS
  <1>14. QED
    BY <1>10, <1>12, <1>13

(* A sum over a subset is the value there of the sum over the whole.        *)
LEMMA SumOfPart ==
  ASSUME NEW S, IsFiniteSet(S), NEW v, Counts(v, S), NEW f, IsSum(v, f, S), NEW t \in SUBSET S
  PROVE  SumOver(v, t) = f[t]
  <1>1. IsFiniteSet(t) /\ Counts(v, t)
    BY FS_Subset DEF Counts
  <1>2. IsSum(v, [s \in SUBSET t |-> f[s]], t)
    <2> DEFINE g == [s \in SUBSET t |-> f[s]]
    <2>1. DOMAIN g = SUBSET t /\ \A s \in SUBSET t : g[s] = f[s] /\ s \in SUBSET S
      OBVIOUS
    <2> HIDE DEF g
    <2>2. ASSUME NEW s \in SUBSET t, s # {}
          PROVE  g[s] = v[AnElement(s)] + g[s \ {AnElement(s)}]
      <3>1. s \ {AnElement(s)} \in SUBSET t
        OBVIOUS
      <3>2. s \in SUBSET S /\ f[s] = v[AnElement(s)] + f[s \ {AnElement(s)}]
        BY <2>1, <2>2 DEF IsSum
      <3>3. QED
        BY <2>1, <3>1, <3>2
    <2>3. g[{}] = 0 /\ \A s \in SUBSET t : g[s] \in Nat
      BY <2>1 DEF IsSum
    <2>4. IsSum(v, g, t)
      BY <2>1, <2>2, <2>3 DEF IsSum
    <2>5. QED
      BY <2>4 DEF g
  <1>3. \E h : Recurs(v, h, t)
    BY <1>1, SumExists
  <1> DEFINE h == CHOOSE k : Recurs(v, k, t)
  <1>4. Recurs(v, h, t)
    BY <1>3
  <1> HIDE DEF h
  <1>5. h[t] = f[t]
    BY <1>1, <1>2, <1>4, SumIsOne
  <1>6. QED
    BY <1>5 DEF SumOver, h

(* What there is to know of a sum.                                          *)
LEMMA TotalIs ==
  ASSUME NEW S, IsFiniteSet(S), NEW v, Counts(v, S)
  PROVE  /\ SumOver(v, S) \in Nat
         /\ SumOver(v, {}) = 0
         /\ \A x \in S : SumOver(v, S) = v[x] + SumOver(v, S \ {x})
  <1>1. PICK f : IsSum(v, f, S)
    BY SumExists
  <1>2. \A t \in SUBSET S : SumOver(v, t) = f[t]
    BY <1>1, SumOfPart
  <1>3. \A x \in S : S \ {x} \in SUBSET S /\ f[S] = v[x] + f[S \ {x}]
    BY <1>1, SumTakesEach
  <1>4. QED
    BY <1>1, <1>2, <1>3 DEF IsSum

(* A family of subsets that has the empty one, and with every set without   *)
(* one of its elements the set, has them all.                               *)
LEMMA AllSubsets ==
  ASSUME NEW S, IsFiniteSet(S), NEW G \in SUBSET SUBSET S, {} \in G,
         \A s \in SUBSET S : \A x \in s : s \ {x} \in G => s \in G
  PROVE  \A s \in SUBSET S : s \in G
  <1> DEFINE C == (SUBSET S) \ G
  <1>1. SUFFICES ASSUME C # {} PROVE FALSE
    OBVIOUS
  <1>2. C \in SUBSET SUBSET S
    OBVIOUS
  <1>3. PICK s \in C : \A t \in C : Cardinality(s) <= Cardinality(t)
    BY <1>1, <1>2, SmallestSet
  <1>4. s \in SUBSET S /\ s # {} /\ s \notin G
    BY <1>3
  <1>5. PICK x \in s : TRUE
    BY <1>4
  <1>6. /\ s \ {x} \in SUBSET S
        /\ Cardinality(s) \in Nat /\ Cardinality(s \ {x}) \in Nat
        /\ Cardinality(s \ {x}) = Cardinality(s) - 1
    BY <1>4, <1>5, OneLess
  <1>7. s \ {x} \notin C
    <2> HIDE DEF C
    <2>1. QED
      BY <1>3, <1>6
  <1>8. QED
    BY <1>4, <1>5, <1>6, <1>7

(* Equal terms, equal sums.                                                 *)
LEMMA SameTotal ==
  ASSUME NEW S, NEW v, NEW w, \A e \in S : v[e] = w[e]
  PROVE  SumOver(v, S) = SumOver(w, S)
  <1>1. \A s \in SUBSET S : s # {} => v[AnElement(s)] = w[AnElement(s)]
    BY DEF AnElement
  <1>2. \A f : Recurs(v, f, S) <=> Recurs(w, f, S)
    BY <1>1 DEF Recurs
  <1>3. QED
    BY <1>2, Zenon DEF SumOver

(* Taking an element of a part of a finite set.                             *)
LEMMA TotalTakes ==
  ASSUME NEW S, IsFiniteSet(S), NEW v, Counts(v, S), NEW s \in SUBSET S
  PROVE  /\ SumOver(v, s) \in Nat /\ SumOver(v, {}) = 0
         /\ \A x \in s : SumOver(v, s) = v[x] + SumOver(v, s \ {x})
  <1>1. IsFiniteSet(s) /\ Counts(v, s)
    BY FS_Subset DEF Counts
  <1>2. QED
    BY <1>1, TotalIs

(* The sum over two sets that have nothing in common.                       *)
LEMMA TotalJoins ==
  ASSUME NEW S, IsFiniteSet(S), NEW v, Counts(v, S), NEW a \in SUBSET S, NEW b \in SUBSET S,
         a \cap b = {}
  PROVE  SumOver(v, a \union b) = SumOver(v, a) + SumOver(v, b)
  <1> DEFINE G == {s \in SUBSET b : SumOver(v, a \union s) = SumOver(v, a) + SumOver(v, s)}
  <1>1. IsFiniteSet(b) /\ G \in SUBSET SUBSET b
    BY FS_Subset
  <1>2. {} \in G
    <2>1. a \union {} = a /\ SumOver(v, a) \in Nat /\ SumOver(v, {}) = 0
      BY TotalTakes
    <2>2. QED
      BY <2>1
  <1>3. ASSUME NEW s \in SUBSET b, NEW x \in s, s \ {x} \in G
        PROVE  s \in G
    <2>1. s \in SUBSET S /\ a \union s \in SUBSET S /\ x \in a \union s /\ x \notin a /\ x \in S
      OBVIOUS
    <2>2. (a \union s) \ {x} = a \union (s \ {x})
      BY <2>1
    <2>3. SumOver(v, s) = v[x] + SumOver(v, s \ {x})
      BY <2>1, TotalTakes
    <2>4. SumOver(v, a \union s) = v[x] + SumOver(v, a \union (s \ {x}))
      BY <2>1, <2>2, TotalTakes
    <2>5. SumOver(v, a \union (s \ {x})) = SumOver(v, a) + SumOver(v, s \ {x})
      BY <1>3
    <2>6. SumOver(v, a) \in Nat /\ SumOver(v, s \ {x}) \in Nat /\ v[x] \in Nat
      BY <2>1, TotalTakes DEF Counts
    <2>7. SumOver(v, a \union s) = SumOver(v, a) + SumOver(v, s)
      BY <2>3, <2>4, <2>5, <2>6
    <2>8. QED
      BY <2>7
  <1> HIDE DEF G
  <1>4. \A s \in SUBSET b : s \in G
    BY <1>1, <1>2, <1>3, AllSubsets
  <1>5. QED
    BY <1>4 DEF G

(* A part sums up to no more than the whole.                                *)
LEMMA TotalGrows ==
  ASSUME NEW S, IsFiniteSet(S), NEW v, Counts(v, S), NEW b \in SUBSET S, NEW a \in SUBSET b
  PROVE  SumOver(v, a) <= SumOver(v, b)
  <1>1. a \in SUBSET S /\ b \ a \in SUBSET S /\ a \cap (b \ a) = {} /\ a \union (b \ a) = b
    OBVIOUS
  <1>2. SumOver(v, b) = SumOver(v, a) + SumOver(v, b \ a)
    BY <1>1, TotalJoins
  <1>3. SumOver(v, a) \in Nat /\ SumOver(v, b \ a) \in Nat
    BY <1>1, TotalTakes
  <1>4. QED
    BY <1>2, <1>3

(* The sum of sums.                                                         *)
LEMMA TotalAdds ==
  ASSUME NEW S, IsFiniteSet(S), NEW v, Counts(v, S), NEW w, Counts(w, S), NEW u,
         \A e \in S : u[e] = v[e] + w[e]
  PROVE  SumOver(u, S) = SumOver(v, S) + SumOver(w, S)
  <1> DEFINE G == {s \in SUBSET S : SumOver(u, s) = SumOver(v, s) + SumOver(w, s)}
  <1>1. G \in SUBSET SUBSET S /\ Counts(u, S)
    BY DEF Counts
  <1>2. {} \in G
    <2>1. SumOver(u, {}) = 0 /\ SumOver(v, {}) = 0 /\ SumOver(w, {}) = 0
      BY <1>1, TotalTakes
    <2>2. QED
      BY <2>1
  <1>3. ASSUME NEW s \in SUBSET S, NEW x \in s, s \ {x} \in G
        PROVE  s \in G
    <2> DEFINE r == s \ {x}
    <2>1. r \in SUBSET S /\ x \in S
      OBVIOUS
    <2>2. /\ SumOver(u, s) = u[x] + SumOver(u, r) /\ SumOver(v, s) = v[x] + SumOver(v, r)
          /\ SumOver(w, s) = w[x] + SumOver(w, r)
      BY <1>1, TotalTakes
    <2>3. SumOver(u, r) = SumOver(v, r) + SumOver(w, r)
      BY <1>3
    <2>4. SumOver(v, r) \in Nat /\ SumOver(w, r) \in Nat
      BY <2>1, TotalTakes
    <2>5. u[x] = v[x] + w[x] /\ v[x] \in Nat /\ w[x] \in Nat
      BY <2>1 DEF Counts
    <2> HIDE DEF r
    <2>6. SumOver(u, s) = SumOver(v, s) + SumOver(w, s)
      BY <2>2, <2>3, <2>4, <2>5
    <2>7. QED
      BY <2>6
  <1> HIDE DEF G
  <1>4. \A s \in SUBSET S : s \in G
    BY <1>1, <1>2, <1>3, AllSubsets
  <1>5. QED
    BY <1>4 DEF G

(* Counting sums up ones.                                                   *)
LEMMA TotalCounts ==
  ASSUME NEW S, IsFiniteSet(S), NEW T, NEW v, \A e \in S : v[e] = IF e \in T THEN 1 ELSE 0
  PROVE  SumOver(v, S) = Cardinality(S \cap T)
  <1> DEFINE G == {s \in SUBSET S : SumOver(v, s) = Cardinality(s \cap T)}
  <1>1. G \in SUBSET SUBSET S /\ Counts(v, S)
    BY DEF Counts
  <1>2. {} \in G
    <2>1. SumOver(v, {}) = 0 /\ {} \cap T = {} /\ Cardinality({}) = 0
      BY <1>1, TotalTakes, FS_EmptySet
    <2>2. SumOver(v, {}) = Cardinality({} \cap T)
      BY <2>1
    <2>3. QED
      BY <2>2
  <1>3. ASSUME NEW s \in SUBSET S, NEW x \in s, s \ {x} \in G
        PROVE  s \in G
    <2> DEFINE r == s \ {x}
    <2>1. SumOver(v, s) = v[x] + SumOver(v, r)
      BY <1>1, TotalTakes
    <2>2. SumOver(v, r) = Cardinality(r \cap T)
      BY <1>3
    <2>3. IsFiniteSet(s \cap T) /\ Cardinality(s \cap T) \in Nat
      BY FS_Subset, FS_CardinalityType
    <2>4. CASE x \in T
      <3>1. r \cap T = (s \cap T) \ {x} /\ x \in s \cap T
        BY <2>4
      <3> HIDE DEF r, G
      <3>2. Cardinality(r \cap T) = Cardinality(s \cap T) - 1
        <4>1. /\ Cardinality((s \cap T) \ {x}) \in Nat
              /\ Cardinality(s \cap T) = Cardinality((s \cap T) \ {x}) + 1
          <5> DEFINE u == s \cap T
          <5>1. IsFiniteSet(u) /\ x \in u
            BY <2>3, <3>1
          <5> HIDE DEF u
          <5>2. Cardinality(u \ {x}) = Cardinality(u) - 1 /\ Cardinality(u) \in Nat
                  /\ Cardinality(u \ {x}) \in Nat
            BY <5>1, FS_RemoveElement, FS_CardinalityType
          <5>3. Cardinality(u) = Cardinality(u \ {x}) + 1
            BY <5>2
          <5>4. QED
            BY <5>2, <5>3 DEF u
        <4>2. QED
          BY <3>1, <4>1
      <3>3. SumOver(v, s) = Cardinality(s \cap T)
        BY <2>1, <2>2, <2>3, <2>4, <3>2
      <3>4. QED
        BY <3>3 DEF G
    <2>5. CASE x \notin T
      <3>1. r \cap T = s \cap T
        BY <2>5
      <3> HIDE DEF r
      <3>2. SumOver(v, s) = Cardinality(s \cap T)
        BY <2>1, <2>2, <2>3, <2>5, <3>1
      <3>3. QED
        BY <3>2
    <2>6. QED
      BY <2>4, <2>5
  <1> HIDE DEF G
  <1>4. \A s \in SUBSET S : s \in G
    BY <1>1, <1>2, <1>3, AllSubsets
  <1>5. QED
    BY <1>4 DEF G

(* The records of a group.                                                  *)
GroupOf(S, key, k) == {e \in S : key[e] = k}

(* What the groups sum up to is what their members do.                      *)
LEMMA TotalOfGroups ==
  ASSUME NEW S, IsFiniteSet(S), NEW v, Counts(v, S), NEW key, NEW K, IsFiniteSet(K),
         \A e \in S : key[e] \in K,
         NEW sums, \A k \in K : sums[k] = SumOver(v, GroupOf(S, key, k))
  PROVE  Counts(sums, K) /\ SumOver(sums, K) = SumOver(v, S)
  <1> DEFINE members(J) == {e \in S : key[e] \in J}
             G == {J \in SUBSET K : SumOver(sums, J) = SumOver(v, members(J))}
  <1>1. G \in SUBSET SUBSET K /\ Counts(sums, K)
    <2>1. \A k \in K : GroupOf(S, key, k) \in SUBSET S
      BY DEF GroupOf
    <2>2. QED
      BY <2>1, TotalTakes DEF Counts
  <1>2. {} \in G
    <2>1. members({}) = {}
      OBVIOUS
    <2>2. SumOver(sums, {}) = 0 /\ SumOver(v, {}) = 0
      BY <1>1, TotalTakes
    <2> HIDE DEF members
    <2>3. QED
      BY <2>1, <2>2
  <1>3. ASSUME NEW J \in SUBSET K, NEW k \in J, J \ {k} \in G
        PROVE  J \in G
    <2>1. /\ members(J \ {k}) \in SUBSET S /\ GroupOf(S, key, k) \in SUBSET S
          /\ members(J \ {k}) \cap GroupOf(S, key, k) = {}
          /\ members(J \ {k}) \union GroupOf(S, key, k) = members(J)
      BY DEF GroupOf
    <2> HIDE DEF members, G
    <2>2. SumOver(v, members(J)) = SumOver(v, members(J \ {k})) + SumOver(v, GroupOf(S, key, k))
      <3> DEFINE a == members(J \ {k})
                 b == GroupOf(S, key, k)
      <3>1. a \in SUBSET S /\ b \in SUBSET S /\ a \cap b = {} /\ a \union b = members(J)
        BY <2>1
      <3> HIDE DEF a, b
      <3>2. SumOver(v, a \union b) = SumOver(v, a) + SumOver(v, b)
        BY <3>1, TotalJoins
      <3>3. SumOver(v, members(J)) = SumOver(v, a) + SumOver(v, b)
        BY <3>1, <3>2
      <3>4. QED
        BY <3>3 DEF a, b
    <2>3. SumOver(sums, J) = sums[k] + SumOver(sums, J \ {k})
      BY <1>1, TotalTakes
    <2>4. SumOver(sums, J \ {k}) = SumOver(v, members(J \ {k}))
      BY <1>3 DEF G
    <2>5. sums[k] = SumOver(v, GroupOf(S, key, k))
      OBVIOUS
    <2>6. SumOver(v, members(J \ {k})) \in Nat /\ SumOver(v, GroupOf(S, key, k)) \in Nat
      BY <2>1, TotalTakes
    <2>7. SumOver(sums, J) = SumOver(v, members(J))
      BY <2>2, <2>3, <2>4, <2>5, <2>6
    <2>8. QED
      BY <2>7 DEF G
  <1>4. members(K) = S
    OBVIOUS
  <1> HIDE DEF G
  <1>5. \A J \in SUBSET K : J \in G
    BY <1>1, <1>2, <1>3, AllSubsets
  <1>6. SumOver(sums, K) = SumOver(v, members(K))
    BY <1>5 DEF G
  <1> HIDE DEF members
  <1>7. QED
    BY <1>1, <1>4, <1>6

(* As many values as there are elements, at most.                           *)
LEMMA FiniteImage ==
  ASSUME NEW S, IsFiniteSet(S), NEW key
  PROVE  IsFiniteSet({key[e] : e \in S})
  <1> DEFINE T == {key[e] : e \in S}
             g == [e \in S |-> key[e]]
  <1>1. g \in Surjection(S, T)
    BY DEF Surjection
  <1>2. QED
    BY <1>1, FS_Surjection

-----------------------------------------------------------------------------
(* The reports (Reports) and the Cost page (CostFigures). What the records  *)
(* add up to.                                                               *)

Fields == {"requestCount", "inputTokens", "outputTokens", "estimatedCostUsd", "actualCostUsd",
           "pendingActualCostCount"}

(* What a record adds to an aggregate.                                      *)
Weight(f) ==
  [ e \in DOMAIN Observed |->
      CASE f = "requestCount" -> 1
        [] f = "inputTokens" -> Observed[e].inputTokens
        [] f = "outputTokens" -> Observed[e].outputTokens
        [] f = "estimatedCostUsd" -> Observed[e].costUsd
        [] f = "actualCostUsd" ->
             IF Given(Observed[e].actualCostUsd) THEN Observed[e].actualCostUsd ELSE 0
        [] f = "pendingActualCostCount" ->
             IF Given(Observed[e].actualCostUsd) THEN 0 ELSE 1 ]

Stored == DOMAIN Observed

(* What records add is counted in natural numbers.                          *)
LEMMA WeightsCount == IsFiniteSet(Stored) /\ \A f \in Fields : Counts(Weight(f), Stored)
  <1>1. \A f \in Fields : Counts(Weight(f), Stored)
    <2>1. SUFFICES ASSUME NEW f \in Fields, NEW e \in Stored PROVE Weight(f)[e] \in Nat
      BY DEF Counts
    <2>2. IsObservation(Observed[e]) /\ e \in DOMAIN Observed
      BY ReportsAssumption DEF Stored
    <2>3. QED
      BY <2>2 DEF Weight, Fields, IsObservation, Stored
  <1>2. QED
    BY <1>1, ReportsAssumption DEF Stored

(* An aggregate of records is the sum of what they add.                     *)
LEMMA AggregateIs ==
  ASSUME NEW S \in SUBSET Stored
  PROVE  /\ DOMAIN Aggregate(S) = Fields
         /\ \A f \in Fields : Aggregate(S)[f] = SumOver(Weight(f), S)
  <1>1. \A s \in SUBSET S : s # {} => AnElement(s) \in DOMAIN Observed
    BY DEF AnElement, Stored
  <1>2. IsFiniteSet(S)
    BY WeightsCount, FS_Subset
  <1>3. DOMAIN Aggregate(S) = Fields
    BY Zenon DEF Aggregate, Fields
  <1>4. Aggregate(S)["requestCount"] = SumOver(Weight("requestCount"), S)
    <2>1. \A e \in S : Weight("requestCount")[e] = IF e \in S THEN 1 ELSE 0
      BY DEF Weight, Stored
    <2>2. S \cap S = S
      OBVIOUS
    <2>3. SumOver(Weight("requestCount"), S) = Cardinality(S)
      BY <1>2, <2>1, <2>2, TotalCounts
    <2>4. QED
      BY <2>3 DEF Aggregate
  <1>5. Aggregate(S)["pendingActualCostCount"] = SumOver(Weight("pendingActualCostCount"), S)
    <2> DEFINE T == {e \in S : ~Given(Observed[e].actualCostUsd)}
               w == Weight("pendingActualCostCount")
    <2>1. \A e \in S : w[e] = IF e \in T THEN 1 ELSE 0
      BY DEF Weight, Stored
    <2>2. S \cap T = T
      OBVIOUS
    <2>3. Aggregate(S)["pendingActualCostCount"] = Cardinality(T)
      BY Zenon DEF Aggregate
    <2> HIDE DEF T, w
    <2>4. SumOver(w, S) = Cardinality(T)
      BY <1>2, <2>1, <2>2, TotalCounts
    <2>5. QED
      BY <2>3, <2>4 DEF w
  <1>6. Aggregate(S)["inputTokens"] = SumOver(Weight("inputTokens"), S)
    <2> DEFINE R(f) == f = [s \in SUBSET S |-> IF s = {} THEN 0
                              ELSE Observed[AnElement(s)].inputTokens + f[s \ {AnElement(s)}]]
    <2>1. Aggregate(S)["inputTokens"] = (CHOOSE f : R(f))[S]
      BY DEF Aggregate, MapThenSumSet, MapThenFoldSet, AnElement
    <2>2. \A f : R(f) <=> Recurs(Weight("inputTokens"), f, S)
      <3>1. \A s \in SUBSET S : s # {} =>
              Weight("inputTokens")[AnElement(s)] = Observed[AnElement(s)].inputTokens
        BY <1>1 DEF Weight
      <3>2. QED
        BY <3>1 DEF Recurs
    <2> HIDE DEF R
    <2>3. QED
      BY <2>1, <2>2, Zenon DEF SumOver
  <1>7. Aggregate(S)["outputTokens"] = SumOver(Weight("outputTokens"), S)
    <2> DEFINE R(f) == f = [s \in SUBSET S |-> IF s = {} THEN 0
                              ELSE Observed[AnElement(s)].outputTokens + f[s \ {AnElement(s)}]]
    <2>1. Aggregate(S)["outputTokens"] = (CHOOSE f : R(f))[S]
      BY DEF Aggregate, MapThenSumSet, MapThenFoldSet, AnElement
    <2>2. \A f : R(f) <=> Recurs(Weight("outputTokens"), f, S)
      <3>1. \A s \in SUBSET S : s # {} =>
              Weight("outputTokens")[AnElement(s)] = Observed[AnElement(s)].outputTokens
        BY <1>1 DEF Weight
      <3>2. QED
        BY <3>1 DEF Recurs
    <2> HIDE DEF R
    <2>3. QED
      BY <2>1, <2>2, Zenon DEF SumOver
  <1>8. Aggregate(S)["estimatedCostUsd"] = SumOver(Weight("estimatedCostUsd"), S)
    <2> DEFINE R(f) == f = [s \in SUBSET S |-> IF s = {} THEN 0
                              ELSE Observed[AnElement(s)].costUsd + f[s \ {AnElement(s)}]]
    <2>1. Aggregate(S)["estimatedCostUsd"] = (CHOOSE f : R(f))[S]
      BY DEF Aggregate, MapThenSumSet, MapThenFoldSet, AnElement
    <2>2. \A f : R(f) <=> Recurs(Weight("estimatedCostUsd"), f, S)
      <3>1. \A s \in SUBSET S : s # {} =>
              Weight("estimatedCostUsd")[AnElement(s)] = Observed[AnElement(s)].costUsd
        BY <1>1 DEF Weight
      <3>2. QED
        BY <3>1 DEF Recurs
    <2> HIDE DEF R
    <2>3. QED
      BY <2>1, <2>2, Zenon DEF SumOver
  <1>9. Aggregate(S)["actualCostUsd"] = SumOver(Weight("actualCostUsd"), S)
    <2> DEFINE R(f) == f = [s \in SUBSET S |-> IF s = {} THEN 0
                              ELSE (IF Given(Observed[AnElement(s)].actualCostUsd)
                                      THEN Observed[AnElement(s)].actualCostUsd ELSE 0)
                                     + f[s \ {AnElement(s)}]]
    <2>1. Aggregate(S)["actualCostUsd"] = (CHOOSE f : R(f))[S]
      BY DEF Aggregate, MapThenSumSet, MapThenFoldSet, AnElement
    <2>2. \A f : R(f) <=> Recurs(Weight("actualCostUsd"), f, S)
      <3>1. \A s \in SUBSET S : s # {} =>
              Weight("actualCostUsd")[AnElement(s)]
                                 = (IF Given(Observed[AnElement(s)].actualCostUsd)
                                      THEN Observed[AnElement(s)].actualCostUsd ELSE 0)
        BY <1>1 DEF Weight
      <3>2. QED
        BY <3>1 DEF Recurs
    <2> HIDE DEF R
    <2>3. QED
      BY <2>1, <2>2, Zenon DEF SumOver
  <1>10. QED
    BY <1>3, <1>4, <1>5, <1>6, <1>7, <1>8, <1>9 DEF Fields

(* A column of a summary or of a series adds up to what all the records do. *)
LEMMA ColumnIs ==
  ASSUME NEW groups, NEW field
  PROVE  Column(groups, field) = SumOver([g \in DOMAIN groups |-> groups[g][field]], DOMAIN groups)
  <1> DEFINE S == DOMAIN groups
             v == [g \in S |-> groups[g][field]]
             R(f) == f = [s \in SUBSET S |-> IF s = {} THEN 0
                            ELSE groups[AnElement(s)][field] + f[s \ {AnElement(s)}]]
  <1>1. Column(groups, field) = (CHOOSE f : R(f))[S]
    BY DEF Column, MapThenSumSet, MapThenFoldSet, AnElement
  <1>2. \A s \in SUBSET S : s # {} => v[AnElement(s)] = groups[AnElement(s)][field]
    BY DEF AnElement
  <1> HIDE DEF v, S
  <1>3. \A f : R(f) <=> Recurs(v, f, S)
    BY <1>2 DEF Recurs
  <1> HIDE DEF R
  <1>4. Column(groups, field) = SumOver(v, S)
    BY <1>1, <1>3, Zenon DEF SumOver
  <1>5. QED
    BY <1>4 DEF v, S

(* The groups of a partition of records add up to all of them.              *)
LEMMA ColumnOfGroups ==
  ASSUME NEW S \in SUBSET Stored, NEW key, NEW groups, IsFiniteSet(DOMAIN groups),
         \A e \in S : key[e] \in DOMAIN groups,
         \A k \in DOMAIN groups : groups[k] = Aggregate(GroupOf(S, key, k))
  PROVE  \A f \in Fields : Column(groups, f) = SumOver(Weight(f), S)
  <1> TAKE f \in Fields
  <1> DEFINE K == DOMAIN groups
             sums == [k \in K |-> groups[k][f]]
  <1>1. IsFiniteSet(S) /\ Counts(Weight(f), S)
    BY WeightsCount, FS_Subset DEF Counts
  <1>2. \A k \in K : sums[k] = SumOver(Weight(f), GroupOf(S, key, k))
    <2>1. TAKE k \in K
    <2>2. GroupOf(S, key, k) \in SUBSET Stored
      BY DEF GroupOf
    <2>3. groups[k] = Aggregate(GroupOf(S, key, k)) /\ sums[k] = groups[k][f]
      OBVIOUS
    <2>4. QED
      BY <2>2, <2>3, AggregateIs
  <1>3. Column(groups, f) = SumOver(sums, K)
    BY ColumnIs
  <1> DEFINE w == Weight(f)
  <1>4. IsFiniteSet(K) /\ \A e \in S : key[e] \in K
    OBVIOUS
  <1>5. Counts(w, S) /\ \A k \in K : sums[k] = SumOver(w, GroupOf(S, key, k))
    BY <1>1, <1>2
  <1> HIDE DEF w, sums, K
  <1>6. SumOver(sums, K) = SumOver(w, S)
    BY <1>1, <1>4, <1>5, TotalOfGroups
  <1>7. QED
    BY <1>3, <1>6 DEF w

(* A filter takes records away.                                             *)
LEMMA FilteredStored ==
  ASSUME NEW S \in SUBSET Stored, NEW q
  PROVE  Filtered(S, q) \in SUBSET Stored
  BY DEF Filtered

(* The rows of the providers add up to the records.                         *)
LEMMA ByProviderAddsUp ==
  ASSUME NEW S \in SUBSET Stored
  PROVE  \A f \in Fields : Column(ByProvider(S), f) = SumOver(Weight(f), S)
  <1> DEFINE key == [e \in Stored |-> Observed[e].providerId]
             K == {Observed[e].providerId : e \in S}
  <1>1. IsFiniteSet(S)
    BY WeightsCount, FS_Subset
  <1>2. IsFiniteSet(K)
    <2>1. K = {key[e] : e \in S}
      OBVIOUS
    <2>2. IsFiniteSet({key[e] : e \in S})
      BY <1>1, FiniteImage
    <2>3. QED
      BY <2>1, <2>2
  <1>3. DOMAIN ByProvider(S) = K /\ \A e \in S : key[e] \in K
    BY DEF ByProvider
  <1>4. \A k \in K : ByProvider(S)[k] = Aggregate(GroupOf(S, key, k))
    <2>1. TAKE k \in K
    <2>2. GroupOf(S, key, k) = {e \in S : Observed[e].providerId = k}
      BY DEF GroupOf
    <2>3. QED
      BY <2>2 DEF ByProvider
  <1> HIDE DEF key, K
  <1>5. QED
    BY <1>2, <1>3, <1>4, ColumnOfGroups

(* The rows of the models add up to the records.                            *)
LEMMA ByModelAddsUp ==
  ASSUME NEW S \in SUBSET Stored
  PROVE  \A f \in Fields : Column(ByModel(S), f) = SumOver(Weight(f), S)
  <1> DEFINE key == [e \in Stored |-> ModelOf(e)]
             K == {ModelOf(e) : e \in S}
  <1>1. IsFiniteSet(S)
    BY WeightsCount, FS_Subset
  <1>2. IsFiniteSet(K)
    <2>1. K = {key[e] : e \in S}
      OBVIOUS
    <2>2. IsFiniteSet({key[e] : e \in S})
      BY <1>1, FiniteImage
    <2>3. QED
      BY <2>1, <2>2
  <1>3. DOMAIN ByModel(S) = K /\ \A e \in S : key[e] \in K
    BY DEF ByModel
  <1>4. \A k \in K : ByModel(S)[k] = Aggregate(GroupOf(S, key, k))
    <2>1. TAKE k \in K
    <2>2. GroupOf(S, key, k) = {e \in S : ModelOf(e) = k}
      BY DEF GroupOf
    <2>3. QED
      BY <2>2 DEF ByModel
  <1> HIDE DEF key, K
  <1>5. QED
    BY <1>2, <1>3, <1>4, ColumnOfGroups

(* Later instants have later buckets.                                       *)
LEMMA BucketsFollow ==
  ASSUME NEW s \in Int, NEW t \in Int, s <= t
  PROVE  BucketOf(s) \in Int /\ BucketOf(t) \in Int /\ BucketOf(s) <= BucketOf(t)
  <1>1. BucketLength \in Nat \ {0}
    BY ReportsAssumption
  <1>2. BucketOf(s) \in Int /\ BucketOf(t) \in Int
    BY <1>1 DEF BucketOf
  <1>3. BucketOf(s) <= BucketOf(t)
    BY <1>1 DEF BucketOf
  <1>4. QED
    BY <1>2, <1>3

(* The buckets of a series add up to the records it counts.                 *)
LEMMA BucketsAddUp ==
  ASSUME NEW S \in SUBSET Stored, NEW q \in Queries, NEW from \in Int
  PROVE  /\ Between(S, from, q) \in SUBSET Stored
         /\ DOMAIN Bucketed(S, from, q) = BucketOf(from)..BucketOf(q.until - 1)
         /\ \A f \in Fields :
              Column(Bucketed(S, from, q), f) = SumOver(Weight(f), Between(S, from, q))
  <1> DEFINE key == [e \in Stored |-> BucketOf(Observed[e].receivedAt)]
             K == BucketOf(from)..BucketOf(q.until - 1)
             B == Between(S, from, q)
             groups == Bucketed(S, from, q)
  <1>1. B \in SUBSET Stored
    BY DEF Between
  <1>2. from \in Int /\ q.until \in Int /\ q.until - 1 \in Int
    BY ReportsAssumption
  <1>3. DOMAIN groups = K
    BY DEF Bucketed
  <1>4. IsFiniteSet(K)
    <2>1. BucketOf(from) \in Int /\ BucketOf(q.until - 1) \in Int
      BY <1>2, BucketsFollow
    <2>2. QED
      BY <2>1, FS_Interval
  <1>5. \A e \in B : key[e] \in K
    <2>1. TAKE e \in B
    <2>2. /\ e \in Stored /\ Observed[e].receivedAt >= from
          /\ Observed[e].receivedAt < q.until
      BY DEF Between
    <2>3. Observed[e].receivedAt \in Int
      BY <2>2, ReportsAssumption DEF Stored, IsObservation
    <2>4. from <= Observed[e].receivedAt /\ Observed[e].receivedAt <= q.until - 1
      BY <1>2, <2>2, <2>3
    <2>5. /\ BucketOf(from) <= BucketOf(Observed[e].receivedAt)
          /\ BucketOf(Observed[e].receivedAt) <= BucketOf(q.until - 1)
          /\ BucketOf(Observed[e].receivedAt) \in Int
          /\ BucketOf(from) \in Int /\ BucketOf(q.until - 1) \in Int
      BY <1>2, <2>3, <2>4, BucketsFollow
    <2>6. key[e] = BucketOf(Observed[e].receivedAt)
      BY <2>2
    <2> HIDE DEF key
    <2>7. QED
      BY <2>5, <2>6
  <1>6. \A k \in K : groups[k] = Aggregate(GroupOf(B, key, k))
    <2>1. TAKE k \in K
    <2>2. GroupOf(B, key, k) = {e \in B : BucketOf(Observed[e].receivedAt) = k}
      BY <1>1 DEF GroupOf
    <2>3. QED
      BY <2>2 DEF Bucketed
  <1> HIDE DEF key, K, B, groups
  <1>7. \A f \in Fields : Column(groups, f) = SumOver(Weight(f), B)
    BY <1>1, <1>3, <1>4, <1>5, <1>6, ColumnOfGroups
  <1>8. QED
    BY <1>1, <1>3, <1>7 DEF B, groups, K

(* Sums of what records add are natural numbers ...                         *)
LEMMA TotalsAre ==
  ASSUME NEW S \in SUBSET Stored
  PROVE  \A f \in Fields : SumOver(Weight(f), S) \in Nat
  <1>1. TAKE f \in Fields
  <1>2. IsFiniteSet(S) /\ Counts(Weight(f), S)
    BY WeightsCount, FS_Subset DEF Counts
  <1>3. QED
    BY <1>2, TotalIs

(* ... that no further record makes smaller ...                             *)
LEMMA TotalsGrow ==
  ASSUME NEW S \in SUBSET Stored, NEW T \in SUBSET S
  PROVE  \A f \in Fields : SumOver(Weight(f), T) <= SumOver(Weight(f), S)
  <1>1. TAKE f \in Fields
  <1>2. IsFiniteSet(S) /\ Counts(Weight(f), S) /\ S \in SUBSET S
    BY WeightsCount, FS_Subset DEF Counts
  <1>3. QED
    BY <1>2, TotalGrows

(* ... and those of two sets of records are added.                          *)
LEMMA TotalsJoin ==
  ASSUME NEW S \in SUBSET Stored, NEW T \in SUBSET Stored, S \cap T = {}
  PROVE  \A f \in Fields :
           SumOver(Weight(f), S \union T) = SumOver(Weight(f), S) + SumOver(Weight(f), T)
  <1>1. TAKE f \in Fields
  <1>2. IsFiniteSet(Stored) /\ Counts(Weight(f), Stored)
    BY WeightsCount
  <1>3. QED
    BY <1>2, TotalJoins

(* The series has what the summary has, without the records received at     *)
(* "until".                                                                 *)
LEMMA SeriesLacks ==
  ASSUME NEW S \in SUBSET Stored, NEW q \in Queries, q.since < q.until
  PROVE  \A f \in Fields :
           Column(Timeseries(S, q), f)
             + Aggregate({e \in Filtered(S, q) : Observed[e].receivedAt = q.until})[f]
           = Aggregate(Filtered(S, q))[f]
  <1> DEFINE B == Between(S, q.since, q)
             U == {e \in Filtered(S, q) : Observed[e].receivedAt = q.until}
             F == Filtered(S, q)
  <1>1. q.since \in Int /\ q.until \in Int /\ \A e \in S : Observed[e].receivedAt \in Int
    BY ReportsAssumption DEF Stored, IsObservation
  <1>2. B \in SUBSET Stored /\ U \in SUBSET Stored /\ F \in SUBSET Stored
    BY DEF Between, Filtered
  <1>3. B \cap U = {}
    BY <1>1 DEF Between, Filtered
  <1>4. B \union U = F
    BY <1>1 DEF Between, Filtered
  <1>5. \A f \in Fields : Column(Timeseries(S, q), f) = SumOver(Weight(f), B)
    BY <1>1, BucketsAddUp DEF Timeseries
  <1>6. \A f \in Fields : Aggregate(U)[f] = SumOver(Weight(f), U)
                          /\ Aggregate(F)[f] = SumOver(Weight(f), F)
    BY <1>2, AggregateIs
  <1> HIDE DEF B, U, F
  <1>7. \A f \in Fields : SumOver(Weight(f), F) = SumOver(Weight(f), B) + SumOver(Weight(f), U)
    BY <1>2, <1>3, <1>4, TotalsJoin
  <1>8. \A f \in Fields : Column(Timeseries(S, q), f) + Aggregate(U)[f] = Aggregate(F)[f]
    BY <1>5, <1>6, <1>7
  <1>9. QED
    BY <1>8 DEF B, U, F

(* The records of bucket b that a series from "from" on counts.             *)
InBucket(S, from, q, b) == {e \in Between(S, from, q) : BucketOf(Observed[e].receivedAt) = b}

(* A count is above zero where there is a record.                           *)
LEMMA SomeCounted ==
  ASSUME NEW S \in SUBSET Stored
  PROVE  /\ Aggregate(S).requestCount \in Nat
         /\ Aggregate(S).requestCount > 0 <=> S # {}
  <1>1. IsFiniteSet(S)
    BY WeightsCount, FS_Subset
  <1>2. Cardinality(S) \in Nat /\ (Cardinality(S) = 0 <=> S = {})
    BY <1>1, FS_CardinalityType, FS_EmptySet
  <1>3. Aggregate(S).requestCount = Cardinality(S)
    BY Zenon DEF Aggregate
  <1>4. QED
    BY <1>2, <1>3

(* The sum over a window frame.                                             *)
LEMMA FrameSum ==
  ASSUME NEW S, NEW series, NEW f, \A d \in S : series[d].estimatedCostUsd = f[d]
  PROVE  MapThenSumSet(LAMBDA d : series[d].estimatedCostUsd, S) = SumOver(f, S)
  <1> DEFINE R(g) == g = [s \in SUBSET S |-> IF s = {} THEN 0
                            ELSE series[AnElement(s)].estimatedCostUsd + g[s \ {AnElement(s)}]]
  <1>1. MapThenSumSet(LAMBDA d : series[d].estimatedCostUsd, S) = (CHOOSE g : R(g))[S]
    BY DEF MapThenSumSet, MapThenFoldSet, AnElement
  <1>2. \A s \in SUBSET S : s # {} => f[AnElement(s)] = series[AnElement(s)].estimatedCostUsd
    BY DEF AnElement
  <1>3. \A g : R(g) <=> Recurs(f, g, S)
    BY <1>2 DEF Recurs
  <1> HIDE DEF R
  <1>4. QED
    BY <1>1, <1>3, Zenon DEF SumOver

Back(q) == q.since - Lookback * BucketLength

(* The series of the anomalies begins earlier than the one flags.           *)
LEMMA BackIsBefore ==
  ASSUME NEW q \in Queries
  PROVE  /\ q.since \in Int /\ q.until \in Int /\ q.now \in Int
         /\ Back(q) \in Int /\ Back(q) <= q.since
  <1>1. q.since \in Int /\ q.until \in Int /\ q.now \in Int
        /\ Lookback \in Nat /\ BucketLength \in Nat
    BY ReportsAssumption
  <1>2. Lookback * BucketLength \in Nat
    BY <1>1
  <1> DEFINE n == Lookback * BucketLength
  <1>3. n \in Nat /\ Back(q) = q.since - n
    BY <1>2 DEF Back
  <1> HIDE DEF n
  <1>4. QED
    BY <1>1, <1>3

(* What is known of a bucket that is flagged.                               *)
LEMMA Flagged ==
  ASSUME NEW S, NEW q, NEW b \in DOMAIN Anomalies(S, q)
  PROVE  LET series == Bucketed(S, Back(q), q)
             frame == Frame(series, b)
             sum == MapThenSumSet(LAMBDA d : series[d].estimatedCostUsd, frame)
         IN  /\ b \in DOMAIN series /\ b >= BucketOf(q.since) /\ b < BucketOf(q.now)
             /\ sum > 0 /\ series[b].requestCount > 0
             /\ Deviates(series[b].estimatedCostUsd, sum, Cardinality(frame),
                         AnomalyConfig.relThreshold)
             /\ Anomalies(S, q)[b].estimatedCostUsd = series[b].estimatedCostUsd
             /\ Anomalies(S, q)[b].historicalBucketCount = Cardinality(frame)
  BY DEF Anomalies, Back

(* One bucket of a series.                                                  *)
LEMMA BucketIs ==
  ASSUME NEW S \in SUBSET Stored, NEW q \in Queries, NEW from \in Int,
         NEW b \in BucketOf(from)..BucketOf(q.until - 1)
  PROVE  /\ InBucket(S, from, q, b) \in SUBSET Stored
         /\ Bucketed(S, from, q)[b] = Aggregate(InBucket(S, from, q, b))
         /\ Bucketed(S, from, q)[b].estimatedCostUsd
              = SumOver(Weight("estimatedCostUsd"), InBucket(S, from, q, b))
         /\ Bucketed(S, from, q)[b].estimatedCostUsd \in Nat
         /\ Bucketed(S, from, q)[b].requestCount \in Nat
         /\ Bucketed(S, from, q)[b].requestCount > 0 <=> InBucket(S, from, q, b) # {}
  <1> DEFINE B == InBucket(S, from, q, b)
  <1>1. B \in SUBSET Stored
    BY DEF InBucket, Between
  <1>2. Bucketed(S, from, q)[b] = Aggregate(B)
    BY DEF InBucket, Bucketed
  <1> HIDE DEF B
  <1>3. /\ Aggregate(B).estimatedCostUsd = SumOver(Weight("estimatedCostUsd"), B)
        /\ Aggregate(B).estimatedCostUsd \in Nat
    <2>1. "estimatedCostUsd" \in Fields
      BY DEF Fields
    <2>2. QED
      BY <1>1, <2>1, AggregateIs, TotalsAre
  <1>4. Aggregate(B).requestCount \in Nat /\ (Aggregate(B).requestCount > 0 <=> B # {})
    BY <1>1, SomeCounted
  <1>5. QED
    BY <1>1, <1>2, <1>3, <1>4 DEF B

(* Records of buckets that the series has from "since" on.                  *)
LEMMA SameBucket ==
  ASSUME NEW S \in SUBSET Stored, NEW q \in Queries, NEW b \in Int, b >= BucketOf(q.since)
  PROVE  /\ InBucket(S, q.since, q, b) \in SUBSET InBucket(S, Back(q), q, b)
         /\ b > BucketOf(q.since) => InBucket(S, q.since, q, b) = InBucket(S, Back(q), q, b)
  <1>1. /\ q.since \in Int /\ q.until \in Int /\ Back(q) \in Int /\ Back(q) <= q.since
        /\ \A e \in S : Observed[e].receivedAt \in Int
    BY BackIsBefore, ReportsAssumption DEF Stored, IsObservation
  <1>2. InBucket(S, q.since, q, b) \in SUBSET InBucket(S, Back(q), q, b)
    BY <1>1 DEF InBucket, Between
  <1>3. ASSUME b > BucketOf(q.since), NEW e \in InBucket(S, Back(q), q, b)
        PROVE  e \in InBucket(S, q.since, q, b)
    <2>1. e \in Between(S, Back(q), q) /\ BucketOf(Observed[e].receivedAt) = b /\ e \in S
      BY DEF InBucket, Between
    <2>2. Observed[e].receivedAt \in Int
      BY <1>1, <2>1
    <2>3. ~(Observed[e].receivedAt <= q.since)
      <3>1. SUFFICES ASSUME Observed[e].receivedAt <= q.since PROVE FALSE
        OBVIOUS
      <3>2. b <= BucketOf(q.since) /\ BucketOf(q.since) \in Int
        BY <1>1, <2>1, <2>2, <3>1, BucketsFollow
      <3>3. QED
        BY <1>3, <3>2
    <2>4. Observed[e].receivedAt >= q.since
      BY <1>1, <2>2, <2>3
    <2>5. QED
      BY <2>1, <2>4 DEF InBucket, Between
  <1>4. QED
    BY <1>2, <1>3

(* The records a bucket before b counts are those of the bucket.            *)
SpentIn(S, q, d) ==
  { e \in S :
      /\ BucketOf(Observed[e].receivedAt) = d
      /\ Observed[e].receivedAt >= q.since - Lookback * BucketLength
      /\ Given(q.providerId) => Observed[e].providerId = q.providerId }

(* A complete bucket is the same whether "until" bounds it or not.          *)
LEMMA EarlierBucket ==
  ASSUME NEW S \in SUBSET Stored, NEW q \in Queries, NEW d \in Int, d < BucketOf(q.until - 1)
  PROVE  /\ SpentIn(S, q, d) = InBucket(S, Back(q), q, d)
         /\ SpentIn(S, q, d) # {} => d \in BucketOf(Back(q))..BucketOf(q.until - 1)
  <1>1. /\ q.since \in Int /\ q.until \in Int /\ Back(q) \in Int /\ q.until - 1 \in Int
        /\ \A e \in S : Observed[e].receivedAt \in Int
    BY BackIsBefore, ReportsAssumption DEF Stored, IsObservation
  <1>2. ASSUME NEW e \in S, BucketOf(Observed[e].receivedAt) = d
        PROVE  Observed[e].receivedAt < q.until
    <2>1. ~(q.until - 1 <= Observed[e].receivedAt)
      <3>1. SUFFICES ASSUME q.until - 1 <= Observed[e].receivedAt PROVE FALSE
        OBVIOUS
      <3>2. BucketOf(q.until - 1) <= d /\ BucketOf(q.until - 1) \in Int
        BY <1>1, <1>2, <3>1, BucketsFollow
      <3>3. QED
        BY <3>2
    <2>2. QED
      BY <1>1, <2>1
  <1>3. SpentIn(S, q, d) = InBucket(S, Back(q), q, d)
    BY <1>2 DEF SpentIn, InBucket, Between, Back
  <1>4. ASSUME NEW e \in SpentIn(S, q, d)
        PROVE  d \in BucketOf(Back(q))..BucketOf(q.until - 1)
    <2>1. e \in S /\ BucketOf(Observed[e].receivedAt) = d /\ Observed[e].receivedAt >= Back(q)
      BY DEF SpentIn, Back
    <2>2. Back(q) <= Observed[e].receivedAt /\ Observed[e].receivedAt \in Int
      BY <1>1, <2>1
    <2>3. BucketOf(Back(q)) <= d /\ BucketOf(Back(q)) \in Int
      BY <1>1, <2>1, <2>2, BucketsFollow
    <2>4. BucketOf(q.until - 1) \in Int
      BY <1>1, BucketsFollow
    <2>5. QED
      BY <2>3, <2>4
  <1>5. QED
    BY <1>3, <1>4

(* Positive deviation.                                                      *)
LEMMA DeviationIsPositive ==
  ASSUME NEW x \in Nat, NEW n \in Nat, NEW sum \in Nat, sum > 0,
         Deviates(x, sum, n, AnomalyConfig.relThreshold)
  PROVE  x * n > sum
  <1> DEFINE p == x * n
             r == AnomalyConfig.relThreshold
  <1>1. p \in Nat /\ r \in Nat /\ r > 0
    BY ReportsAssumption
  <1>2. (p - sum) * 100 >= sum * r
    BY DEF Deviates
  <1> HIDE DEF p, r
  <1>3. sum * r > 0
    BY <1>1
  <1> DEFINE m == sum * r
  <1>4. m \in Int /\ m > 0 /\ (p - sum) * 100 >= m
    BY <1>1, <1>2, <1>3
  <1> HIDE DEF m
  <1>5. p > sum
    BY <1>1, <1>4
  <1>6. QED
    BY <1>5 DEF p

(* The active buckets before b, and what they cost.                         *)
PastOf(S, q, b) == {d \in (b - Lookback)..(b - 1) : SpentIn(S, q, d) # {}}

SpentBefore(S, q, b) ==
  MapThenSumSet(LAMBDA d : Aggregate(SpentIn(S, q, d)).estimatedCostUsd, PastOf(S, q, b))

(* An anomaly costs more than each bucket before it on average, and what    *)
(* its bucket in the series does, but for the first.                        *)
LEMMA AnomaliesStand ==
  ASSUME NEW S \in SUBSET Stored, NEW q \in Queries, q.since < q.until,
         NEW b \in DOMAIN Anomalies(S, q)
  PROVE  LET cost == Anomalies(S, q)[b].estimatedCostUsd
         IN  /\ b < BucketOf(q.now)
             /\ IF b = BucketOf(q.since) THEN cost >= Timeseries(S, q)[b].estimatedCostUsd
                ELSE cost = Timeseries(S, q)[b].estimatedCostUsd
             /\ Anomalies(S, q)[b].historicalBucketCount = Cardinality(PastOf(S, q, b))
             /\ cost * Cardinality(PastOf(S, q, b)) > SpentBefore(S, q, b)
             /\ b # BucketOf(q.since) =>
                  b \in DOMAIN Timeseries(S, q) /\ Timeseries(S, q)[b].requestCount > 0
  <1> DEFINE series == Bucketed(S, Back(q), q)
             frame == Frame(series, b)
             sum == MapThenSumSet(LAMBDA d : series[d].estimatedCostUsd, frame)
             past == PastOf(S, q, b)
             w == Weight("estimatedCostUsd")
             last == BucketOf(q.until - 1)
             spent == [d \in past |-> SumOver(w, InBucket(S, Back(q), q, d))]
  <1>1. /\ b \in DOMAIN series /\ b >= BucketOf(q.since) /\ b < BucketOf(q.now)
        /\ sum > 0 /\ series[b].requestCount > 0
        /\ Deviates(series[b].estimatedCostUsd, sum, Cardinality(frame), AnomalyConfig.relThreshold)
        /\ Anomalies(S, q)[b].estimatedCostUsd = series[b].estimatedCostUsd
        /\ Anomalies(S, q)[b].historicalBucketCount = Cardinality(frame)
    BY Flagged
  <1>2. /\ q.since \in Int /\ q.until \in Int /\ Back(q) \in Int /\ Back(q) <= q.since
        /\ q.since <= q.until - 1 /\ q.until - 1 \in Int /\ Back(q) <= q.until - 1
    BY BackIsBefore
  <1>3. /\ BucketOf(q.since) \in Int /\ last \in Int /\ BucketOf(Back(q)) \in Int
        /\ BucketOf(Back(q)) <= BucketOf(q.since) /\ BucketOf(q.since) <= last
    BY <1>2, BucketsFollow
  <1>4. DOMAIN series = BucketOf(Back(q))..last
        /\ DOMAIN Timeseries(S, q) = BucketOf(q.since)..last
    BY <1>2, BucketsAddUp DEF Timeseries
  <1>5. b \in Int /\ b \in BucketOf(Back(q))..last /\ b \in BucketOf(q.since)..last
    BY <1>1, <1>3, <1>4
  <1>6. Lookback \in Nat
    BY ReportsAssumption
  <1> HIDE DEF series, sum, frame, last
  (* The window frame is the past.                                          *)
  <1>7. ASSUME NEW d \in (b - Lookback)..(b - 1)
        PROVE  /\ d \in Int /\ d < last /\ SpentIn(S, q, d) = InBucket(S, Back(q), q, d)
               /\ d \in past <=> d \in DOMAIN series /\ series[d].requestCount > 0
    <2>1. d \in Int /\ d < last
      BY <1>3, <1>5, <1>6
    <2>2. /\ SpentIn(S, q, d) = InBucket(S, Back(q), q, d)
          /\ SpentIn(S, q, d) # {} => d \in DOMAIN series
      BY <1>4, <2>1, EarlierBucket DEF last
    <2>3. d \in DOMAIN series => (series[d].requestCount > 0 <=> InBucket(S, Back(q), q, d) # {})
      BY <1>2, <1>4, BucketIs DEF series, last
    <2>4. d \in past <=> SpentIn(S, q, d) # {}
      BY DEF PastOf
    <2>5. QED
      BY <2>1, <2>2, <2>3, <2>4
  <1>8. frame = past
    <2> HIDE DEF past
    <2>1. past \subseteq (b - Lookback)..(b - 1)
      BY DEF past, PastOf
    <2>2. \A d : d \in frame <=>
                   /\ d \in DOMAIN series /\ d \in (b - Lookback)..(b - 1)
                   /\ series[d].requestCount > 0
      BY DEF frame, Frame
    <2>3. QED
      BY <1>7, <2>1, <2>2
  <1>9. \A d \in past : /\ SpentIn(S, q, d) = InBucket(S, Back(q), q, d)
                        /\ d \in DOMAIN series
                        /\ series[d].estimatedCostUsd = spent[d] /\ spent[d] \in Nat
    <2>1. TAKE d \in past
    <2>2. d \in (b - Lookback)..(b - 1)
      BY DEF PastOf
    <2>3. SpentIn(S, q, d) = InBucket(S, Back(q), q, d) /\ d \in DOMAIN series
      BY <1>7, <2>2
    <2>4. /\ series[d].estimatedCostUsd = SumOver(w, InBucket(S, Back(q), q, d))
          /\ series[d].estimatedCostUsd \in Nat
      BY <1>2, <1>4, <2>3, BucketIs DEF series, last
    <2>5. QED
      BY <2>3, <2>4
  <1>10. IsFiniteSet(past) /\ Cardinality(past) \in Nat
    <2>1. IsFiniteSet((b - Lookback)..(b - 1))
      BY <1>5, <1>6, FS_Interval
    <2>2. past \in SUBSET ((b - Lookback)..(b - 1))
      BY DEF PastOf
    <2> HIDE DEF past
    <2>3. QED
      BY <2>1, <2>2, FS_Subset, FS_CardinalityType
  <1> HIDE DEF past, spent
  <1>11. sum = SumOver(spent, past) /\ sum \in Nat
    <2>1. sum = SumOver(spent, past)
      BY <1>8, <1>9, FrameSum DEF sum
    <2>2. Counts(spent, past)
      BY <1>9 DEF Counts
    <2>3. QED
      BY <1>10, <2>1, <2>2, TotalIs
  <1>12. SpentBefore(S, q, b) = sum
    <2> DEFINE R(g) == g = [s \in SUBSET past |-> IF s = {} THEN 0
                  ELSE Aggregate(SpentIn(S, q, AnElement(s))).estimatedCostUsd
                         + g[s \ {AnElement(s)}]]
    <2>1. SpentBefore(S, q, b) = (CHOOSE g : R(g))[past]
      BY DEF SpentBefore, past, MapThenSumSet, MapThenFoldSet, AnElement
    <2>2. \A d \in past : Aggregate(SpentIn(S, q, d)).estimatedCostUsd = spent[d]
      <3>1. TAKE d \in past
      <3>2. SpentIn(S, q, d) \in SUBSET Stored
        BY DEF SpentIn
      <3>3. "estimatedCostUsd" \in Fields
        BY DEF Fields
      <3>4. Aggregate(SpentIn(S, q, d)).estimatedCostUsd = SumOver(w, SpentIn(S, q, d))
        BY <3>2, <3>3, AggregateIs
      <3>5. QED
        BY <1>9, <3>4 DEF spent
    <2>3. \A s \in SUBSET past : s # {} =>
            spent[AnElement(s)] = Aggregate(SpentIn(S, q, AnElement(s))).estimatedCostUsd
      BY <2>2 DEF AnElement
    <2>4. \A g : R(g) <=> Recurs(spent, g, past)
      BY <2>3 DEF Recurs
    <2> HIDE DEF R
    <2>5. (CHOOSE g : R(g))[past] = SumOver(spent, past)
      BY <2>4, Zenon DEF SumOver
    <2>6. QED
      BY <1>11, <2>1, <2>5
  <1> DEFINE cost == Anomalies(S, q)[b].estimatedCostUsd
  <1>13. cost \in Nat /\ cost = series[b].estimatedCostUsd
         /\ cost = SumOver(w, InBucket(S, Back(q), q, b))
    BY <1>1, <1>2, <1>5, BucketIs DEF series, last
  <1>14. cost * Cardinality(past) > sum
    <2>1. Deviates(cost, sum, Cardinality(past), AnomalyConfig.relThreshold) /\ sum > 0
      BY <1>1, <1>8, <1>13
    <2> HIDE DEF cost
    <2>2. QED
      BY <1>10, <1>11, <1>13, <2>1, DeviationIsPositive
  <1>15. /\ Timeseries(S, q)[b].estimatedCostUsd = SumOver(w, InBucket(S, q.since, q, b))
         /\ InBucket(S, q.since, q, b) \in SUBSET InBucket(S, Back(q), q, b)
         /\ InBucket(S, Back(q), q, b) \in SUBSET Stored
         /\ b > BucketOf(q.since) => InBucket(S, q.since, q, b) = InBucket(S, Back(q), q, b)
         /\ Timeseries(S, q)[b].requestCount > 0 <=> InBucket(S, q.since, q, b) # {}
         /\ InBucket(S, Back(q), q, b) # {}
    <2>1. /\ Timeseries(S, q)[b].estimatedCostUsd = SumOver(w, InBucket(S, q.since, q, b))
          /\ Timeseries(S, q)[b].requestCount > 0 <=> InBucket(S, q.since, q, b) # {}
      <3> DEFINE from == q.since
      <3>1. from \in Int /\ b \in BucketOf(from)..BucketOf(q.until - 1)
        BY <1>2, <1>5 DEF last
      <3> HIDE DEF from
      <3>2. /\ Bucketed(S, from, q)[b].estimatedCostUsd = SumOver(w, InBucket(S, from, q, b))
            /\ Bucketed(S, from, q)[b].requestCount > 0 <=> InBucket(S, from, q, b) # {}
        BY <3>1, BucketIs
      <3>3. QED
        BY <3>2 DEF from, Timeseries
    <2>2. /\ InBucket(S, q.since, q, b) \in SUBSET InBucket(S, Back(q), q, b)
          /\ b > BucketOf(q.since) => InBucket(S, q.since, q, b) = InBucket(S, Back(q), q, b)
      BY <1>1, <1>5, SameBucket
    <2>3. /\ InBucket(S, Back(q), q, b) \in SUBSET Stored
          /\ InBucket(S, Back(q), q, b) # {}
      BY <1>1, <1>2, <1>5, BucketIs DEF series, last
    <2>4. QED
      BY <2>1, <2>2, <2>3
  <1>16. cost >= Timeseries(S, q)[b].estimatedCostUsd
    <2> DEFINE early == InBucket(S, q.since, q, b)
               all == InBucket(S, Back(q), q, b)
    <2>1. early \in SUBSET all /\ all \in SUBSET Stored /\ early \in SUBSET Stored
      BY <1>15
    <2> HIDE DEF early, all
    <2>2. SumOver(w, early) <= SumOver(w, all) /\ SumOver(w, early) \in Nat /\ SumOver(w, all) \in Nat
      <3>1. "estimatedCostUsd" \in Fields
        BY DEF Fields
      <3>2. QED
        BY <2>1, <3>1, TotalsGrow, TotalsAre
    <2> HIDE DEF w, cost
    <2>3. QED
      BY <1>13, <1>15, <2>2 DEF early, all
  <1>17. b # BucketOf(q.since) => b > BucketOf(q.since)
    BY <1>1, <1>3, <1>5
  <1>18. b # BucketOf(q.since) => /\ cost = Timeseries(S, q)[b].estimatedCostUsd
                                  /\ b \in DOMAIN Timeseries(S, q)
                                  /\ Timeseries(S, q)[b].requestCount > 0
    BY <1>4, <1>5, <1>13, <1>15, <1>17
  <1>19. QED
    BY <1>1, <1>8, <1>12, <1>14, <1>16, <1>18 DEF past

(* The sum of one term.                                                     *)
LEMMA TotalOfOne ==
  ASSUME NEW v, NEW x, v[x] \in Nat
  PROVE  SumOver(v, {x}) = v[x]
  <1>1. IsFiniteSet({x}) /\ Counts(v, {x}) /\ {x} \ {x} = {}
    BY FS_Singleton DEF Counts
  <1>2. SumOver(v, {x}) = v[x] + SumOver(v, {x} \ {x}) /\ SumOver(v, {}) = 0
    BY <1>1, TotalIs
  <1>3. QED
    BY <1>1, <1>2

(* A product of a sum.                                                      *)
LEMMA Products ==
  ASSUME NEW a \in Nat, NEW b \in Nat, NEW t \in Nat
  PROVE  (a + b) * t = a * t + b * t /\ a * t \in Nat /\ b * t \in Nat
  OBVIOUS

(* Rounded shares exceed what they are shares of by less than one each.     *)
LEMMA SharesAdd ==
  ASSUME NEW C, IsFiniteSet(C), NEW ratio, Counts(ratio, C), NEW piece, Counts(piece, C),
         NEW t \in Nat, NEW one \in Nat,
         \A c \in C : ratio[c] * t <= piece[c] * one + t
  PROVE  SumOver(ratio, C) * t <= SumOver(piece, C) * one + Cardinality(C) * t
  <1> DEFINE G == {D \in SUBSET C :
                     SumOver(ratio, D) * t <= SumOver(piece, D) * one + Cardinality(D) * t}
  <1>1. G \in SUBSET SUBSET C
    OBVIOUS
  <1>2. {} \in G
    <2>1. SumOver(ratio, {}) = 0 /\ SumOver(piece, {}) = 0 /\ Cardinality({}) = 0
      BY TotalTakes, FS_EmptySet
    <2>2. 0 * t <= 0 * one + 0 * t
      OBVIOUS
    <2>3. QED
      BY <2>1, <2>2
  <1>3. ASSUME NEW D \in SUBSET C, NEW c \in D, D \ {c} \in G
        PROVE  D \in G
    <2> DEFINE r == D \ {c}
    <2>1. r \in SUBSET C /\ c \in C
      OBVIOUS
    <2>2. /\ SumOver(ratio, D) = ratio[c] + SumOver(ratio, r)
          /\ SumOver(piece, D) = piece[c] + SumOver(piece, r)
          /\ SumOver(ratio, r) \in Nat /\ SumOver(piece, r) \in Nat
      BY <2>1, TotalTakes
    <2>3. Cardinality(D) = 1 + Cardinality(r) /\ Cardinality(r) \in Nat
      <3>1. Cardinality(D) \in Nat /\ Cardinality(r) \in Nat /\ Cardinality(r) = Cardinality(D) - 1
        BY OneLess
      <3> HIDE DEF r
      <3>2. QED
        BY <3>1
    <2>4. SumOver(ratio, r) * t <= SumOver(piece, r) * one + Cardinality(r) * t
      BY <1>3
    <2>5. ratio[c] \in Nat /\ piece[c] \in Nat /\ ratio[c] * t <= piece[c] * one + t
      BY <2>1 DEF Counts
    <2> HIDE DEF r, G
    <2>6. SumOver(ratio, D) * t <= SumOver(piece, D) * one + Cardinality(D) * t
      <3> DEFINE R == SumOver(ratio, r)
                 P == SumOver(piece, r)
                 n == Cardinality(r)
      <3>1. /\ (ratio[c] + R) * t = ratio[c] * t + R * t /\ ratio[c] * t \in Nat /\ R * t \in Nat
            /\ (piece[c] + P) * one = piece[c] * one + P * one
            /\ piece[c] * one \in Nat /\ P * one \in Nat
            /\ (1 + n) * t = 1 * t + n * t /\ n * t \in Nat /\ 1 * t = t
        BY <2>2, <2>3, <2>5, Products
      <3>2. R * t <= P * one + n * t
        BY <2>4
      <3> DEFINE rt == R * t
                 Po == P * one
                 nt == n * t
                 ct == ratio[c] * t
                 po == piece[c] * one
      <3>3. rt <= Po + nt /\ ct <= po + t /\ rt \in Nat /\ Po \in Nat /\ nt \in Nat
            /\ ct \in Nat /\ po \in Nat
        BY <2>5, <3>1, <3>2
      <3>4. SumOver(ratio, D) * t = ct + rt /\ SumOver(piece, D) * one = po + Po
            /\ Cardinality(D) * t = t + nt
        BY <2>2, <2>3, <3>1
      <3> HIDE DEF rt, Po, nt, ct, po
      <3>5. ct + rt <= (po + Po) + (t + nt)
        BY <3>3
      <3>6. QED
        BY <3>4, <3>5
    <2>7. QED
      BY <2>6 DEF G
  <1> HIDE DEF G
  <1>4. \A s \in SUBSET C : s \in G
    BY <1>1, <1>2, <1>3, AllSubsets
  <1>5. QED
    BY <1>4 DEF G

(* A rounded quotient.                                                      *)
LEMMA RoundedShare ==
  ASSUME NEW cost \in Nat, NEW one \in Nat, NEW total \in Nat, total > 0
  PROVE  /\ (cost * one + total \div 2) \div total \in Nat
         /\ ((cost * one + total \div 2) \div total) * total <= cost * one + total
  <1> DEFINE a == cost * one
             h == total \div 2
  <1>1. a \in Nat /\ h \in Nat /\ h <= total
    OBVIOUS
  <1> HIDE DEF a, h
  <1> DEFINE n == (a + h) \div total
  <1>2. n \in Nat /\ n * total <= a + h
    BY <1>1
  <1> HIDE DEF n
  <1>3. n * total \in Nat
    BY <1>2
  <1>4. n * total <= a + total
    BY <1>1, <1>2, <1>3
  <1>5. QED
    BY <1>2, <1>4 DEF n, a, h

(* What the shares of a part come to.                                       *)
LEMMA AtMostTheWhole ==
  ASSUME NEW r \in Nat, NEW one \in Nat, NEW n \in Nat, NEW t \in Nat, t > 0,
         NEW p \in Nat, p <= t, r * t <= p * one + n * t
  PROVE  r <= one + n
  <1>1. p * one <= t * one
    OBVIOUS
  <1>2. (one + n) * t = one * t + n * t /\ one * t \in Nat /\ n * t \in Nat
        /\ r * t \in Nat /\ p * one \in Nat /\ t * one = one * t
    OBVIOUS
  <1>3. r * t <= (one + n) * t
    BY <1>1, <1>2
  <1>4. ASSUME r >= one + n + 1 PROVE FALSE
    <2>1. r * t >= ((one + n) + 1) * t
      BY <1>4
    <2>2. ((one + n) + 1) * t = (one + n) * t + t
      OBVIOUS
    <2>3. QED
      BY <1>2, <1>3, <2>1, <2>2
  <1>5. QED
    BY <1>4

(* The shares of the spend come to no more than the whole, but for their    *)
(* rounding.                                                                *)
LEMMA SharesFit ==
  ASSUME NEW S \in SUBSET Stored
  PROVE  LET total == Aggregate(S).estimatedCostUsd
             C == CostConcentrations(total, ByModel(S))
         IN  MapThenSumSet(LAMBDA c : c.shareRatio, C) <= One + Cardinality(C)
  <1> DEFINE total == Aggregate(S).estimatedCostUsd
             G == ByModel(S)
             K == DOMAIN G
             C == CostConcentrations(total, G)
             cost == [m \in K |-> G[m]["estimatedCostUsd"]]
             share(m) == (cost[m] * One + total \div 2) \div total
             key == [m \in K |-> [model |-> m, severity |-> "warning", shareRatio |-> share(m)]]
             M == {m \in K : /\ total > 0 /\ cost[m] >= InsightConfig.minSpendUsd
                             /\ share(m) >= InsightConfig.concentrationRatioThreshold}
             ratio == [c \in C |-> c.shareRatio]
             piece == [c \in C |-> cost[c.model]]
  <1>1. /\ IsFiniteSet(K) /\ Counts(cost, K) /\ total = SumOver(cost, K) /\ total \in Nat
    <2>1. "estimatedCostUsd" \in Fields
      BY DEF Fields
    <2>2. K = {ModelOf(e) : e \in S}
      BY DEF ByModel
    <2>3. IsFiniteSet(K)
      <3> DEFINE k == [e \in S |-> ModelOf(e)]
      <3>1. K = {k[e] : e \in S}
        BY <2>2
      <3>2. IsFiniteSet(S)
        BY WeightsCount, FS_Subset
      <3> HIDE DEF k
      <3>3. IsFiniteSet({k[e] : e \in S})
        BY <3>2, FiniteImage
      <3>4. QED
        BY <3>1, <3>3
    <2>4. \A m \in K : cost[m] \in Nat
      <3>1. TAKE m \in K
      <3>2. /\ G[m] = Aggregate({e \in S : ModelOf(e) = m})
            /\ {e \in S : ModelOf(e) = m} \in SUBSET Stored
        BY <2>2 DEF ByModel
      <3> DEFINE B == {e \in S : ModelOf(e) = m}
      <3>3. B \in SUBSET Stored /\ G[m] = Aggregate(B)
        BY <3>2
      <3> HIDE DEF B, G
      <3>4. QED
        BY <2>1, <3>3, AggregateIs, TotalsAre
    <2>5. total = SumOver(Weight("estimatedCostUsd"), S) /\ total \in Nat
      BY <2>1, AggregateIs, TotalsAre
    <2>6. Column(G, "estimatedCostUsd") = SumOver(Weight("estimatedCostUsd"), S)
      BY <2>1, ByModelAddsUp
    <2>7. Column(G, "estimatedCostUsd") = SumOver(cost, K)
      BY ColumnIs
    <2>8. QED
      BY <2>3, <2>4, <2>5, <2>6, <2>7 DEF Counts
  <1>2. C = {key[m] : m \in M} /\ M \in SUBSET K
    BY DEF CostConcentrations
  <1>3. One \in Nat
    BY DEF One
  <1>4. CASE total > 0
    <2> HIDE DEF total, C, G
    <2>1. \A m \in M : share(m) \in Nat /\ share(m) * total <= cost[m] * One + total
      BY <1>1, <1>2, <1>3, <1>4, RoundedShare DEF Counts
    <2>2. \A m \in M : key[m].model = m /\ key[m].shareRatio = share(m) /\ cost[m] \in Nat
      BY <1>1, <1>2 DEF Counts
    <2> HIDE DEF share
    <2>3. \A m \in M : key[m] \in C
      BY <1>2
    <2>4. \A c \in C : \E m \in M : c = key[m]
      BY <1>2
    <2> HIDE DEF M, key, cost, K
    <2>5. /\ Counts(ratio, C) /\ Counts(piece, C)
          /\ \A c \in C : ratio[c] * total <= piece[c] * One + total
      BY <2>1, <2>2, <2>4 DEF Counts
    <2>6. IsFiniteSet(C) /\ IsFiniteSet(M)
      BY <1>1, <1>2, FS_Subset, FiniteImage
    <2>7. SumOver(piece, C) = SumOver(cost, M) /\ Counts(cost, M)
      <3>1. Counts(cost, M)
        BY <2>2 DEF Counts
      <3>2. \A c \in C : piece[c] = SumOver(cost, GroupOf(M, key, c))
        <4>1. TAKE c \in C
        <4>2. PICK m \in M : c = key[m]
          BY <2>4
        <4>3. GroupOf(M, key, c) = {m}
          BY <2>2, <4>2 DEF GroupOf
        <4>4. piece[c] = cost[m] /\ cost[m] \in Nat
          BY <2>2, <4>2
        <4>5. QED
          BY <4>3, <4>4, TotalOfOne
      <3>3. QED
        BY <2>3, <2>6, <3>1, <3>2, TotalOfGroups
    <2>8. SumOver(cost, M) <= total /\ SumOver(cost, M) \in Nat
      BY <1>1, <1>2, <2>6, <2>7, TotalGrows, TotalTakes
    <2>9. SumOver(ratio, C) * total <= SumOver(piece, C) * One + Cardinality(C) * total
      BY <1>1, <1>3, <2>5, <2>6, SharesAdd
    <2>10. SumOver(ratio, C) \in Nat /\ Cardinality(C) \in Nat
      BY <2>5, <2>6, TotalIs, FS_CardinalityType
    <2>11. SumOver(ratio, C) <= One + Cardinality(C)
      BY <1>1, <1>3, <1>4, <2>7, <2>8, <2>9, <2>10, AtMostTheWhole
    <2>12. MapThenSumSet(LAMBDA c : c.shareRatio, C) = SumOver(ratio, C)
      <3> DEFINE R(g) == g = [s \in SUBSET C |-> IF s = {} THEN 0
                            ELSE AnElement(s).shareRatio + g[s \ {AnElement(s)}]]
      <3>1. MapThenSumSet(LAMBDA c : c.shareRatio, C) = (CHOOSE g : R(g))[C]
        BY DEF MapThenSumSet, MapThenFoldSet, AnElement
      <3>2. \A s \in SUBSET C : s # {} => ratio[AnElement(s)] = AnElement(s).shareRatio
        BY DEF AnElement
      <3> HIDE DEF ratio
      <3>3. \A g : R(g) <=> Recurs(ratio, g, C)
        BY <3>2 DEF Recurs
      <3> HIDE DEF R
      <3>4. QED
        BY <3>1, <3>3, Zenon DEF SumOver
    <2>13. QED
      BY <2>11, <2>12 DEF C, G, total
  <1>5. CASE ~(total > 0)
    <2>1. C = {}
      BY <1>2, <1>5
    <2>2. MapThenSumSet(LAMBDA c : c.shareRatio, {}) = 0
      <3> DEFINE R(g) == g = [s \in SUBSET {} |-> IF s = {} THEN 0
                            ELSE AnElement(s).shareRatio + g[s \ {AnElement(s)}]]
      <3>1. MapThenSumSet(LAMBDA c : c.shareRatio, {}) = (CHOOSE g : R(g))[{}]
        BY DEF MapThenSumSet, MapThenFoldSet, AnElement
      <3>2. R([s \in SUBSET {} |-> 0])
        OBVIOUS
      <3>3. \A g : R(g) => g[{}] = 0
        OBVIOUS
      <3> HIDE DEF R
      <3>4. QED
        BY <3>1, <3>2, <3>3
    <2>3. Cardinality({}) = 0
      BY FS_EmptySet
    <2>4. 0 <= One + 0
      BY <1>3
    <2> HIDE DEF C
    <2>5. MapThenSumSet(LAMBDA c : c.shareRatio, C) <= One + Cardinality(C)
      BY <2>1, <2>2, <2>3, <2>4
    <2>6. QED
      BY <2>5 DEF C
  <1>6. QED
    BY <1>4, <1>5

(* A group of a summary.                                                    *)
LEMMA GroupIs ==
  ASSUME NEW S \in SUBSET Stored, NEW m \in DOMAIN ByModel(S)
  PROVE  ByModel(S)[m].inputTokens \in Nat /\ ByModel(S)[m].outputTokens \in Nat
  <1> DEFINE B == {e \in S : ModelOf(e) = m}
  <1>1. B \in SUBSET Stored /\ ByModel(S)[m] = Aggregate(B)
    BY DEF ByModel
  <1> HIDE DEF B
  <1>2. "inputTokens" \in Fields /\ "outputTokens" \in Fields
    BY DEF Fields
  <1>3. QED
    BY <1>1, <1>2, AggregateIs, TotalsAre

(* A group that is priced anew, on a model or on its name.                  *)
LEMMA RepricedIs ==
  ASSUME NEW g, g.inputTokens \in Nat, g.outputTokens \in Nat, NEW m, Prices(PricingTable, m) # {}
  PROVE  /\ Repriced(g, m) \in Nat
         /\ Repriced(g, NameOf(m)) = Repriced(g, m)
  <1> DEFINE p == CHOOSE e \in Prices(PricingTable, m) : TRUE
  <1>1. p \in PricingTable.entries
    BY DEF Prices
  <1>2. p.unitIn \in Nat /\ p.unitOut \in Nat
    BY <1>1, ReportsAssumption DEF IsPrice
  <1>3. Repriced(g, m) = RoundToUsd6(g.inputTokens * p.unitIn + g.outputTokens * p.unitOut)
    BY DEF Repriced, EstimateCostUsd
  <1> HIDE DEF p
  <1>4. g.inputTokens * p.unitIn + g.outputTokens * p.unitOut \in Nat
    BY <1>2
  <1>5. Repriced(g, m) \in Nat
    BY <1>3, <1>4 DEF RoundToUsd6
  <1>6. Prices(PricingTable, NameOf(m)) = Prices(PricingTable, m)
    BY DEF Prices, NameOf
  <1>7. Repriced(g, NameOf(m)) = Repriced(g, m)
    BY <1>6 DEF Repriced, EstimateCostUsd
  <1>8. QED
    BY <1>5, <1>7

(* What is offered as cheaper is another model and saves what is asked for. *)
LEMMA ComparisonsSave ==
  ASSUME NEW S \in SUBSET Stored, NEW c \in PricingComparisons(ByModel(S))
  PROVE  /\ c.alternative # c.model
         /\ Repriced(ByModel(S)[c.model], c.alternative)
                + InsightConfig.pricingComparisonMinDeltaUsd
              <= Repriced(ByModel(S)[c.model], c.model)
  <1> DEFINE G == ByModel(S)
  <1>1. PICK n \in DOMAIN G, a \in Catalog :
          /\ Prices(PricingTable, n) # {} /\ NameOf(a) # n /\ Prices(PricingTable, a) # {}
          /\ Repriced(G[n], n) - Repriced(G[n], a) >= InsightConfig.pricingComparisonMinDeltaUsd
          /\ c.model = n /\ c.alternative = NameOf(a)
    <2> DEFINE saving(n, alt) == Repriced(G[n], n) - Repriced(G[n], alt)
               cheaper(n) == { alt \in Catalog :
                 /\ NameOf(alt) # n /\ Prices(PricingTable, alt) # {}
                 /\ saving(n, alt) >= InsightConfig.pricingComparisonMinDeltaUsd }
               before(n, a, b) ==
                 \/ saving(n, a) > saving(n, b)
                 \/ /\ saving(n, a) = saving(n, b)
                    /\ \/ a.providerId < b.providerId
                       \/ a.providerId = b.providerId /\ a.modelId < b.modelId
               offered(n) == { a \in cheaper(n) :
                 Cardinality({b \in cheaper(n) : before(n, b, a)})
                   < InsightConfig.maxPricingAlternatives }
               compared == { n \in DOMAIN G :
                 /\ G[n].estimatedCostUsd >= InsightConfig.minSpendUsd
                 /\ Prices(PricingTable, n) # {} }
               signal(n, alt) ==
                 IF \E m \in Catalog : NameOf(m) = n
                   THEN CompatibilitySignal(CHOOSE m \in Catalog : NameOf(m) = n, alt) ELSE "none"
               comparison(n, a) ==
                 [ model |-> n, alternative |-> NameOf(a), severity |-> "info",
                   costDifferenceUsd |-> saving(n, a), compatibilitySignal |-> signal(n, a) ]
    <2>1. PricingComparisons(G) = UNION { {comparison(n, a) : a \in offered(n)} : n \in compared }
      BY DEF PricingComparisons
    <2>2. \A n : offered(n) \subseteq cheaper(n)
      OBVIOUS
    <2>3. \A n, a : comparison(n, a).model = n /\ comparison(n, a).alternative = NameOf(a)
      OBVIOUS
    <2>4. c \in PricingComparisons(G)
      OBVIOUS
    <2> HIDE DEF comparison, offered
    <2>5. PICK x \in compared : \E y \in offered(x) : c = comparison(x, y)
      BY <2>1, <2>4
    <2>6. PICK y \in offered(x) : c = comparison(x, y)
      BY <2>5
    <2>7. y \in cheaper(x)
      BY <2>2, <2>6
    <2>8. x \in DOMAIN G /\ Prices(PricingTable, x) # {}
      BY <2>5
    <2>9. QED
      BY <2>3, <2>6, <2>7, <2>8
  <1>2. G[n].inputTokens \in Nat /\ G[n].outputTokens \in Nat
    BY GroupIs
  <1> HIDE DEF G
  <1>3. /\ Repriced(G[n], n) \in Nat /\ Repriced(G[n], a) \in Nat
        /\ Repriced(G[n], NameOf(a)) = Repriced(G[n], a)
    BY <1>1, <1>2, RepricedIs
  <1>4. InsightConfig.pricingComparisonMinDeltaUsd \in Nat
    BY ReportsAssumption
  <1>5. /\ c.alternative # c.model
        /\ Repriced(G[c.model], c.alternative) + InsightConfig.pricingComparisonMinDeltaUsd
              <= Repriced(G[c.model], c.model)
    <2> DEFINE x == Repriced(G[n], n)
               y == Repriced(G[n], a)
               d == InsightConfig.pricingComparisonMinDeltaUsd
    <2>1. x \in Nat /\ y \in Nat /\ d \in Nat /\ x - y >= d
      BY <1>1, <1>3, <1>4
    <2> HIDE DEF x, y, d
    <2>2. y + d <= x
      BY <2>1
    <2>3. QED
      BY <1>1, <1>3, <2>2 DEF x, y, d
  <1>6. QED
    BY <1>5 DEF G

(* What a budget is charged with.                                           *)
LEMMA SpendIs ==
  ASSUME NEW S \in SUBSET Stored, NEW b, NEW now
  PROVE  SpendOf(b, {Observed[e] : e \in S}, now) \in Nat
  <1> DEFINE all == {Observed[e] : e \in S}
             counted == { e \in all :
               /\ e.receivedAt >= WindowStart(b.period, now) /\ e.receivedAt <= now
               /\ b.scope = "client" => e.clientId = b.clientId }
             v == [e \in counted |-> e.costUsd]
             R(g) == g = [s \in SUBSET counted |-> IF s = {} THEN 0
                            ELSE AnElement(s).costUsd + g[s \ {AnElement(s)}]]
  <1>1. SpendOf(b, all, now) = (CHOOSE g : R(g))[counted]
    BY DEF SpendOf, MapThenSumSet, MapThenFoldSet, AnElement
  <1>2. \A e \in all : e.costUsd \in Nat
    BY ReportsAssumption DEF Stored, IsObservation
  <1>3. IsFiniteSet(all)
    <2>1. IsFiniteSet(S)
      BY WeightsCount, FS_Subset
    <2>2. QED
      BY <2>1, FiniteImage
  <1>4. IsFiniteSet(counted) /\ Counts(v, counted)
    <2>1. counted \in SUBSET all
      OBVIOUS
    <2>2. Counts(v, counted)
      BY <1>2 DEF Counts
    <2> HIDE DEF counted, all
    <2>3. QED
      BY <1>3, <2>1, <2>2, FS_Subset
  <1> HIDE DEF counted, all
  <1>5. \A s \in SUBSET counted : s # {} => v[AnElement(s)] = AnElement(s).costUsd
    BY DEF AnElement
  <1> HIDE DEF v
  <1>6. \A g : R(g) <=> Recurs(v, g, counted)
    BY <1>5 DEF Recurs
  <1> HIDE DEF R
  <1>7. SpendOf(b, all, now) = SumOver(v, counted)
    BY <1>1, <1>6, Zenon DEF SumOver
  <1>8. SumOver(v, counted) \in Nat
    BY <1>4, TotalIs
  <1>9. QED
    BY <1>7, <1>8 DEF all

(* A budget over its limit is reported as critical.                         *)
LEMMA PressureIsCritical ==
  ASSUME NEW S \in SUBSET Stored, NEW q, NEW b \in ReportBudgets,
         BudgetStatuses(S, q)[b.budgetId].remainingUsd < 0
  PROVE  [budgetId |-> b.budgetId, severity |-> "critical"]
           \in BudgetPressures(BudgetStatuses(S, q))
  <1> DEFINE statuses == BudgetStatuses(S, q)
             spend == SpendOf(b, {Observed[e] : e \in S}, q.now)
  <1>1. spend \in Nat /\ b.limitUsd \in Nat
    BY SpendIs, ReportsAssumption DEF IsBudget
  <1>2. b.budgetId \in DOMAIN statuses /\ statuses[b.budgetId] = BudgetStatus(b, spend)
    <2>1. \A x \in ReportBudgets : x.budgetId = b.budgetId => x = b
      BY ReportsAssumption
    <2>2. (CHOOSE x \in ReportBudgets : x.budgetId = b.budgetId) = b
      BY <2>1
    <2>3. QED
      BY <2>2 DEF BudgetStatuses
  <1>3. statuses[b.budgetId].remainingUsd < 0
    OBVIOUS
  <1> HIDE DEF statuses, spend
  <1>4. statuses[b.budgetId].remainingUsd = b.limitUsd - spend
    BY <1>2 DEF BudgetStatus
  <1>5. ~(spend < b.limitUsd) /\ spend # b.limitUsd
    BY <1>1, <1>3, <1>4
  <1>6. statuses[b.budgetId].status = "over_limit"
    BY <1>2, <1>5 DEF BudgetStatus
  <1>7. [budgetId |-> b.budgetId, severity |-> "critical"] \in BudgetPressures(statuses)
    BY <1>2, <1>6 DEF BudgetPressures
  <1>8. QED
    BY <1>7 DEF statuses

-----------------------------------------------------------------------------
(* The invariant of the reports.                                            *)

(* What a statement returned is what it returns of the records it was       *)
(* executed over, and those of the summary see no fewer records than the    *)
(* one before.                                                              *)
ReportsInv ==
  /\ ReportsTypeOK
  /\ query # NotRead => query \in Queries /\ query.since < query.until
  /\ \A s \in Statements : answer[s] # NotRead => answer[s] = Outcome(s, basis[s])
  /\ answer["byProvider"] # NotRead =>
       answer["totals"] # NotRead /\ basis["totals"] \subseteq basis["byProvider"]
  /\ answer["byModel"] # NotRead =>
       answer["byProvider"] # NotRead /\ basis["byProvider"] \subseteq basis["byModel"]

(* Nothing is answered at first.                                            *)
LEMMA ReportsInitHolds == ReportsInit => ReportsInv
  BY DEF ReportsInit, ReportsInv, ReportsTypeOK, Statements

(* A statement is answered over the records that are stored, and records    *)
(* are only added.                                                          *)
LEMMA ReportsStep == ReportsInv /\ [ReportsNext]_reportVars => ReportsInv'
  <1> SUFFICES ASSUME ReportsInv, [ReportsNext]_reportVars PROVE ReportsInv'
    OBVIOUS
  <1>1. CASE UNCHANGED reportVars
    BY <1>1 DEF reportVars, ReportsInv, ReportsTypeOK, Outcome
  <1>2. ASSUME NEW e \in Late, Record(e) PROVE ReportsInv'
    BY <1>2, ReportsAssumption DEF Record, ReportsInv, ReportsTypeOK, Outcome
  <1>3. ASSUME NEW q \in Queries, Ask(q) PROVE ReportsInv'
    <2>1. \A s \in Statements : answer[s] = NotRead
      BY <1>3 DEF Ask, ReportsInv, ReportsTypeOK
    <2>2. QED
      BY <1>3, <2>1 DEF Ask, ReportsInv, ReportsTypeOK, Statements
  <1>4. ASSUME NEW s \in Statements, Execute(s) PROVE ReportsInv'
    <2>1. ReportsTypeOK'
      BY <1>4 DEF Execute, ReportsInv, ReportsTypeOK
    <2>2. query' = query /\ \A t, S : Outcome(t, S)' = Outcome(t, S)
      BY <1>4 DEF Execute, Outcome
    <2>3. \A t \in Statements : answer'[t] # NotRead => answer'[t] = Outcome(t, basis'[t])
      BY <1>4 DEF Execute, ReportsInv, ReportsTypeOK
    <2>4. \A t \in Statements : /\ t # s => answer'[t] = answer[t] /\ basis'[t] = basis[t]
                                /\ basis'[s] = recorded /\ answer[s] = NotRead
      BY <1>4 DEF Execute, ReportsInv, ReportsTypeOK
    <2>5. /\ answer'["byProvider"] # NotRead =>
               answer'["totals"] # NotRead /\ basis'["totals"] \subseteq basis'["byProvider"]
          /\ answer'["byModel"] # NotRead =>
               answer'["byProvider"] # NotRead /\ basis'["byProvider"] \subseteq basis'["byModel"]
      <3>1. /\ answer["totals"] # NotRead => basis["totals"] \subseteq recorded
            /\ answer["byProvider"] # NotRead => basis["byProvider"] \subseteq recorded
        BY DEF ReportsInv, ReportsTypeOK, Statements
      <3>2. "totals" \in Statements /\ "byProvider" \in Statements /\ "byModel" \in Statements
        BY DEF Statements
      <3>3. /\ s = "byProvider" => answer["totals"] # NotRead
            /\ s = "byModel" => answer["byProvider"] # NotRead
        BY <1>4 DEF Execute
      <3>4. QED
        BY <2>4, <3>1, <3>2, <3>3 DEF ReportsInv
    <2>6. QED
      BY <2>1, <2>2, <2>3, <2>5 DEF ReportsInv
  <1>5. ASSUME NEW q \in Queries, Refuse(q) PROVE ReportsInv'
    BY <1>1, <1>5 DEF Refuse
  <1>6. QED
    BY <1>1, <1>2, <1>3, <1>4, <1>5 DEF ReportsNext

(* What a statement that was executed returned.                             *)
LEMMA AnswersAre ==
  ASSUME ReportsInv, NEW s \in Statements, answer[s] # NotRead
  PROVE  /\ query \in Queries /\ query.since < query.until
         /\ basis[s] \in SUBSET Stored /\ answer[s] = Outcome(s, basis[s])
  BY DEF ReportsInv, ReportsTypeOK, Stored

(* The parts of a report agree.                                             *)
LEMMA FiguresReconcile ==
  ASSUME ReportsInv PROVE ReportsReconcile
  <1> SUFFICES ASSUME AllRead PROVE ReportsReconcile
    BY DEF ReportsReconcile
  <1> DEFINE F(s) == Filtered(basis[s], query)
             atUntil == {e \in F("totals") : Observed[e].receivedAt = query.until}
  <1>1. /\ query \in Queries /\ query.since < query.until
        /\ \A s \in Statements : basis[s] \in SUBSET Stored /\ answer[s] = Outcome(s, basis[s])
               /\ F(s) \in SUBSET Stored
    <2>1. \A s \in Statements : answer[s] # NotRead
      BY DEF AllRead
    <2>2. "totals" \in Statements
      BY DEF Statements
    <2>3. \A s \in Statements : basis[s] \in SUBSET Stored /\ answer[s] = Outcome(s, basis[s])
      BY <2>1, AnswersAre
    <2>4. \A s \in Statements : F(s) \in SUBSET Stored
      BY <2>3, FilteredStored
    <2>5. QED
      BY <2>1, <2>2, <2>3, <2>4, AnswersAre
  <1>2. /\ answer["totals"] = Aggregate(F("totals"))
        /\ answer["byProvider"] = ByProvider(F("byProvider"))
        /\ answer["byModel"] = ByModel(F("byModel"))
        /\ answer["series"] = Timeseries(basis["series"], query)
        /\ answer["anomalies"] = Anomalies(basis["anomalies"], query)
        /\ answer["budgets"] = BudgetStatuses(basis["budgets"], query)
    BY <1>1 DEF Outcome, Statements
  <1>3. /\ basis["totals"] \subseteq basis["byProvider"]
        /\ basis["byProvider"] \subseteq basis["byModel"]
    BY DEF ReportsInv, AllRead, Statements
  <1>4. /\ F("totals") \in SUBSET Stored /\ F("byProvider") \in SUBSET Stored
        /\ F("byModel") \in SUBSET Stored
        /\ basis["series"] \in SUBSET Stored /\ basis["anomalies"] \in SUBSET Stored
        /\ basis["budgets"] \in SUBSET Stored /\ basis["totals"] \in SUBSET Stored
    BY <1>1 DEF Statements
  <1>5. F("totals") \in SUBSET F("byProvider") /\ F("byProvider") \in SUBSET F("byModel")
    BY <1>3 DEF Filtered
  <1>6. basis["byModel"] = basis["totals"] => F("byModel") = F("totals")
    OBVIOUS
  <1>7. basis["series"] = basis["totals"] =>
          \A f \in Fields :
            Column(answer["series"], f) + Aggregate(atUntil)[f] = answer["totals"][f]
    BY <1>1, <1>2, <1>4, SeriesLacks
  <1> HIDE DEF F
  <1>8. DOMAIN answer["totals"] = Fields
        /\ \A f \in Fields :
             /\ answer["totals"][f] = SumOver(Weight(f), F("totals"))
             /\ Column(answer["byProvider"], f) = SumOver(Weight(f), F("byProvider"))
             /\ Column(answer["byModel"], f) = SumOver(Weight(f), F("byModel"))
    BY <1>2, <1>4, AggregateIs, ByProviderAddsUp, ByModelAddsUp
  <1>9. \A f \in Fields :
          /\ answer["totals"][f] <= Column(answer["byProvider"], f)
          /\ Column(answer["byProvider"], f) <= Column(answer["byModel"], f)
          /\ basis["byModel"] = basis["totals"] =>
               answer["totals"][f] = Column(answer["byModel"], f)
    BY <1>4, <1>5, <1>6, <1>8, TotalsGrow
  <1>10. basis["series"] = basis["anomalies"] =>
           \A b \in DOMAIN answer["anomalies"] :
             /\ b < BucketOf(query.now)
             /\ IF b = BucketOf(query.since)
                  THEN answer["anomalies"][b].estimatedCostUsd
                         >= answer["series"][b].estimatedCostUsd
                  ELSE answer["anomalies"][b].estimatedCostUsd
                         = answer["series"][b].estimatedCostUsd
             /\ answer["anomalies"][b].historicalBucketCount
                  = Cardinality(PastOf(basis["anomalies"], query, b))
             /\ answer["anomalies"][b].estimatedCostUsd
                  * Cardinality(PastOf(basis["anomalies"], query, b))
                  > SpentBefore(basis["anomalies"], query, b)
    BY <1>1, <1>2, <1>4, AnomaliesStand
  <1>11. basis["byModel"] = basis["totals"] =>
           MapThenSumSet(LAMBDA c : c.shareRatio, Insights.concentrations)
             <= One + Cardinality(Insights.concentrations)
    <2>1. SUFFICES ASSUME F("byModel") = F("totals")
                   PROVE  MapThenSumSet(LAMBDA c : c.shareRatio, Insights.concentrations)
                            <= One + Cardinality(Insights.concentrations)
      BY <1>6
    <2>2. Insights.concentrations
            = CostConcentrations(Aggregate(F("totals")).estimatedCostUsd, ByModel(F("totals")))
      BY <1>2, <2>1 DEF Insights
    <2>3. QED
      BY <1>4, <2>2, SharesFit
  <1>12. \A c \in Insights.comparisons :
           /\ c.alternative # c.model
           /\ Repriced(answer["byModel"][c.model], c.alternative)
                  + InsightConfig.pricingComparisonMinDeltaUsd
                <= Repriced(answer["byModel"][c.model], c.model)
    <2>1. Insights.comparisons = PricingComparisons(ByModel(F("byModel")))
      BY <1>2 DEF Insights
    <2>2. QED
      BY <1>2, <1>4, <2>1, ComparisonsSave
  <1>13. \A b \in ReportBudgets :
           answer["budgets"][b.budgetId].remainingUsd < 0 =>
             [budgetId |-> b.budgetId, severity |-> "critical"] \in Insights.pressures
    <2>1. Insights.pressures = BudgetPressures(BudgetStatuses(basis["budgets"], query))
      BY <1>2 DEF Insights
    <2>2. QED
      BY <1>2, <1>4, <2>1, PressureIsCritical
  <1> DEFINE spent(d) ==
               { e \in basis["anomalies"] :
                   /\ BucketOf(Observed[e].receivedAt) = d
                   /\ Observed[e].receivedAt >= query.since - Lookback * BucketLength
                   /\ Given(query.providerId) => Observed[e].providerId = query.providerId }
  <1>14. basis["series"] = basis["anomalies"] =>
           \A b \in DOMAIN answer["anomalies"] :
             LET cost(x) == answer["anomalies"][x].estimatedCostUsd
                 past == {d \in (b - Lookback)..(b - 1) : spent(d) # {}}
             IN  /\ b < BucketOf(query.now)
                 /\ IF b = BucketOf(query.since)
                    THEN cost(b) >= answer["series"][b].estimatedCostUsd
                    ELSE cost(b) = answer["series"][b].estimatedCostUsd
                 /\ answer["anomalies"][b].historicalBucketCount = Cardinality(past)
                 /\ cost(b) * Cardinality(past)
                      > MapThenSumSet(LAMBDA d : Aggregate(spent(d)).estimatedCostUsd, past)
    BY <1>10, Zenon DEF SpentIn, PastOf, SpentBefore
  <1>15. \A f \in DOMAIN answer["totals"] :
           /\ answer["totals"][f] <= Column(answer["byProvider"], f)
           /\ Column(answer["byProvider"], f) <= Column(answer["byModel"], f)
           /\ basis["byModel"] = basis["totals"] =>
                answer["totals"][f] = Column(answer["byModel"], f)
           /\ basis["series"] = basis["totals"] =>
                Column(answer["series"], f) + Aggregate(atUntil)[f] = answer["totals"][f]
    BY <1>7, <1>8, <1>9
  <1>16. QED
    BY <1>11, <1>12, <1>13, <1>14, <1>15, Zenon DEF ReportsReconcile, F
=============================================================================
