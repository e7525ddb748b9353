---------------------------- MODULE EventBrowser ----------------------------
(***************************************************************************)
(* Browsing the recorded requests: the Routing Explorer's pages            *)
(* (web/src/features/routing-explorer) over GET /v1/telemetry/events and   *)
(* its keyset query (persistence/src/telemetry/query.ts).                  *)
(*                                                                         *)
(* Records are stored when a request ends but ordered by the time it was   *)
(* received, so one may be stored behind a page already read.  A record is *)
(* its number, in the order of event ids; a cursor is the last record of   *)
(* the page it follows.                                                    *)
(***************************************************************************)
EXTENDS Naturals, Sequences, FiniteSets

CONSTANTS
  Records,        (* Records[e] = [at, client]                              *)
  BrowserFilters, (* the filters chosen: clients, or NoFilter               *)
  PageSize,       (* PAGE_SIZE                                              *)
  MaxLimit,       (* the largest page the query returns, 500                *)
  MaxClicks,      (* bound on the clicks                                    *)
  MaxRefusals,    (* bound on the calls that fail                           *)
  NoFilter, NoCursor

ASSUME BrowserAssumption ==
  /\ PageSize \in Nat \ {0} /\ MaxLimit \in Nat \ {0}
  /\ MaxClicks \in Nat /\ MaxRefusals \in Nat
  (* (event_id, received_at) is the primary key, and both sort              *)
  /\ IsFiniteSet(DOMAIN Records) /\ DOMAIN Records \subseteq Nat
  /\ \A e \in DOMAIN Records : Records[e].at \in Nat
  /\ NoCursor \notin DOMAIN Records /\ NoFilter \in BrowserFilters

RecordIds == DOMAIN Records

VARIABLES
  stored,         (* telemetry_events                                       *)
  chosen,         (* filterKey                                              *)
  pageCursors, pageIndex, refreshKey,
  ran,            (* what the fetching effect last ran for                  *)
  fetches,        (* its calls: [id, filter, cursor, stage, page, due]      *)
  latestReq,      (* latestReq.current                                      *)
  shown,          (* [status, events, nextCursor]                           *)
  walk,           (* the pages shown since the first one was asked for, the *)
                  (* records due on them, and whether each was left only    *)
                  (* after it had been answered                             *)
  clicks, refusals

browserVars == << stored, chosen, pageCursors, pageIndex, refreshKey, ran, fetches, latestReq,
                  shown, walk, clicks, refusals >>

-----------------------------------------------------------------------------
Matches(e, f) == f = NoFilter \/ Records[e].client = f

(* Faulty variant: the cursor compares the time alone.                      *)
Behind_TimeOnly(e, d) == Records[e].at < Records[d].at

(* received_at descending, then event_id descending.                        *)
Behind(e, d) ==
  Records[e].at < Records[d].at \/ (Records[e].at = Records[d].at /\ e < d)

(* The first n of S in that order.                                          *)
Foremost(S, n) == {e \in S : Cardinality({d \in S : e # d /\ Records[e].at <= Records[d].at
                                                    /\ (Records[e].at = Records[d].at => e < d)}) < n}

(* queryEvents: one row more than asked for tells whether there is a next.  *)
QueryEvents(f, cursor) ==
  LET limit == IF PageSize > MaxLimit THEN MaxLimit ELSE PageSize
      match == {e \in stored : Matches(e, f) /\ (cursor = NoCursor \/ Behind(e, cursor))}
      rows == Foremost(match, limit + 1)
      page == Foremost(rows, limit)
  IN  [ events |-> page,
        nextCursor |-> IF rows = page THEN NoCursor
                       ELSE CHOOSE e \in page : \A d \in page \ {e} : Behind(e, d) ]

EmptyPage == [events |-> {}, nextCursor |-> NoCursor]

(* What the page shows of an answer.                                        *)
Showing(status, page) ==
  [status |-> status, events |-> page.events, nextCursor |-> page.nextCursor]

(* pageCursors[pageIndex], and what the effect depends on.                  *)
Deps ==
  [filter |-> chosen, cursor |-> pageCursors[pageIndex + 1], refreshKey |-> refreshKey]

Fetch(id, d) ==
  [ id |-> id, filter |-> d.filter, cursor |-> d.cursor, stage |-> "sent",
    page |-> EmptyPage, due |-> {} ]

NewWalk == [pages |-> << >>, due |-> {}, sound |-> TRUE]

BrowserTypeOK ==
  /\ stored \subseteq RecordIds /\ chosen \in BrowserFilters
  /\ pageIndex + 1 \in DOMAIN pageCursors /\ pageCursors[1] = NoCursor
  /\ \A i \in DOMAIN pageCursors : pageCursors[i] \in RecordIds \union {NoCursor}
  /\ \A c \in fetches : c.id \in 1..latestReq /\ c.stage \in {"sent", "answered", "failed"}
  /\ shown.status \in {"loading", "ready", "error"} /\ shown.events \subseteq RecordIds
  /\ clicks <= MaxClicks /\ refusals <= MaxRefusals
  /\ shown.status = "loading" => \E c \in fetches : c.id = latestReq

BrowserInit ==
  /\ stored \in SUBSET RecordIds
  /\ chosen = NoFilter /\ pageCursors = << NoCursor >> /\ pageIndex = 0 /\ refreshKey = 0
  /\ ran = Deps
  /\ latestReq = 1 /\ fetches = {Fetch(1, Deps)}
  /\ shown = Showing("loading", EmptyPage)
  /\ walk = NewWalk
  /\ clicks = 0 /\ refusals = 0

-----------------------------------------------------------------------------
(* A request received some time ago is recorded.                            *)
StoreRecord(e) ==
  /\ e \notin stored /\ stored' = stored \union {e}
  /\ UNCHANGED << chosen, pageCursors, pageIndex, refreshKey, ran, fetches, latestReq, shown,
                  walk, clicks, refusals >>

(* A click is handled with the effects of the one before it run.  The two   *)
(* page buttons and the refresh are disabled while a page is loading.       *)
Click ==
  /\ ran = Deps /\ clicks < MaxClicks /\ clicks' = clicks + 1
  /\ UNCHANGED << stored, ran, fetches, latestReq, shown, refusals >>

ChooseFilter(f) ==
  /\ Click
  /\ f # chosen /\ chosen' = f
  /\ UNCHANGED << pageCursors, pageIndex, refreshKey, walk >>

(* next: the cursor the last answer gave, which is not of the page that is  *)
(* asked for when that one has failed.                                      *)
NextPage ==
  /\ Click
  /\ shown.status # "loading" /\ shown.nextCursor # NoCursor
  /\ pageCursors' = Append(SubSeq(pageCursors, 1, pageIndex + 1), shown.nextCursor)
  /\ pageIndex' = pageIndex + 1
  /\ walk' = [walk EXCEPT !.sound = @ /\ shown.status = "ready"]
  /\ UNCHANGED << chosen, refreshKey >>

PrevPage ==
  /\ Click
  /\ shown.status # "loading" /\ pageIndex > 0
  /\ pageIndex' = pageIndex - 1
  /\ UNCHANGED << chosen, pageCursors, refreshKey, walk >>

(* refresh, and the retry a failed page offers.                             *)
Refresh ==
  /\ Click
  /\ shown.status # "loading"
  /\ pageCursors' = << NoCursor >> /\ pageIndex' = 0 /\ refreshKey' = refreshKey + 1
  /\ walk' = NewWalk
  /\ UNCHANGED chosen

(* A render whose dependencies changed: the cleanup aborts the call under   *)
(* way, one that is answered already is still delivered.  A changed filter  *)
(* resets the pages after this render: its call may carry the old cursor,   *)
(* and the next render replaces it.                                         *)
RunEffects ==
  /\ ran # Deps
  /\ ran' = Deps
  /\ latestReq' = latestReq + 1
  /\ fetches' = {c \in fetches : c.stage # "sent"} \union {Fetch(latestReq + 1, Deps)}
  /\ shown' = [shown EXCEPT !.status = "loading"]
  /\ IF chosen # ran.filter
       THEN pageCursors' = << NoCursor >> /\ pageIndex' = 0 /\ walk' = NewWalk
       ELSE UNCHANGED << pageCursors, pageIndex, walk >>
  /\ UNCHANGED << stored, chosen, refreshKey, clicks, refusals >>

(* The API reads the page, or the call fails.                               *)
AnswerPage(c) ==
  /\ ran = Deps /\ c.stage = "sent"
  /\ fetches' = (fetches \ {c}) \union
       {[ c EXCEPT !.stage = "answered", !.page = QueryEvents(c.filter, c.cursor),
                   !.due = {e \in stored : Matches(e, c.filter)} ]}
  /\ UNCHANGED << stored, chosen, pageCursors, pageIndex, refreshKey, ran, latestReq, shown,
                  walk, clicks, refusals >>

FailPage(c) ==
  /\ ran = Deps /\ c.stage = "sent" /\ refusals < MaxRefusals
  /\ fetches' = (fetches \ {c}) \union {[c EXCEPT !.stage = "failed"]}
  /\ refusals' = refusals + 1
  /\ UNCHANGED << stored, chosen, pageCursors, pageIndex, refreshKey, ran, latestReq, shown,
                  walk, clicks >>

(* The continuation of a call: only that of the latest one shows.  A page   *)
(* that fails leaves the events and the cursor of the page before.          *)
ShowPage(c) ==
  /\ ran = Deps /\ c.stage # "sent"
  /\ fetches' = fetches \ {c}
  /\ IF c.id # latestReq THEN UNCHANGED << shown, walk >>
     ELSE IF c.stage = "failed"
       THEN shown' = [shown EXCEPT !.status = "error"] /\ UNCHANGED walk
       ELSE /\ shown' = Showing("ready", c.page)
            /\ walk' = IF ~walk.sound THEN walk
                       ELSE [ walk EXCEPT
                           !.pages = Append(SubSeq(@, 1, pageIndex), c.page.events),
                           !.due = IF pageIndex = 0 THEN c.due ELSE @ ]
  /\ UNCHANGED << stored, chosen, pageCursors, pageIndex, refreshKey, ran, latestReq, clicks,
                  refusals >>

BrowserNext ==
  \/ \E e \in RecordIds : StoreRecord(e)
  \/ \E f \in BrowserFilters : ChooseFilter(f)
  \/ NextPage \/ PrevPage \/ Refresh \/ RunEffects
  \/ \E c \in fetches : AnswerPage(c) \/ FailPage(c) \/ ShowPage(c)

BrowserSpec == BrowserInit /\ [][BrowserNext]_browserVars

-----------------------------------------------------------------------------
(* Whatever is stored meanwhile, the pages of one walk show no record twice *)
(* and only records of the filter, and the last of them completes every     *)
(* record that was stored when the first was read (query.ts:98-129 with     *)
(* useRoutingEvents.ts:63-118).  It is said of walks that leave no page     *)
(* before its answer: Next after a failed answer follows the cursor of      *)
(* another page and can pass one over.                                      *)
PagesCoverOnce ==
  shown.status = "ready" /\ ran = Deps /\ walk.sound =>
    /\ Len(walk.pages) = pageIndex + 1 /\ walk.pages[pageIndex + 1] = shown.events
    /\ \A i, j \in DOMAIN walk.pages : i # j => walk.pages[i] \cap walk.pages[j] = {}
    /\ \A e \in shown.events : Matches(e, chosen)
    /\ shown.nextCursor = NoCursor =>
         walk.due \subseteq UNION {walk.pages[i] : i \in DOMAIN walk.pages}
=============================================================================
