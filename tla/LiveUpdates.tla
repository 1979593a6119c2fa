----------------------------- MODULE LiveUpdates -----------------------------
(***************************************************************************)
(* The pages that show the signing log, and how they learn of new rows.    *)
(* Every request is logged and then announced on the Redis channel of its  *)
(* user; a subscriber per open dashboard turns an announcement into an     *)
(* event on an HTTP stream, and the page loads its statistics and its list *)
(* again.                                                                  *)
(*                                                                         *)
(* One user and one tab: channels and queries are those of one user.  The  *)
(* tab shows the dashboard, the log of a connection, or another page.      *)
(* What is announced without a row, a new connection or a decision on what *)
(* one asked for, has the page load in the same way and is left out.       *)
(***************************************************************************)
EXTENDS Statistics, FiniteSetsExt

CONSTANTS
  Initially,   \* the range the dashboard opens with
  Existing,    \* the log at the start: rows of times up to 0
  MaxTime, MaxRows,
  MaxInputs,   \* bound: clicks, and calls and streams lost
  MaxLoads     \* bound: calls of the page that are under way

Rows == 1..MaxRows
Loads == 1..MaxLoads
Filters == Names \cup {None}

Row == [name : Names, time : Int]

\* What a stats call answers, at: when it was asked, seen: rows there were when
\* the chart was made.
Stats == [range : Ranges, at : 0..MaxTime, names : SUBSET Names,
          buckets : Seq(Nat), seen : 0..MaxRows]

\* loading: the page shows nothing else; number, filter, data, pages: its list;
\* stats: of its statistics, the names it can filter by.
View == [page : {"away", "dashboard", "logs"}, loading : BOOLEAN, range : Ranges,
         number : Nat \ {0}, filter : Filters, data : SUBSET Rows, pages : Nat,
         stats : (SUBSET Names) \cup {None}]

StatsLoad == [op : {"stats"}, range : Ranges, step : {"count", "chart", "answered", "failed"},
              answer : Stats \cup {None}]

\* listed, counted: rows there were when each of the two queries ran.
ListLoad == [op : {"list"}, number : Nat \ {0}, filter : Filters,
             step : {"asked", "failed"}, data : SUBSET Rows, total : 0..MaxRows,
             listed : (0..MaxRows) \cup {None}, counted : (0..MaxRows) \cup {None}]

\* A chunk of the stream is an event, or the head or the tail of one.
Chunk == {"event", "head", "tail"}

\* buffer: the page keeps a head.  The greeting of the stream is left out.
Stream == [phase : {"none", "asked", "opening", "subscribed", "over"},
           wire : Seq(Chunk), buffer : BOOLEAN]

ASSUME LiveUpdatesAssumption ==
  /\ Initially \in Ranges
  /\ MaxTime \in Nat /\ MaxRows \in Nat /\ MaxInputs \in Nat
  /\ MaxLoads \in Nat \ {0, 1}
  /\ Existing \in Seq(Row) /\ Len(Existing) <= MaxRows
  /\ None \notin StatsLoad \cup ListLoad

VARIABLES
  now,
  log,         \* signing_logs of the user, oldest first
  unannounced, \* rows whose handler has yet to publish
  stream,      \* the subscriber and the HTTP stream of the tab
  view,        \* the page
  load,        \* Loads -> a call that is under way, or None
  inputs,
  sent,        \* history: rows whose event went on the stream
  upTo,        \* history: rows of the log when the newest list shown was made
  walk,        \* history: [from, seen] since page 1 was shown, or None
  hasty        \* history: the reader turned pages while one was loading

vars == <<now, log, unannounced, stream, view, load, inputs, sent, upTo, walk, hasty>>
server == <<now, log, unannounced>>
history == <<sent, upTo, walk, hasty>>

TypeOK ==
  /\ now \in 0..MaxTime
  /\ log \in Seq(Row) /\ Len(log) <= MaxRows
  /\ unannounced \subseteq Rows
  /\ stream \in Stream
  /\ view \in View
  /\ \A i \in Loads : load[i] = None \/ load[i] \in StatsLoad \/ load[i] \in ListLoad
  /\ inputs \in 0..MaxInputs
  /\ sent \subseteq Rows
  /\ upTo \in 0..MaxRows
  /\ walk = None \/ walk \in [from : 0..MaxRows, seen : SUBSET Rows]
  /\ hasty \in BOOLEAN

NoStream == [phase |-> "none", wire |-> <<>>, buffer |-> FALSE]

Away == [page |-> "away", loading |-> TRUE, range |-> Initially, number |-> 1,
         filter |-> None, data |-> {}, pages |-> 1, stats |-> None]

NoLoads == [i \in Loads |-> None]

Init ==
  /\ now = 0
  /\ log = Existing
  /\ unannounced = {}
  /\ stream = NoStream
  /\ view = Away
  /\ load = NoLoads
  /\ inputs = 0
  /\ sent = {} /\ upTo = 0 /\ walk = None /\ hasty = FALSE

Input ==
  /\ inputs < MaxInputs
  /\ inputs' = inputs + 1
-----------------------------------------------------------------------------
(* Requests of clients, and what is announced.                               *)

Tick ==
  /\ now < MaxTime
  /\ now' = now + 1
  /\ UNCHANGED <<log, unannounced, stream, view, load, inputs, history>>

\* A request was handled: its row is written, and then it is announced.
LogSigningAction(n) ==
  /\ Len(log) < MaxRows
  /\ log' = Append(log, [name |-> n, time |-> now])
  /\ unannounced' = unannounced \cup {Len(log')}
  /\ UNCHANGED <<now, stream, view, load, inputs, history>>

\* An event is written, and arrives in one chunk or two.
Written(wire) == {Append(wire, "event"), wire \o <<"head", "tail">>}

\* publishUserActivity reaches whoever is subscribed; a failure is only logged.
Publish(k) ==
  /\ k \in unannounced
  /\ unannounced' = unannounced \ {k}
  /\ IF stream.phase = "subscribed"
     THEN \/ UNCHANGED <<stream, sent>>
          \/ /\ \E w \in Written(stream.wire) : stream' = [stream EXCEPT !.wire = w]
             /\ sent' = sent \cup {k}
     ELSE UNCHANGED <<stream, sent>>
  /\ UNCHANGED <<now, log, view, load, inputs, upTo, walk, hasty>>
-----------------------------------------------------------------------------
(* The stream.                                                               *)

\* The token is good and Redis is there: the subscription is asked for, and
\* the stream begins; otherwise the answer is an error.
OpenStream ==
  /\ stream.phase = "asked"
  /\ \E p \in {"opening", "over"} : stream' = [stream EXCEPT !.phase = p]
  /\ UNCHANGED <<server, view, load, inputs, history>>

\* Redis has the subscription.
Subscribed ==
  /\ stream.phase = "opening"
  /\ stream' = [stream EXCEPT !.phase = "subscribed"]
  /\ UNCHANGED <<server, view, load, inputs, history>>

\* The connection breaks: nobody opens the stream again.
DropStream ==
  /\ stream.phase \in {"opening", "subscribed"}
  /\ stream' = [NoStream EXCEPT !.phase = "over"]
  /\ sent' = {}
  /\ Input
  /\ UNCHANGED <<server, view, load, upTo, walk, hasty>>

\* Mutant: every chunk is taken for lines of its own.
CompletesAlone(buffer, c) == c = "event"

\* A chunk completes a line.
Completes(buffer, c) == c = "event" \/ (c = "tail" /\ buffer)

\* A stats or a list call of the page.
NewStats(r) == [op |-> "stats", range |-> r, step |-> "count", answer |-> None]

NewList(v) ==
  [op |-> "list", number |-> v.number, filter |-> v.filter, step |-> "asked",
   data |-> {}, total |-> 0, listed |-> None, counted |-> None]

Free == {i \in Loads : load[i] = None}

Begin(call) == load' = [load EXCEPT ![Min(Free)] = call]

BeginTwo(c, d) ==
  /\ Cardinality(Free) >= 2
  /\ LET i == Min(Free) IN load' = [load EXCEPT ![i] = c, ![Min(Free \ {i})] = d]

\* A chunk arrives.  An activity event has the page load all of it again.
ReadStream ==
  /\ stream.wire # <<>>
  /\ LET c == Head(stream.wire) IN
     /\ stream' = [stream EXCEPT !.wire = Tail(@), !.buffer = (c = "head")]
     /\ IF Completes(stream.buffer, c)
        THEN /\ BeginTwo(NewStats(view.range), NewList(view))
             /\ view' = [view EXCEPT !.loading = TRUE]
        ELSE UNCHANGED <<view, load>>
  /\ UNCHANGED <<server, inputs, history>>
-----------------------------------------------------------------------------
(* The pages.                                                                *)

Forgets ==
  /\ sent' = {} /\ upTo' = 0 /\ walk' = None /\ hasty' = FALSE

\* The dashboard is mounted: it opens its stream and loads all it shows.
EnterDashboard ==
  /\ view.page = "away"
  /\ view' = [Away EXCEPT !.page = "dashboard"]
  /\ load' = [NoLoads EXCEPT ![1] = NewStats(Initially), ![2] = NewList(Away)]
  /\ stream' = [NoStream EXCEPT !.phase = "asked"]
  /\ Input /\ Forgets
  /\ UNCHANGED server

\* The log of a connection is mounted.
EnterLogs(n) ==
  /\ view.page = "away"
  /\ view' = [Away EXCEPT !.page = "logs", !.filter = n]
  /\ load' = [NoLoads EXCEPT ![1] = NewList([Away EXCEPT !.filter = n])]
  /\ Input /\ Forgets
  /\ UNCHANGED <<server, stream>>

\* The page is left: the stream is aborted, answers come too late to be seen.
Leave ==
  /\ view.page # "away"
  /\ view' = Away
  /\ load' = NoLoads
  /\ stream' = NoStream
  /\ Input /\ Forgets
  /\ UNCHANGED server

\* While it loads, and if it has no statistics, the dashboard shows no controls.
HasControls == view.page = "dashboard" /\ ~ view.loading /\ view.stats # None

SelectRange(r) ==
  /\ HasControls /\ Free # {}
  /\ view' = [view EXCEPT !.range = r]
  /\ Begin(NewStats(r))
  /\ Input
  /\ UNCHANGED <<server, stream, history>>

Listing == \E i \in Loads : load[i] # None /\ load[i].op = "list"

\* The list is loaded for v; the log page shows nothing else meanwhile.
Reload(v) ==
  /\ Free # {}
  /\ view' = [v EXCEPT !.loading = v.page = "logs"]
  /\ Begin(NewList(v))
  /\ Input
  /\ hasty' = (hasty \/ Listing)

ApplyFilters(f) ==
  /\ HasControls
  /\ f \in view.stats \cup {None} /\ f # view.filter
  /\ Reload([view EXCEPT !.filter = f, !.number = 1])
  /\ walk' = None
  /\ UNCHANGED <<server, stream, sent, upTo>>

HasRows == view.page = "logs" /\ ~ view.loading /\ view.data # {}

\* Mutant: the button to the page before is never disabled.
PrevPageAlways ==
  /\ \/ HasControls /\ view.pages > 1
     \/ HasRows
  /\ Reload([view EXCEPT !.number = @ - 1])
  /\ UNCHANGED <<server, stream, sent, upTo, walk>>

PrevPage ==
  /\ \/ HasControls /\ view.pages > 1
     \/ HasRows
  /\ view.number > 1
  /\ Reload([view EXCEPT !.number = @ - 1])
  /\ UNCHANGED <<server, stream, sent, upTo, walk>>

\* The dashboard knows how many pages there are, the log page only whether this
\* one is full.
NextPage ==
  /\ \/ HasControls /\ view.number < view.pages
     \/ HasRows /\ Cardinality(view.data) = PageSize
  /\ Reload([view EXCEPT !.number = @ + 1])
  /\ UNCHANGED <<server, stream, sent, upTo, walk>>

\* A stats call was answered.
ShowStats(i) ==
  /\ load[i] # None /\ load[i].op = "stats" /\ load[i].step = "answered"
  /\ view' = [view EXCEPT !.stats = load[i].answer.names, !.loading = FALSE]
  /\ load' = [load EXCEPT ![i] = None]
  /\ UNCHANGED <<server, stream, inputs, history>>

\* A list call was answered: both its queries ran.  History: a list that has rows its
\* count does not know ends the walk.
ShowPage(i) ==
  /\ load[i] # None /\ load[i].op = "list" /\ load[i].step = "asked"
  /\ load[i].listed # None /\ load[i].counted # None
  /\ LET l == load[i] IN
     /\ view' = [view EXCEPT !.data = l.data,
                   !.pages = IF view.page = "logs" THEN @ ELSE TotalPages(l.total),
                   !.loading = IF view.page = "logs" THEN FALSE ELSE @]
     /\ upTo' = Max({upTo, l.listed})
     /\ walk' = IF l.listed # l.counted THEN None
                ELSE IF l.number = 1 THEN [from |-> l.listed, seen |-> l.data]
                ELSE IF walk = None THEN None
                ELSE [walk EXCEPT !.seen = @ \cup l.data]
  /\ load' = [load EXCEPT ![i] = None]
  /\ UNCHANGED <<server, stream, inputs, sent, hasty>>

\* A call failed: statistics and logs stay, the list of the dashboard is emptied.
FailLoad(i) ==
  /\ load[i] # None /\ load[i].step = "failed"
  /\ view' = IF load[i].op = "list" /\ view.page = "dashboard"
             THEN [view EXCEPT !.data = {}] ELSE [view EXCEPT !.loading = FALSE]
  /\ load' = [load EXCEPT ![i] = None]
  /\ IF load[i].op = "list" THEN walk' = None /\ sent' = {} ELSE UNCHANGED <<walk, sent>>
  /\ UNCHANGED <<server, stream, inputs, upTo, hasty>>

Show(i) == ShowStats(i) \/ ShowPage(i) \/ FailLoad(i)
-----------------------------------------------------------------------------
(* The calls on the server.                                                  *)

\* getDashboardStats reads the clock and counts ...
CountStats(i) ==
  /\ load[i] # None /\ load[i].op = "stats" /\ load[i].step = "count"
  /\ load' = [load EXCEPT
       ![i].step = "chart",
       ![i].answer = [range |-> load[i].range, at |-> now,
                      names |-> NamesIn(log), seen |-> 0,
                      buckets |-> [b \in 1..SlotCount[load[i].range] |-> 0]]]
  /\ UNCHANGED <<server, stream, view, inputs, history>>

\* ... and then makes the chart.
BuildActivityBuckets(i) ==
  /\ load[i] # None /\ load[i].op = "stats" /\ load[i].step = "chart"
  /\ load' = [load EXCEPT
       ![i].step = "answered",
       ![i].answer.buckets = Buckets(load[i].range, load[i].answer.at, log),
       ![i].answer.seen = Len(log)]
  /\ UNCHANGED <<server, stream, view, inputs, history>>

\* getDashboardActivity and getLogsForConnection run two queries at once.
FindRows(i) ==
  /\ load[i] # None /\ load[i].op = "list" /\ load[i].step = "asked"
  /\ \/ /\ load[i].listed = None
        /\ load' = [load EXCEPT ![i].listed = Len(log),
                      ![i].data = PageOf(Matching(log, load[i].filter), load[i].number)]
     \/ /\ load[i].counted = None
        /\ load' = [load EXCEPT ![i].counted = Len(log),
                      ![i].total = Cardinality(Matching(log, load[i].filter))]
  /\ UNCHANGED <<server, stream, view, inputs, history>>

Serve(i) == CountStats(i) \/ BuildActivityBuckets(i) \/ FindRows(i)

\* A call or its answer is lost; queries change nothing, so it is lost at once.
LoseLoad(i) ==
  /\ load[i] # None
  /\ \/ load[i].op = "stats" /\ load[i].step = "count"
     \/ load[i].op = "list" /\ load[i].step = "asked"
        /\ load[i].listed = None /\ load[i].counted = None
  /\ load' = [load EXCEPT ![i].step = "failed"]
  /\ Input
  /\ UNCHANGED <<server, stream, view, history>>

Click ==
  \/ EnterDashboard \/ Leave \/ PrevPage \/ NextPage
  \/ \E n \in Names : EnterLogs(n)
  \/ \E r \in Ranges : SelectRange(r)
  \/ \E f \in Filters : ApplyFilters(f)

Next ==
  \/ Tick \/ OpenStream \/ Subscribed \/ DropStream \/ ReadStream \/ Click
  \/ \E n \in Names : LogSigningAction(n)
  \/ \E k \in unannounced : Publish(k)
  \/ \E i \in Loads : Serve(i) \/ Show(i) \/ LoseLoad(i)

\* The network and the browser deliver what they do not lose, and the server
\* answers; nobody has to click, to sign, or to announce.
Fairness ==
  /\ WF_vars(ReadStream)
  /\ \A i \in Loads : WF_vars(Serve(i)) /\ WF_vars(Show(i))

Spec == Init /\ [][Next]_vars /\ Fairness
-----------------------------------------------------------------------------
(* Properties.                                                               *)

\* What the last 0, 1, 2 ... of so many buckets add up to.
LastOf(buckets, count) ==
  LET last[j \in 0..count] == IF j = 0 THEN 0 ELSE last[j - 1] + buckets[count - j + 1] IN
  last

\* Whenever the clock was read and whatever was logged since: the last j buckets
\* of a chart answered hold every row that was younger than j - 1 slots, and none that
\* was as old as j slots.
ChartHolds(s) ==
  LET length == SlotLength[s.range]
      count == SlotCount[s.range]
      old == {k \in 1..s.seen : log[k].time <= s.at}
      new == (1..s.seen) \ old
      age(k) == s.at - log[k].time
      lastOf == LastOf(s.buckets, count) IN
  \A j \in 1..count :
    /\ lastOf[j] >= Cardinality({k \in old : age(k) <= (j - 1) * length})
    /\ lastOf[j] <= Cardinality(new \cup {k \in old : age(k) < j * length})

ChartCountsAll ==
  \A i \in Loads :
    load[i] # None /\ load[i].op = "stats" /\ load[i].step = "answered" =>
      ChartHolds(load[i].answer)

\* Whoever turns the pages to the last one, waiting for each, has seen every row
\* there was when page 1 was made, however many were added meanwhile; unless a
\* call failed or rows came between the two queries of one.
NothingSkipped ==
  walk # None /\ ~ hasty /\ ~ Listing
    /\ (IF view.page = "logs" THEN Cardinality(view.data) < PageSize
        ELSE view.number >= view.pages) =>
    (Matching(log, view.filter) \cap 1..walk.from) \subseteq walk.seen

\* A row whose event went on the stream is reckoned with in a list shown later,
\* unless the page is left, the stream breaks or a list call fails.
LogIsSeen ==
  \A k \in Rows \ DOMAIN Existing : k \in sent ~> (k \notin sent \/ upTo >= k)
==============================================================================
