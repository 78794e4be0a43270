---------------------------- MODULE OperatorTui ----------------------------
(***************************************************************************)
(* The operator screen (internal/tui/dashboard.go, operator.go).  Bubble   *)
(* Tea runs Update for one message at a time: a key, or the event that the *)
(* one waitForEvent command in flight took from the feed.  Two panes, the  *)
(* events and the campaigns, share one cursor; `r` reloads both from the   *)
(* store.  `b` and `p` hand the selection to BlockIP and CaptureNow        *)
(* (modules Soar and OnDemandCapture) and leave the screen as it is.       *)
(*                                                                         *)
(* The bus is the environment: it correlates an event, persists it and     *)
(* offers it to the feed (cmd/shinkiro/up.go).  Addresses stand for the    *)
(* campaigns, which the pane holds by reference; the help page and the     *)
(* status line are layout.                                                 *)
(***************************************************************************)
EXTENDS Integers, Sequences, FiniteSets, SequencesExt

CONSTANTS
  Event, IP, RemoteIP,
  ThreatScore,    \* Event -> Nat
  Stamp,          \* Event -> its timestamp
  Critical,       \* the events of critical severity
  MinScore,       \* of the events `r` loads: 50
  Rows,           \* rows of a pane: 15
  LoadCap,        \* of the events `r` loads, the newest so many: 200
  EarlierFiles,   \* what events.jsonl may hold from earlier runs
  FeedCap         \* capacity of the feed: 200

ASSUME TuiAssumption ==
  /\ RemoteIP \in [Event -> IP]
  /\ ThreatScore \in [Event -> Nat] /\ Stamp \in [Event -> Nat]
  /\ Critical \subseteq Event
  /\ MinScore \in Nat /\ Rows \in Nat \ {0} /\ FeedCap \in Nat
  /\ LoadCap \in Nat \ {0}
  /\ \A s \in EarlierFiles :
       s \in Seq(Event) /\ \A i, j \in DOMAIN s : s[i] = s[j] => i = j

VARIABLES
  bus,          \* the event between its correlation and its persisting, if any
  store,        \* events.jsonl: the events persisted, in order
  board,        \* the correlator: IP -> its campaign, or NoCampaign
  feed,         \* tuiEvents
  waiting,      \* a waitForEvent command is in flight
  inHand,       \* events it has taken and Update has not seen
  built,        \* the screen is there: the listeners were started before it
  quit,         \* the operator has left
  events,       \* Model.events
  campaigns,    \* Model.campaigns
  cursor,       \* Model.cursor, from 0
  focus,        \* Model.focus
  totalProbes, criticals,
  received,     \* history: events Update has seen
  loaded        \* history: what of the store the last reload got, and when

vars == <<bus, store, board, feed, waiting, inHand, built, quit, events, campaigns,
          cursor, focus, totalProbes, criticals, received, loaded>>
backend == <<bus, store, board>>
wire == <<feed, waiting, inHand>>
model == <<events, campaigns, cursor, focus, totalProbes, criticals>>
history == <<received, loaded>>

NoCampaign == [score |-> 0, seen |-> -1]

-----------------------------------------------------------------------------
Capped(s) == SubSeq(s, 1, IF Len(s) < Rows THEN Len(s) ELSE Rows)

\* Engine.RecentEvents: the newest LoadCap.
RecentEvents(s) == SubSeq(s, IF Len(s) > LoadCap THEN 1 + Len(s) - LoadCap ELSE 1, Len(s))

\* Which of two rows SliceStable puts first: by score, then time, both descending, and
\* what is equal in both keeps its place.
Above(score, time, i, j) ==
  \/ score[i] > score[j]
  \/ score[i] = score[j] /\ time[i] > time[j]
  \/ score[i] = score[j] /\ time[i] = time[j] /\ i < j

\* The rows of s at the places `kept`, sorted and then cut.
SortRows(s, kept, score, time) ==
  LET Place(i) == 1 + Cardinality({j \in kept : Above(score, time, j, i)})
      n == Cardinality(kept)
  IN  [k \in 1..(IF n < Rows THEN n ELSE Rows) |-> s[CHOOSE i \in kept : Place(i) = k]]

HighScoreEvents(s) ==
  SortRows(s, {i \in DOMAIN s : ThreatScore[s[i]] >= MinScore},
           [i \in DOMAIN s |-> ThreatScore[s[i]]], [i \in DOMAIN s |-> Stamp[s[i]]])

\* ActiveCampaigns walks a map: campaigns equal in score and time come in any
\* order.
CampaignPanes ==
  {SortRows(s, DOMAIN s, [i \in DOMAIN s |-> board[s[i]].score],
            [i \in DOMAIN s |-> board[s[i]].seen]) :
     s \in SetToSeqs({ip \in IP : board[ip] # NoCampaign})}

\* clampCursor, for a pane of n rows.
Clamp(c, n) == IF n = 0 \/ c < 0 THEN 0 ELSE IF c > n - 1 THEN n - 1 ELSE c

PaneLen == IF focus = "events" THEN Len(events) ELSE Len(campaigns)

SelectedIP ==
  IF cursor >= PaneLen THEN {}
  ELSE IF focus = "events" THEN {RemoteIP[events[cursor + 1]]} ELSE {campaigns[cursor + 1]}

-----------------------------------------------------------------------------
Init ==
  /\ bus = <<>>
  /\ store \in EarlierFiles
  /\ events = <<>> /\ loaded = [store |-> <<>>, at |-> 0]
  /\ feed = <<>> /\ waiting = FALSE /\ inHand = <<>>
  /\ built = FALSE /\ quit = FALSE
  /\ board = [ip \in IP |-> NoCampaign]
  /\ campaigns = <<>>
  /\ cursor = 0 /\ focus = "events"
  /\ totalProbes = 0 /\ criticals = 0
  /\ received = <<>>

\* The bus: the event joins its address's campaign, or opens a new one.
Correlate(e) ==
  /\ bus = <<>> /\ ~Contains(store, e)
  /\ bus' = <<e>>
  /\ \E score \in {ThreatScore[e], board[RemoteIP[e]].score} :
       /\ score >= ThreatScore[e]
       /\ board' = [board EXCEPT ![RemoteIP[e]] = [score |-> score, seen |-> Stamp[e]]]
  /\ UNCHANGED <<store, wire, built, quit, model, history>>

\* The bus: persist, then offer the event to the feed; no persisting, no offer.
Publish ==
  /\ bus # <<>>
  /\ bus' = <<>>
  /\ \/ /\ store' = store \o bus
        /\ feed' = IF Len(feed) < FeedCap THEN feed \o bus ELSE feed
     \/ UNCHANGED <<store, feed>>
  /\ UNCHANGED <<board, waiting, inHand, built, quit, model, history>>

\* The command of waitForEvent, on a goroutine of its own.
WaitForEvent ==
  /\ waiting /\ feed # <<>>
  /\ waiting' = FALSE
  /\ inHand' = Append(inHand, Head(feed))
  /\ feed' = Tail(feed)
  /\ UNCHANGED <<backend, built, quit, model, history>>

ReceiveEvent_CursorStays ==
  /\ ~quit /\ inHand # <<>>
  /\ LET e == Head(inHand) IN
       /\ totalProbes' = totalProbes + 1
       /\ criticals' = criticals + (IF e \in Critical THEN 1 ELSE 0)
       /\ events' = Capped(<<e>> \o events)
       /\ received' = Append(received, e)
  /\ campaigns' \in CampaignPanes
  /\ inHand' = Tail(inHand) /\ waiting' = TRUE
  /\ UNCHANGED <<backend, feed, built, quit, cursor, focus, loaded>>

ReceiveEvent_NoNewWait ==
  /\ ~quit /\ inHand # <<>>
  /\ LET e == Head(inHand) IN
       /\ totalProbes' = totalProbes + 1
       /\ criticals' = criticals + (IF e \in Critical THEN 1 ELSE 0)
       /\ events' = Capped(<<e>> \o events)
       /\ received' = Append(received, e)
  /\ cursor' = IF focus = "events" THEN Clamp(cursor + 1, Len(events')) ELSE cursor
  /\ campaigns' \in CampaignPanes
  /\ inHand' = Tail(inHand)
  /\ UNCHANGED <<backend, feed, waiting, built, quit, focus, loaded>>

\* Update on an eventMsg, which asks for the next one.  The cursor follows the row
\* it is on in the event pane; the campaigns are sorted again under it.
ReceiveEvent ==
  /\ ~quit /\ inHand # <<>>
  /\ LET e == Head(inHand) IN
       /\ totalProbes' = totalProbes + 1
       /\ criticals' = criticals + (IF e \in Critical THEN 1 ELSE 0)
       /\ events' = Capped(<<e>> \o events)
       /\ received' = Append(received, e)
  /\ cursor' = IF focus = "events" THEN Clamp(cursor + 1, Len(events')) ELSE cursor
  /\ campaigns' \in CampaignPanes
  /\ inHand' = Tail(inHand) /\ waiting' = TRUE
  /\ UNCHANGED <<backend, feed, built, quit, focus, loaded>>

Tab_KeepsCursor ==
  /\ focus' = IF focus = "events" THEN "campaigns" ELSE "events"
  /\ UNCHANGED <<backend, wire, built, quit, events, campaigns, cursor, totalProbes, criticals,
                 history>>

\* tab.
Tab ==
  /\ focus' = IF focus = "events" THEN "campaigns" ELSE "events"
  /\ cursor' = 0
  /\ UNCHANGED <<backend, wire, built, quit, events, campaigns, totalProbes, criticals,
                 history>>

\* up and down.
MoveCursor(delta) ==
  /\ cursor' = Clamp(cursor + delta, PaneLen)
  /\ UNCHANGED <<backend, wire, built, quit, events, campaigns, focus, totalProbes, criticals,
                 history>>

RefreshFromStore_KeepsRows ==
  /\ events' = Capped(HighScoreEvents(RecentEvents(store)) \o events)
  /\ campaigns' \in CampaignPanes
  /\ cursor' = Clamp(cursor, IF focus = "events" THEN Len(events') ELSE Len(campaigns'))
  /\ loaded' = [store |-> RecentEvents(store), at |-> Len(received)]
  /\ UNCHANGED <<backend, feed, inHand, quit, focus, totalProbes, criticals, received>>

\* Both panes from the store; what is still in the feed will come again.
RefreshFromStore ==
  /\ events' = HighScoreEvents(RecentEvents(store))
  /\ campaigns' \in CampaignPanes
  /\ cursor' = Clamp(cursor, IF focus = "events" THEN Len(events') ELSE Len(campaigns'))
  /\ loaded' = [store |-> RecentEvents(store), at |-> Len(received)]
  /\ UNCHANGED <<backend, feed, inHand, quit, focus, totalProbes, criticals, received>>

\* NewModel, after the listeners were started, and Init, which asks for an event.
NewModel ==
  /\ ~built
  /\ RefreshFromStore
  /\ built' = TRUE /\ waiting' = TRUE

\* `r`.
Reload == RefreshFromStore /\ UNCHANGED <<built, waiting>>

Quit ==
  /\ quit' = TRUE
  /\ UNCHANGED <<backend, wire, built, model, history>>

Key ==
  /\ built /\ ~quit
  /\ \/ Tab \/ Reload \/ Quit
     \/ \E delta \in {-1, 1} : MoveCursor(delta)

Next ==
  \/ \E e \in Event : Correlate(e)
  \/ Publish
  \/ NewModel \/ WaitForEvent \/ ReceiveEvent
  \/ Key

Spec == Init /\ [][Next]_vars

\* The command builds its screen; Bubble Tea runs the commands it is given and feeds
\* Update their messages.  The operator need not press a key, nor the bus have events.
FairSpec == Spec /\ WF_vars(NewModel) /\ WF_vars(WaitForEvent) /\ WF_vars(ReceiveEvent)

-----------------------------------------------------------------------------
\* The cursor is on a row of the pane it is in, or the pane is empty: a key acts
\* on what is marked, though panes are resorted, reloaded and cut while the
\* cursor is in them (operator.go:226-242).
CursorOnRow == SelectedIP = {} => cursor = 0 /\ PaneLen = 0

\* An event that comes in leaves the selection in the event pane where it was,
\* on the same event, unless that event fell off the pane's end
\* (dashboard.go:149-152).
SelectionSticks ==
  [][received' # received /\ focus = "events" /\ events # <<>> =>
       \/ events'[cursor' + 1] = events[cursor + 1]
       \/ cursor + 1 = Rows /\ cursor' = cursor]_vars

\* The event pane is the events of the feed since the last reload, the latest
\* first, above what the reload found; an event in two rows was in both, which
\* takes a reload while the event was still on its way through the feed
\* (dashboard.go:145-148, operator.go:209-210).
PaneIsFeedOverStore ==
  LET since == SubSeq(received, loaded.at + 1, Len(received))
  IN  /\ events = Capped(Reverse(since) \o HighScoreEvents(loaded.store))
      /\ \A i, j \in DOMAIN events : i < j /\ events[i] = events[j] =>
           Contains(since, events[i]) /\ Contains(loaded.store, events[i])

\* While the operator stays, what the bus put into the feed gets to the screen:
\* every message received asks for the next (dashboard.go:124-133, 159).
FeedReachesScreen ==
  \A e \in Event : Contains(feed, e) ~> (quit \/ Contains(received, e))
=============================================================================
