--------------------------- MODULE EventPipeline ---------------------------
(***************************************************************************)
(* The event path of `shinkiro up` and `shinkiro tui` (cmd/shinkiro/up.go, *)
(* internal/pipeline/pipeline.go): decoy handlers emit into a bounded      *)
(* channel without ever blocking; one goroutine, Bus.RunChannel, takes the *)
(* events one by one through Score, Correlate, Playbook and Sink; the sink *)
(* counts, alerts, captures, persists and feeds the operator screen.       *)
(*                                                                         *)
(* A step of the bus is one call that other goroutines or the disk can     *)
(* observe.  The callees are seen here by what the pipeline relies on: the *)
(* order of their calls and whether they fail.                             *)
(***************************************************************************)
EXTENDS Naturals, Sequences, FiniteSets, FiniteSetsExt

CONSTANTS
  Event,          \* the events decoy handlers may emit, each at most once
  IP,             \* remote addresses
  RemoteIP,       \* Event -> IP
  ThreatScore,    \* Event -> Nat, assigned by the decoy
  Critical,       \* the events of severity CRITICAL
  PreMapped,      \* the events a decoy emits with Mitre already set (modbus)
  EventsCap,      \* capacity of the events channel (200 in up.go)
  TuiCap,         \* capacity of the tuiEvents channel (200 in up.go)
  PcapThreshold,  \* score gate of the on-demand capture
  BlockedScore,   \* score from which the sink counts a "blocked" probe (80)
  Interactive,    \* TRUE under `shinkiro tui`
  NoLine          \* the bus holds no event

Line == [ev : Event, mitre : BOOLEAN, pcap : BOOLEAN]

ASSUME PipelineAssumption ==
  /\ RemoteIP \in [Event -> IP]
  /\ ThreatScore \in [Event -> Nat]
  /\ Critical \subseteq Event
  /\ PreMapped \subseteq Event
  /\ EventsCap \in Nat \ {0}
  /\ TuiCap \in Nat \ {0}
  /\ PcapThreshold \in Nat
  /\ BlockedScore \in Nat
  /\ Interactive \in BOOLEAN
  /\ NoLine \notin Line

VARIABLES
  \* the channels
  events,         \* chan intel.Event between the decoys and the bus
  tuiEvents,      \* chan intel.Event between the sink and the screen
  ctxDone,        \* the context of RunChannel is cancelled
  \* the bus goroutine
  bus,            \* its control point
  cur,            \* the event it works on, with what the stages added to it
  \* what the stages have done to the components they call
  ingested,       \* events given to Correlator.Ingest, in order
  ruled,          \* events given to soar.Engine.Process, in order
  metrics,        \* the Prometheus counters
  alerted,        \* events posted to the webhook
  captured,       \* events with a forensic frame on disk
  blocklist,      \* Engine.blocklist: cumulative score of each address
  jsonl,          \* the lines of events.jsonl
  tuiSeen,        \* events the screen has received, in order
  \* history, read by properties only
  emitted,        \* events handed to a channel send, accepted or dropped
  accepted        \* those the channel took, in order

busVars == <<bus, cur>>
sinkVars == <<metrics, alerted, captured, blocklist, jsonl>>
history == <<emitted, accepted>>
vars == <<events, tuiEvents, ctxDone, bus, cur, ingested, ruled, metrics,
          alerted, captured, blocklist, jsonl, tuiSeen, emitted, accepted>>

-----------------------------------------------------------------------------
Init ==
  /\ events = <<>> /\ tuiEvents = <<>> /\ ctxDone = FALSE
  /\ bus = "select" /\ cur = NoLine
  /\ ingested = <<>> /\ ruled = <<>>
  /\ metrics = [connections |-> 0, critical |-> 0, blocked |-> 0]
  /\ alerted = {} /\ captured = {}
  /\ blocklist = [ip \in IP |-> 0]
  /\ jsonl = <<>> /\ tuiSeen = <<>>
  /\ emitted = {} /\ accepted = <<>>

\* Faulty variants, named <definition>_<fault>, stand before the definition they
\* alter; they show that the properties below can fail and model no code.
Emit_Unbounded(e) ==
  /\ e \notin emitted
  /\ emitted' = emitted \cup {e}
  /\ events' = Append(events, e)
  /\ accepted' = Append(accepted, e)
  /\ UNCHANGED <<tuiEvents, ctxDone, busVars, ingested, ruled, sinkVars, tuiSeen>>

Emit_DropsOldest(e) ==
  /\ e \notin emitted
  /\ emitted' = emitted \cup {e}
  /\ events' = Append(IF Len(events) < EventsCap THEN events ELSE Tail(events), e)
  /\ accepted' = Append(accepted, e)
  /\ UNCHANGED <<tuiEvents, ctxDone, busVars, ingested, ruled, sinkVars, tuiSeen>>

\* A decoy sends: select { case events <- ev: default: }.
Emit(e) ==
  /\ e \notin emitted
  /\ emitted' = emitted \cup {e}
  /\ \/ /\ Len(events) < EventsCap
        /\ events' = Append(events, e)
        /\ accepted' = Append(accepted, e)
     \/ /\ Len(events) = EventsCap
        /\ UNCHANGED <<events, accepted>>
  /\ UNCHANGED <<tuiEvents, ctxDone, busVars, ingested, ruled, sinkVars, tuiSeen>>

Take_Newest ==
  /\ bus = "select"
  /\ events # <<>>
  /\ events' = SubSeq(events, 1, Len(events) - 1)
  /\ cur' = [ev |-> events[Len(events)], mitre |-> FALSE, pcap |-> FALSE]
  /\ bus' = "score"
  /\ UNCHANGED <<tuiEvents, ctxDone, ingested, ruled, sinkVars, tuiSeen, history>>

\* RunChannel's select: an event is ready, or the context is done.
Take ==
  /\ bus = "select"
  /\ events # <<>>
  /\ events' = Tail(events)
  /\ cur' = [ev |-> Head(events), mitre |-> Head(events) \in PreMapped, pcap |-> FALSE]
  /\ bus' = "score"
  /\ UNCHANGED <<tuiEvents, ctxDone, ingested, ruled, sinkVars, tuiSeen, history>>

ExitBus ==
  /\ bus = "select"
  /\ ctxDone
  /\ bus' = "exited"
  /\ UNCHANGED <<events, tuiEvents, ctxDone, cur, ingested, ruled, sinkVars, tuiSeen, history>>

\* Stage Score: the MITRE mapping is filled in when the decoy left it out.
Score ==
  /\ bus = "score"
  /\ cur' = [cur EXCEPT !.mitre = TRUE]
  /\ bus' = "correlate"
  /\ UNCHANGED <<events, tuiEvents, ctxDone, ingested, ruled, sinkVars, tuiSeen, history>>

Correlate_OnlyUnmapped ==
  /\ bus = "correlate"
  /\ ingested' = IF cur.ev \in PreMapped THEN ingested ELSE Append(ingested, cur.ev)
  /\ bus' = "playbook"
  /\ UNCHANGED <<events, tuiEvents, ctxDone, cur, ruled, sinkVars, tuiSeen, history>>

Correlate ==
  /\ bus = "correlate"
  /\ ingested' = Append(ingested, cur.ev)
  /\ bus' = "playbook"
  /\ UNCHANGED <<events, tuiEvents, ctxDone, cur, ruled, sinkVars, tuiSeen, history>>

Playbook ==
  /\ bus = "playbook"
  /\ ruled' = Append(ruled, cur.ev)
  /\ bus' = "count"
  /\ UNCHANGED <<events, tuiEvents, ctxDone, cur, ingested, sinkVars, tuiSeen, history>>

\* Stage Sink, first part: counters, and the webhook for a critical event,
\* whose failure is ignored.
SinkCount ==
  LET e == cur.ev
      isCritical == e \in Critical
      isBlocked == ThreatScore[e] >= BlockedScore
  IN  /\ bus = "count"
      /\ metrics' = [connections |-> metrics.connections + 1,
                     critical |-> metrics.critical + (IF isCritical THEN 1 ELSE 0),
                     blocked |-> metrics.blocked + (IF isBlocked THEN 1 ELSE 0)]
      /\ \/ isCritical /\ alerted' = alerted \cup {e}
         \/ UNCHANGED alerted
      /\ bus' = "capture"
      /\ UNCHANGED <<events, tuiEvents, ctxDone, cur, ingested, ruled, captured,
                     blocklist, jsonl, tuiSeen, history>>

SinkCapture_IgnoresError ==
  /\ bus = "capture"
  /\ cur' = [cur EXCEPT !.pcap = ThreatScore[cur.ev] >= PcapThreshold]
  /\ captured' \in {captured, captured \cup {cur.ev}}
  /\ bus' = "persist"
  /\ UNCHANGED <<events, tuiEvents, ctxDone, ingested, ruled, metrics, alerted,
                 blocklist, jsonl, tuiSeen, history>>

\* MaybeCapture: nothing below the threshold; a failed write is only logged.
SinkCapture ==
  /\ bus = "capture"
  /\ \/ /\ ThreatScore[cur.ev] >= PcapThreshold
        /\ captured' = captured \cup {cur.ev}
        /\ cur' = [cur EXCEPT !.pcap = TRUE]
     \/ UNCHANGED <<captured, cur>>
  /\ bus' = "persist"
  /\ UNCHANGED <<events, tuiEvents, ctxDone, ingested, ruled, metrics, alerted,
                 blocklist, jsonl, tuiSeen, history>>

SinkPersist_ErrorSwallowed ==
  /\ bus = "persist"
  /\ blocklist' = [blocklist EXCEPT ![RemoteIP[cur.ev]] = @ + ThreatScore[cur.ev]]
  /\ jsonl' \in {jsonl, Append(jsonl, cur)}
  /\ bus' = "fanout"
  /\ UNCHANGED cur
  /\ UNCHANGED <<events, tuiEvents, ctxDone, ingested, ruled, metrics, alerted,
                 captured, tuiSeen, history>>

SinkPersist_ErrorEndsBus ==
  /\ bus = "persist"
  /\ blocklist' = [blocklist EXCEPT ![RemoteIP[cur.ev]] = @ + ThreatScore[cur.ev]]
  /\ \/ jsonl' = Append(jsonl, cur) /\ bus' = "fanout" /\ UNCHANGED cur
     \/ bus' = "exited" /\ cur' = NoLine /\ UNCHANGED jsonl
  /\ UNCHANGED <<events, tuiEvents, ctxDone, ingested, ruled, metrics, alerted,
                 captured, tuiSeen, history>>

\* Engine.Persist: the blocklist grows first, then the line is appended; when
\* that fails the handler returns the error and Process ends here.
SinkPersist ==
  /\ bus = "persist"
  /\ blocklist' = [blocklist EXCEPT ![RemoteIP[cur.ev]] = @ + ThreatScore[cur.ev]]
  /\ \/ /\ jsonl' = Append(jsonl, cur)
        /\ bus' = "fanout"
        /\ UNCHANGED cur
     \/ /\ bus' = "select"
        /\ cur' = NoLine
        /\ UNCHANGED jsonl
  /\ UNCHANGED <<events, tuiEvents, ctxDone, ingested, ruled, metrics, alerted,
                 captured, tuiSeen, history>>

\* TUI fan-out, again a send that never blocks; headless mode prints instead.
SinkFanOut ==
  /\ bus = "fanout"
  /\ IF Interactive /\ Len(tuiEvents) < TuiCap
       THEN tuiEvents' = Append(tuiEvents, cur.ev)
       ELSE UNCHANGED tuiEvents
  /\ bus' = "select"
  /\ cur' = NoLine
  /\ UNCHANGED <<events, ctxDone, ingested, ruled, sinkVars, tuiSeen, history>>

\* The screen's waitForEvent command receives.
TuiReceive ==
  /\ tuiEvents # <<>>
  /\ tuiEvents' = Tail(tuiEvents)
  /\ tuiSeen' = Append(tuiSeen, Head(tuiEvents))
  /\ UNCHANGED <<events, ctxDone, busVars, ingested, ruled, sinkVars, history>>

\* main cancels the context on its way out.
Cancel ==
  /\ ~ctxDone
  /\ ctxDone' = TRUE
  /\ UNCHANGED <<events, tuiEvents, busVars, ingested, ruled, sinkVars, tuiSeen, history>>

Process == Score \/ Correlate \/ Playbook \/ SinkCount \/ SinkCapture
             \/ SinkPersist \/ SinkFanOut
RunChannel == Take \/ ExitBus \/ Process

Next == \/ \E e \in Event : Emit(e)
        \/ RunChannel
        \/ TuiReceive
        \/ Cancel

Spec == Init /\ [][Next]_vars

\* The bus goroutine and the screen keep running; decoys and the operator
\* need not do anything.
FairSpec == Spec /\ WF_vars(RunChannel) /\ WF_vars(TuiReceive)

-----------------------------------------------------------------------------
Busy == bus \notin {"select", "exited"}
Taken == Len(accepted) - Len(events)      \* events the bus has received

\* How many of the received events have left the given control points.
Past(points) == Taken - (IF bus \in points THEN 1 ELSE 0)
Correlated == Past({"score", "correlate"})
Ruled == Past({"score", "correlate", "playbook"})
Settled == Past({"score", "correlate", "playbook", "count", "capture", "persist"})

TypeOK ==
  /\ events \in Seq(Event) /\ Len(events) <= EventsCap
  /\ tuiEvents \in Seq(Event) /\ Len(tuiEvents) <= TuiCap
  /\ ctxDone \in BOOLEAN
  /\ bus \in {"select", "score", "correlate", "playbook", "count", "capture",
              "persist", "fanout", "exited"}
  /\ cur \in Line \cup {NoLine}
  /\ Busy <=> cur # NoLine
  /\ ingested \in Seq(Event) /\ ruled \in Seq(Event)
  /\ metrics \in [connections : Nat, critical : Nat, blocked : Nat]
  /\ alerted \subseteq Event /\ captured \subseteq Event
  /\ blocklist \in [IP -> Nat]
  /\ jsonl \in Seq(Line)
  /\ tuiSeen \in Seq(Event)
  /\ emitted \subseteq Event
  /\ accepted \in Seq(Event)

\* No accepted event is lost, doubled or overtaken on its way through the
\* channel: what the bus received, what it works on and what is still buffered
\* are, in this order, exactly the events the channel took (pipeline.go:117).
NoneLostOrOvertaken ==
  /\ Len(events) <= Len(accepted)
  /\ \A i \in DOMAIN events : events[i] = accepted[Taken + i]
  /\ Busy => Taken > 0 /\ cur.ev = accepted[Taken]
  /\ \A i, j \in DOMAIN accepted : accepted[i] = accepted[j] => i = j

\* The channel takes only what was emitted: with NoneLostOrOvertaken and
\* TypeOK this is inductive.
AcceptedWasEmitted == \A i \in DOMAIN accepted : accepted[i] \in emitted
IInv == TypeOK /\ AcceptedWasEmitted /\ NoneLostOrOvertaken

\* Correlator and playbook engine see every accepted event once, in order, and
\* neither is ever more than the event in hand ahead of the other
\* (pipeline.go:95, the fixed stage order).
StagesInStep ==
  /\ Len(ingested) = Correlated
  /\ Len(ruled) = Ruled
  /\ \A i \in DOMAIN ingested : ingested[i] = accepted[i]
  /\ \A i \in DOMAIN ruled : ruled[i] = accepted[i]

\* A reader of events.jsonl sees events in the order in which decoys emitted
\* them, none twice, and no line whose event the bus has not finished with
\* (engine.go:62, one O_APPEND write per event).
JsonlInOrder ==
  /\ \A i \in DOMAIN jsonl : \E k \in 1..Settled : accepted[k] = jsonl[i].ev
  /\ \A i, j \in DOMAIN jsonl : \A k, l \in DOMAIN accepted :
       (i < j /\ accepted[k] = jsonl[i].ev /\ accepted[l] = jsonl[j].ev) => k < l

\* Every line on disk carries its MITRE mapping, its event has been correlated
\* and judged by the playbooks, and it names a capture exactly when the frame
\* is on disk (up.go:139-201: Sink comes last, pcap_path is set before Persist).
JsonlIsComplete ==
  \A i \in DOMAIN jsonl :
    /\ jsonl[i].mitre
    /\ \E k \in DOMAIN ingested : ingested[k] = jsonl[i].ev
    /\ \E k \in DOMAIN ruled : ruled[k] = jsonl[i].ev
    /\ jsonl[i].pcap <=> jsonl[i].ev \in captured

\* The operator screen is a window on events.jsonl: what it has received and
\* what still waits for it are events on disk, in the same order
\* (up.go:199-207: a failed Persist returns before the fan-out).
ScreenFollowsJsonl ==
  LET shown == tuiSeen \o tuiEvents
      At(i, k) == jsonl[k].ev = shown[i]
  IN  /\ \A i \in DOMAIN shown : \E k \in DOMAIN jsonl : At(i, k)
      /\ \A i, j \in DOMAIN shown : \A k, l \in DOMAIN jsonl :
           (i < j /\ At(i, k) /\ At(j, l)) => k < l

\* Unless main cancels, every accepted event is settled.
AcceptedGetsSettled ==
  \A e \in Event :
    (\E k \in DOMAIN accepted : accepted[k] = e)
      ~> (ctxDone \/ \E k \in 1..Settled : accepted[k] = e)

\* The pipeline does what EventDelivery promises.
Delivery == INSTANCE EventDelivery WITH
              offered <- emitted, settled <- Settled,
              recorded <- [i \in DOMAIN jsonl |-> jsonl[i].ev]
DeliverySpec == Delivery!Spec
=============================================================================
