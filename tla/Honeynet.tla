------------------------------ MODULE Honeynet ------------------------------
(***************************************************************************)
(* The process of `shinkiro up` (cmd/shinkiro/up.go): the listener engine, *)
(* the event pipeline, the GeoIP resolver and the capture hook run         *)
(* together, and main takes them down: mux.Stop, cancel, then the deferred *)
(* pcapHook.Close and geoResolver.Close, then the process ends.  Nothing   *)
(* waits for the bus goroutine, nor for the session goroutines of ssh.     *)
(***************************************************************************)
EXTENDS Naturals, Sequences, FiniteSets

CONSTANTS
  \* the pipeline's
  Event, IP, RemoteIP, ThreatScore, Critical, PreMapped, EventsCap, TuiCap,
  PcapThreshold, BlockedScore, Interactive, NoLine,
  \* the engine's
  Service, Enabled, Registered, PortOf, SessionService, Conn, HasDeadline,
  MaxFiles, MaxStarts,
  \* the capture hook's
  Second, PayloadLen, SnapLen, MaxItems, NoFile,
  \* the GeoIP resolver's
  LocalIP, Unparsed, Database, NoDatabase, Idle,
  \* which goroutine emits an event: Event -> [conn, by]
  Origin

\* Of a database: lookupPublic asks for what its type names, and there is nothing
\* else in it; the library answers City where it answers Country.  Of the engine:
\* services and connections are finitely many.
ASSUME HoneynetAssumption ==
  /\ RemoteIP \in [Event -> IP]
  /\ Enabled \cap Registered \subseteq Service /\ IsFiniteSet(Service) /\ IsFiniteSet(Conn)
  /\ PayloadLen \in [[ev : Event, operator : BOOLEAN] -> Nat] /\ SnapLen \in Nat
  /\ Idle \notin Seq({"City", "Country", "ASN"})
  /\ \A d \in Database \ {NoDatabase} :
       /\ d.type \in {"city", "country", "asn", "isp", "other"}
       /\ d.supports \subseteq {"City", "Country", "ASN"}
       /\ "City" \in d.supports <=> "Country" \in d.supports
       /\ d.type \in {"city", "country"} => "ASN" \notin d.supports
       /\ d.type = "asn" => d.supports \subseteq {"ASN"}
       /\ d.type = "country" => \A ip \in IP : "city" \notin d.knows[ip]

VARIABLES
  events, tuiEvents, ctxDone, bus, cur, ingested, ruled, metrics, alerted, captured,
  blocklist, jsonl, tuiSeen, emitted, accepted,
  main, running, todo, listeners, open, loop, wg, conn, target, expired, jammed,
  session, reported, starts,
  paths, opened, disk, asked, answered, panicked,
  db, reader, asking, found,
  located,     \* the geo_* fields of the events that have been scored
  phase        \* how far main is on its way out

Pipe == INSTANCE EventPipeline
Mux == INSTANCE Multiplexer
Cap == INSTANCE OnDemandCapture
         WITH Key <- IP, KeyOf <- RemoteIP, Threshold <- PcapThreshold
Geo == INSTANCE GeoResolver

pipeVars == <<events, tuiEvents, ctxDone, bus, cur, ingested, ruled, metrics, alerted,
              captured, blocklist, jsonl, tuiSeen, emitted, accepted>>
muxVars == <<main, running, todo, listeners, open, loop, wg, conn, target, expired,
             jammed, session, reported, starts>>
capVars == <<paths, opened, disk, asked, answered, panicked>>
geoVars == <<db, reader, asking, found, located>>
vars == <<pipeVars, muxVars, capVars, geoVars, phase>>

Init ==
  /\ Pipe!Init /\ Mux!Init /\ Cap!Init /\ Geo!Init
  /\ located = [e \in Event |-> {}]
  /\ \A e \in Event : target[Origin[e].conn] \in Service
  /\ phase = "running"

Alive == phase # "exited" /\ ~panicked
OnlyMux == Alive /\ UNCHANGED <<pipeVars, capVars, geoVars, phase>>
OnlyPipe == Alive /\ UNCHANGED <<muxVars, capVars, geoVars, phase>>
FirstRun == main = "idle" /\ starts > 0       \* mux.Stop has returned

-----------------------------------------------------------------------------
(* The engine and its peers. *)

Starting == OnlyMux /\ (Mux!StartCall \/ Mux!StartReturns \/ \E s \in Service : Mux!Bind(s))
Dial(c) == OnlyMux /\ Mux!Dial(c)
Serve(s) == OnlyMux /\ Mux!Serve(s)
Expire(c) == OnlyMux /\ Mux!Expire(c)
Jam(c) == OnlyMux /\ Mux!Jam(c)
Return(c) == OnlyMux /\ Mux!Return(c)
OpenSession(c) == OnlyMux /\ Mux!OpenSession(c)
SessionEnds(c) == OnlyMux /\ Mux!SessionEnds(c)

HandlerEmits(c) ==
  /\ Alive /\ Mux!Report(c)
  /\ \E e \in Event : Origin[e] = [conn |-> c, by |-> "handler"] /\ Pipe!Emit(e)
  /\ UNCHANGED <<capVars, geoVars, phase>>

SessionEmits(c) ==
  /\ Alive /\ Mux!SessionReport(c)
  /\ \E e \in Event : Origin[e] = [conn |-> c, by |-> "session"] /\ Pipe!Emit(e)
  /\ UNCHANGED <<capVars, geoVars, phase>>

-----------------------------------------------------------------------------
(* The bus and the screen. *)

BusSteps == OnlyPipe /\ (\/ Pipe!Take \/ Pipe!ExitBus \/ Pipe!Correlate \/ Pipe!Playbook
                         \/ Pipe!SinkCount \/ Pipe!SinkPersist
                         \/ Pipe!SinkFanOut)

\* Stage Score: the lookup, a call on the reader at a time, then EnrichMetadata.
Locate ==
  /\ Alive /\ bus = "score"
  /\ Geo!Lookup(RemoteIP[cur.ev]) \/ Geo!Ask(RemoteIP[cur.ev])
  /\ UNCHANGED <<pipeVars, muxVars, capVars, located, phase>>

LocateOfNil ==
  /\ Alive /\ bus = "score" /\ Geo!AskOfNil
  /\ panicked' = TRUE
  /\ UNCHANGED <<pipeVars, muxVars, paths, opened, disk, asked, answered, located, phase>>

Score ==
  /\ Alive /\ Pipe!Score /\ Geo!Finish
  /\ located' = [located EXCEPT ![cur.ev] = found]
  /\ UNCHANGED <<muxVars, capVars, phase>>

\* The sink sets pcap_path from what the hook answers; a write to a closed
\* capture file panics in the bus goroutine and takes the process with it.
Capture_PathOnError ==
  /\ Alive
  /\ Pipe!SinkCapture /\ Cap!MaybeCapture(cur.ev)
  /\ cur'.pcap <=> ThreatScore[cur.ev] >= PcapThreshold
  /\ UNCHANGED <<muxVars, geoVars, phase>>

Capture ==
  /\ Alive
  /\ bus = "capture" /\ Cap!MaybeCapture(cur.ev)
  /\ \/ panicked' /\ UNCHANGED pipeVars
     \/ /\ ~panicked'
        /\ Pipe!SinkCapture
        /\ cur'.pcap <=> answered' # answered
  /\ UNCHANGED <<muxVars, geoVars, phase>>

TuiReceive == OnlyPipe /\ Pipe!TuiReceive

\* The operator presses `p` on an event of the store.
OperatorCapture ==
  /\ Alive /\ Interactive /\ main = "up"
  /\ \E i \in DOMAIN jsonl :
       [ev |-> jsonl[i].ev, operator |-> TRUE] \notin asked /\ Cap!CaptureNow(jsonl[i].ev)
  /\ UNCHANGED <<pipeVars, muxVars, geoVars, phase>>

-----------------------------------------------------------------------------
(* Main on its way out. *)

Stop_OnlyForgets == OnlyMux /\ Mux!StopClose_OnlyForgets

\* A signal, or the operator leaves the screen: mux.Stop.
Stop == OnlyMux /\ Mux!StopClose
StopReturns_AtOnce == OnlyMux /\ Mux!StopWait_Skipped

\* wg.Wait is over.
StopReturns == OnlyMux /\ Mux!StopWait

Cancel ==
  /\ Alive /\ phase = "running" /\ FirstRun
  /\ Pipe!Cancel
  /\ phase' = "cancelled"
  /\ UNCHANGED <<muxVars, capVars, geoVars>>

CloseCaptures ==
  /\ Alive /\ phase = "cancelled"
  /\ Cap!Close
  /\ phase' = "closed"
  /\ UNCHANGED <<pipeVars, muxVars, geoVars>>

CloseGeo ==
  /\ Alive
  /\ \/ phase = "closed" /\ Geo!CloseReader /\ phase' = "unmapped"
     \/ phase = "unmapped" /\ Geo!ForgetReader /\ phase' = "forgotten"
  /\ UNCHANGED <<pipeVars, muxVars, capVars, located>>

\* main returns and every goroutine with it.
Exit ==
  /\ Alive /\ phase = "forgotten"
  /\ phase' = "exited"
  /\ UNCHANGED <<pipeVars, muxVars, capVars, geoVars>>

Main == StopReturns \/ Cancel \/ CloseCaptures \/ CloseGeo \/ Exit
Bus == BusSteps \/ Locate \/ LocateOfNil \/ Score \/ Capture

Next ==
  \/ Starting \/ Stop \/ Main
  \/ \E s \in Service : Serve(s)
  \/ \E c \in Conn : \/ Dial(c) \/ Expire(c) \/ Return(c) \/ OpenSession(c)
                     \/ SessionEnds(c) \/ Jam(c) \/ HandlerEmits(c) \/ SessionEmits(c)
  \/ Bus \/ TuiReceive \/ OperatorCapture

Spec == Init /\ [][Next]_vars

\* Main, the bus and the accept loops run; deadlines pass and end blocked I/O,
\* and with it every handler that is not jammed.
FairSpec ==
  /\ Spec
  /\ WF_vars(Main) /\ WF_vars(Bus)
  /\ \A s \in Service : WF_vars(Serve(s))
  /\ \A c \in Conn : WF_vars(Expire(c)) /\ WF_vars(c \in expired /\ Return(c))

-----------------------------------------------------------------------------
\* A line of events.jsonl that names a capture names one that was answered for
\* its event, by the sink, whose frame is in the address's file: whole, or cut at
\* SnapLen bytes and saying so (up.go:188-201 with ondemand.go:117, pcap.go:57).
LinesNameTheirFrames ==
  \A i \in DOMAIN jsonl :
    jsonl[i].pcap =>
      \E a \in answered : a.ev = jsonl[i].ev /\ ~a.operator /\ Cap!OnDisk(a)

\* A line carries all that the database says of its address and nothing else,
\* or less, but then only if its lookup ran into the closing of the database
\* (up.go:95,145; "never fabricated", resolver.go:26).
LinesSayWhereFrom ==
  \A i \in DOMAIN jsonl :
    LET e == jsonl[i].ev
        says == Geo!Says(RemoteIP[e])
    IN  \/ located[e] = says
        \/ located[e] \subseteq says /\ phase \in {"unmapped", "forgotten", "exited"}

\* Once mux.Stop has returned the channel only drains, but for what session
\* goroutines, which nothing waits for, still put into it (multiplexer.go:119,
\* ssh.go:123).
OnlySessionsEmitAfterStop ==
  [][FirstRun => \/ emitted' = emitted /\ Len(events') <= Len(events)
                 \/ \A e \in emitted' \ emitted : Origin[e].by = "session"]_vars

\* Once the shutdown has begun the process ends, whatever the bus is doing, unless
\* it panics or main waits in mux.Stop for ssh handlers their peers have jammed,
\* and for nothing else (up.go:299 with multiplexer.go:136, ssh.go:152-153).
ShutdownCompletes ==
  main = "waiting" ~> \/ phase = "exited" \/ panicked
                      \/ main = "waiting" /\ jammed # {} /\ Mux!Served = jammed

\* "must drop or close safely without panicking" (CONTRIBUTING.md:39): the
\* shutdown does not panic.
NeverPanics == ~panicked
=============================================================================
