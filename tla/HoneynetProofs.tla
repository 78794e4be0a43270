--------------------------- MODULE HoneynetProofs ---------------------------
(***************************************************************************)
(* Proofs about the whole process of `shinkiro up`, for any decoys,        *)
(* connections, events, capacities and databases.  What a line of          *)
(* events.jsonl says comes from three parts that run beside each other:    *)
(* the bus carries the event, the capture hook writes its frame, and the   *)
(* resolver looks its address up.                                          *)
(***************************************************************************)
EXTENDS Honeynet, FiniteSetTheorems, SequenceTheorems, TLAPS

USE DEF pipeVars, muxVars, capVars, geoVars

-----------------------------------------------------------------------------
(* The way of an event: from the channel into the bus's hand and to the file. *)

\* The bus has an event that is not persisted yet.
InHand == bus \in {"score", "correlate", "playbook", "count", "capture", "persist"}

Typed ==
  /\ events \in Seq(Event) /\ jsonl \in Seq(Pipe!Line) /\ emitted \subseteq Event
  /\ Pipe!Busy => cur \in Pipe!Line

\* Whatever is on its way was emitted, and is in one place.
OneWay ==
  /\ \A i \in DOMAIN events : events[i] \in emitted
  /\ \A i \in DOMAIN jsonl : jsonl[i].ev \in emitted
  /\ Pipe!Busy => cur.ev \in emitted
  /\ \A i, j \in DOMAIN events : events[i] = events[j] => i = j
  /\ \A i \in DOMAIN events :
       /\ Pipe!Busy => events[i] # cur.ev
       /\ \A j \in DOMAIN jsonl : events[i] # jsonl[j].ev
  /\ InHand => \A j \in DOMAIN jsonl : jsonl[j].ev # cur.ev

\* A step of the process is one of the bus, the decoys or the screen on the
\* pipeline's variables, or leaves what matters here of them alone.
LEMMA Travel == Spec => [](Typed /\ OneWay)
<1>1. Init => Typed /\ OneWay
  BY DEF Init, Pipe!Init, Typed, OneWay, Pipe!Busy, InHand
<1>2. ASSUME Typed, OneWay, [Next]_vars PROVE (Typed /\ OneWay)'
  <2>0. /\ events \in Seq(Event) /\ jsonl \in Seq(Pipe!Line) /\ emitted \subseteq Event
        /\ Len(events) \in Nat /\ DOMAIN events = 1..Len(events)
        /\ Len(jsonl) \in Nat /\ DOMAIN jsonl = 1..Len(jsonl)
        /\ Pipe!Busy => cur \in Pipe!Line
    BY <1>2, LenProperties DEF Typed
  <2>1. ASSUME UNCHANGED <<events, jsonl, emitted>>, Pipe!Busy' => Pipe!Busy,
               InHand' => InHand, Pipe!Busy' => cur' \in Pipe!Line /\ cur'.ev = cur.ev
        PROVE  (Typed /\ OneWay)'
    <3>1. InHand' => InHand /\ cur'.ev = cur.ev
      BY <2>1 DEF InHand, Pipe!Busy
    <3>2. Typed'
      BY <2>0, <2>1 DEF Typed
    <3>3. OneWay'
      BY <1>2, <2>1, <3>1, Zenon DEF OneWay
    <3> QED BY <3>2, <3>3
  <2>2. ASSUME NEW e \in Event, Pipe!Emit(e) PROVE (Typed /\ OneWay)'
    <3>0. e \notin emitted /\ emitted' = emitted \cup {e} /\ UNCHANGED <<bus, cur, jsonl>>
      BY <2>2 DEF Pipe!Emit, Pipe!busVars, Pipe!sinkVars
    <3>1. CASE UNCHANGED events
      BY <1>2, <2>0, <3>0, <3>1 DEF Typed, OneWay, Pipe!Busy, InHand
    <3>2. CASE events' = Append(events, e)
      <4>1. /\ events' \in Seq(Event) /\ DOMAIN events' = 1..(Len(events) + 1)
            /\ events'[Len(events) + 1] = e
            /\ \A i \in 1..Len(events) : events'[i] = events[i]
        BY <2>0, <3>2, AppendProperties
      <4>2. \A i \in DOMAIN events' : i \in DOMAIN events \/ i = Len(events) + 1
        BY <2>0, <4>1
      <4> HIDE <3>2
      <4>3. Typed'
        BY <2>0, <3>0, <4>1 DEF Typed, Pipe!Busy
      <4> QED BY <1>2, <2>0, <3>0, <4>1, <4>2, <4>3 DEF OneWay, Pipe!Busy, InHand
    <3> QED BY <2>2, <3>1, <3>2 DEF Pipe!Emit
  <2>3. CASE Pipe!Take
    <3>1. /\ events # <<>> /\ events' = Tail(events) /\ UNCHANGED <<jsonl, emitted>>
          /\ cur' = [ev |-> Head(events), mitre |-> Head(events) \in PreMapped, pcap |-> FALSE]
          /\ bus' = "score"
      BY <2>3 DEF Pipe!Take, Pipe!sinkVars, Pipe!history
    <3>2. /\ events' \in Seq(Event) /\ DOMAIN events' = 1..(Len(events) - 1)
          /\ \A i \in 1..(Len(events) - 1) : events'[i] = events[i + 1]
          /\ Head(events) = events[1] /\ 1 \in DOMAIN events /\ events[1] \in Event
      BY <2>0, <3>1, HeadTailProperties, LenProperties
    <3>3. cur' \in Pipe!Line /\ cur'.ev = events[1]
      BY <3>1, <3>2 DEF Pipe!Line
    <3>4. \A i \in DOMAIN events' : i + 1 \in DOMAIN events /\ i + 1 # 1
      BY <2>0, <3>2
    <3>5. Typed'
      BY <2>0, <3>1, <3>2, <3>3 DEF Typed
    <3>6. \A i \in DOMAIN events' : events'[i] = events[i + 1] /\ i \in Nat
      BY <3>2
    <3> HIDE DEF Typed
    <3> QED BY <1>2, <3>1, <3>2, <3>3, <3>4, <3>5, <3>6 DEF OneWay, Pipe!Busy, InHand
  <2>4. CASE Pipe!SinkPersist
    <3>1. /\ bus = "persist" /\ UNCHANGED <<events, emitted>> /\ cur \in Pipe!Line
      BY <2>0, <2>4 DEF Pipe!SinkPersist, Pipe!history, Pipe!Busy
    <3>2. CASE jsonl' = Append(jsonl, cur) /\ bus' = "fanout" /\ UNCHANGED cur
      <4>1. /\ jsonl' \in Seq(Pipe!Line) /\ DOMAIN jsonl' = 1..(Len(jsonl) + 1)
            /\ jsonl'[Len(jsonl) + 1] = cur
            /\ \A i \in 1..Len(jsonl) : jsonl'[i] = jsonl[i]
        BY <2>0, <3>1, <3>2, AppendProperties
      <4>2. \A i \in DOMAIN jsonl' : i \in DOMAIN jsonl \/ i = Len(jsonl) + 1
        BY <2>0, <4>1
      <4>3. bus' = "fanout" /\ cur' = cur
        BY <3>2
      <4> HIDE <3>2
      <4>4. Typed'
        BY <2>0, <3>1, <4>1, <4>3 DEF Typed
      <4> QED BY <1>2, <2>0, <3>1, <4>1, <4>2, <4>3, <4>4 DEF OneWay, Pipe!Busy, InHand
    <3>3. CASE bus' = "select" /\ UNCHANGED jsonl
      BY <2>1, <3>1, <3>3 DEF Pipe!Busy, InHand
    <3> QED BY <2>4, <3>2, <3>3 DEF Pipe!SinkPersist
  <2>5. CASE Pipe!Score \/ Pipe!SinkCapture
    <3>1. UNCHANGED <<events, jsonl, emitted>> /\ Pipe!Busy /\ InHand
      BY <2>5 DEF Pipe!Score, Pipe!SinkCapture, Pipe!Busy, InHand, Pipe!sinkVars, Pipe!history
    <3>2. cur' \in Pipe!Line /\ cur'.ev = cur.ev
      BY <2>0, <2>5, <3>1 DEF Pipe!Score, Pipe!SinkCapture, Pipe!Line
    <3> QED BY <2>1, <3>1, <3>2
  <2>6. CASE Pipe!ExitBus \/ Pipe!Correlate \/ Pipe!Playbook \/ Pipe!SinkCount \/ Pipe!SinkFanOut
    BY <2>0, <2>1, <2>6 DEF Pipe!ExitBus, Pipe!Correlate, Pipe!Playbook, Pipe!SinkCount,
       Pipe!SinkFanOut, Pipe!Busy, InHand, Pipe!sinkVars, Pipe!history
  <2>7. CASE Pipe!TuiReceive \/ Pipe!Cancel \/ UNCHANGED pipeVars
    BY <2>0, <2>1, <2>7 DEF Pipe!TuiReceive, Pipe!Cancel, Pipe!Busy, InHand, Pipe!busVars,
       Pipe!sinkVars, Pipe!history
  <2> USE DEF OnlyMux, OnlyPipe
  <2>8. CASE Starting \/ Stop \/ StopReturns \/ CloseCaptures \/ CloseGeo \/ Exit
    BY <2>7, <2>8 DEF Starting, Stop, StopReturns, CloseCaptures, CloseGeo, Exit
  <2>9. CASE Cancel
    BY <2>7, <2>9 DEF Cancel
  <2>10. ASSUME NEW s \in Service, Serve(s) PROVE (Typed /\ OneWay)'
    BY <2>7, <2>10 DEF Serve
  <2>11. ASSUME NEW c \in Conn, \/ Dial(c) \/ Expire(c) \/ Return(c) \/ OpenSession(c)
                                \/ SessionEnds(c) \/ Jam(c)
         PROVE  (Typed /\ OneWay)'
    BY <2>7, <2>11 DEF Dial, Expire, Return, OpenSession, SessionEnds, Jam
  <2>12. ASSUME NEW c \in Conn, HandlerEmits(c) \/ SessionEmits(c) PROVE (Typed /\ OneWay)'
    BY <2>2, <2>12 DEF HandlerEmits, SessionEmits
  <2>13. CASE BusSteps \/ TuiReceive
    BY <2>3, <2>4, <2>6, <2>7, <2>13 DEF BusSteps, TuiReceive
  <2>14. CASE Locate \/ LocateOfNil \/ OperatorCapture
    BY <2>7, <2>14 DEF Locate, LocateOfNil, OperatorCapture
  <2>15. CASE Score
    BY <2>5, <2>15 DEF Score
  <2>16. CASE Capture
    BY <2>5, <2>7, <2>16 DEF Capture
  <2>17. CASE UNCHANGED vars
    BY <2>7, <2>17 DEF vars
  <2> QED BY <1>2, <2>8, <2>9, <2>10, <2>11, <2>12, <2>13, <2>14, <2>15, <2>16, <2>17
          DEF Next, Main, Bus
<1> QED BY <1>1, <1>2, PTL DEF Spec

-----------------------------------------------------------------------------
(* The frames of the lines. *)

\* The hook answered the sink with a path for the event.
Answered(e) == \E a \in answered : a.ev = e /\ ~a.operator

Captures ==
  /\ paths \in [IP -> Cap!File \cup {NoFile}]
  /\ disk \in [Cap!File -> Seq(Cap!Item)]
  /\ answered \subseteq [ev : Event, operator : BOOLEAN, path : Cap!File]
  /\ \A a \in answered : \E i \in DOMAIN disk[a.path] :
       disk[a.path][i] = Cap!Frame(a.ev, a.operator)

\* A pcap_path, in the bus's hand and on disk, was answered.
PathsWereAnswered ==
  /\ Pipe!Busy /\ cur.pcap => Answered(cur.ev)
  /\ \A i \in DOMAIN jsonl : jsonl[i].pcap => Answered(jsonl[i].ev)

\* The line of an event that names a capture file names one with its frame, whole
\* or cut at SnapLen bytes and saying so, for any payloads, any number of captures
\* by the bus and the operator, writes that fail and files closed under the bus
\* (up.go:188-201, ondemand.go:117-169, pcap.go:57-79).
THEOREM LinesNameFrames == Spec => []LinesNameTheirFrames
<1> DEFINE Inv == Captures /\ PathsWereAnswered
<1>1. Init => Inv
  <2> SUFFICES ASSUME Init PROVE Inv
    OBVIOUS
  <2>1. /\ paths = [k \in IP |-> NoFile] /\ disk = [f \in Cap!File |-> <<>>]
        /\ answered = {} /\ bus = "select" /\ jsonl = <<>>
    BY DEF Init, Pipe!Init, Cap!Init
  <2>2. disk \in [Cap!File -> Seq(Cap!Item)]
    BY <2>1
  <2> QED BY <2>1, <2>2 DEF Captures, PathsWereAnswered, Pipe!Busy
<1>2. ASSUME Typed, Captures, NEW e \in Event, NEW operator \in BOOLEAN,
             Cap!WriteLocked(e, operator)
      PROVE  /\ Captures'
             /\ \/ answered' = answered
                \/ \E f \in Cap!File :
                     answered' = answered \cup {[ev |-> e, operator |-> operator, path |-> f]}
  <2> DEFINE f == Cap!PathFor(e, operator)
             X == Cap!Frame(e, operator)
             New == [ev |-> e, operator |-> operator, path |-> f]
  <2>0. /\ RemoteIP[e] \in IP /\ paths \in [IP -> Cap!File \cup {NoFile}]
        /\ disk \in [Cap!File -> Seq(Cap!Item)]
        /\ answered \subseteq [ev : Event, operator : BOOLEAN, path : Cap!File]
        /\ \A a \in answered : \E i \in DOMAIN disk[a.path] :
             disk[a.path][i] = Cap!Frame(a.ev, a.operator)
    BY <1>2, HoneynetAssumption DEF Captures
  <2>x. X \in Cap!Item /\ Cap!Torn \in Cap!Item /\ Cap!Header \in Cap!Item
    BY HoneynetAssumption DEF Cap!Frame, Cap!Item, Cap!FrameItem, Cap!Torn, Cap!Header
  <2>1. f \in Cap!File
    BY <2>0 DEF Cap!PathFor, Cap!File
  <2> HIDE DEF f, X
  \* A file is only written at its end, so that no frame goes.
  <2>2. ASSUME NEW t \in Seq(Cap!Item), disk' = [disk EXCEPT ![f] = t],
               \A i \in DOMAIN disk[f] : i \in DOMAIN t /\ t[i] = disk[f][i],
               paths' \in [IP -> Cap!File \cup {NoFile}],
               \/ answered' = answered
               \/ answered' = answered \cup {New} /\ \E i \in DOMAIN t : t[i] = X
        PROVE  Captures'
    <3>1. disk' \in [Cap!File -> Seq(Cap!Item)] /\ disk'[f] = t
      BY <2>0, <2>1, <2>2
    <3>2. \A g \in Cap!File : \A i \in DOMAIN disk[g] :
            i \in DOMAIN disk'[g] /\ disk'[g][i] = disk[g][i]
      BY <2>0, <2>1, <2>2
    <3>3. answered' \subseteq [ev : Event, operator : BOOLEAN, path : Cap!File]
      BY <2>0, <2>1, <2>2
    <3>4. ASSUME NEW a \in answered' PROVE \E i \in DOMAIN disk'[a.path] :
                                           disk'[a.path][i] = Cap!Frame(a.ev, a.operator)
      <4>1. CASE a \in answered
        <5>1. a.path \in Cap!File /\ a.ev \in Event
          BY <2>0, <4>1
        <5>2. PICK i \in DOMAIN disk[a.path] :
                disk[a.path][i] = Cap!Frame(a.ev, a.operator)
          BY <2>0, <4>1
        <5> QED BY <3>2, <5>1, <5>2
      <4>2. CASE a = New /\ \E i \in DOMAIN t : t[i] = X
        BY <2>1, <3>1, <4>2 DEF X
      <4> QED BY <2>2, <3>4, <4>1, <4>2
    <3> QED BY <2>2, <3>1, <3>3, <3>4 DEF Captures
  <2>3. CASE Cap!NotOpened(f)
    <3>1. /\ UNCHANGED <<paths, answered>>
          /\ \/ UNCHANGED disk
             \/ disk[f] = <<>> /\ disk' = [disk EXCEPT ![f] = <<Cap!Torn>>]
      BY <2>3 DEF Cap!NotOpened
    <3>2. CASE UNCHANGED disk
      BY <1>2, <3>1, <3>2 DEF Captures
    <3>3. CASE disk[f] = <<>> /\ disk' = [disk EXCEPT ![f] = <<Cap!Torn>>]
      <4>1. <<Cap!Torn>> \in Seq(Cap!Item) /\ DOMAIN disk[f] = {}
        BY <2>x, <3>3
      <4> QED BY <2>0, <2>2, <3>1, <3>3, <4>1, Zenon
    <3> QED BY <3>1, <3>2, <3>3
  <2>4. ASSUME NEW content \in Seq(Cap!Item), Cap!WriteFrame(e, operator, f, content),
               \A i \in DOMAIN disk[f] : i \in DOMAIN content /\ content[i] = disk[f][i],
               paths' \in [IP -> Cap!File \cup {NoFile}]
        PROVE  Captures' /\ (answered' = answered \/ answered' = answered \cup {New})
    <3>1. CASE /\ disk' = [disk EXCEPT ![f] = Append(content, X)]
               /\ answered' = answered \cup {New}
      <4> DEFINE t == Append(content, X)
      <4>1. /\ t \in Seq(Cap!Item) /\ DOMAIN t = 1..(Len(content) + 1) /\ Len(content) \in Nat
            /\ t[Len(content) + 1] = X /\ DOMAIN content = 1..Len(content)
            /\ \A i \in 1..Len(content) : t[i] = content[i]
        BY <2>x, <2>4, AppendProperties, LenProperties
      <4> HIDE DEF t
      <4>2. /\ \A i \in DOMAIN disk[f] : i \in DOMAIN t /\ t[i] = disk[f][i]
            /\ \E i \in DOMAIN t : t[i] = X
        BY <2>4, <4>1
      <4>3. disk' = [disk EXCEPT ![f] = t]
        BY <3>1 DEF t
      <4> QED BY <2>2, <2>4, <3>1, <4>1, <4>2, <4>3
    <3>2. ASSUME NEW tail \in {<<Cap!Torn>>, <<>>}, answered' = answered,
                 disk' = [disk EXCEPT ![f] = content \o tail]
          PROVE  Captures'
      <4>1. tail \in Seq(Cap!Item)
        <5>1. <<Cap!Torn>> \in Seq(Cap!Item) /\ <<>> \in Seq(Cap!Item)
          BY <2>x
        <5> QED BY <5>1
      <4> DEFINE t == content \o tail
      <4>2. /\ t \in Seq(Cap!Item) /\ DOMAIN t = 1..(Len(content) + Len(tail))
            /\ Len(content) \in Nat /\ Len(tail) \in Nat /\ DOMAIN content = 1..Len(content)
            /\ \A i \in 1..Len(content) : t[i] = content[i]
        BY <2>4, <4>1, ConcatProperties, LenProperties
      <4> HIDE DEF t
      <4>3. \A i \in DOMAIN disk[f] : i \in DOMAIN t /\ t[i] = disk[f][i]
        BY <2>4, <4>2
      <4>4. disk' = [disk EXCEPT ![f] = t]
        BY <3>2 DEF t
      <4> QED BY <2>2, <2>4, <3>2, <4>2, <4>3, <4>4
    <3> QED BY <2>4, <3>1, <3>2 DEF Cap!WriteFrame, X
  <2>5. disk[f] \in Seq(Cap!Item)
    BY <2>0, <2>1
  <2>6. CASE /\ paths' = [paths EXCEPT ![RemoteIP[e]] = f]
             /\ Cap!WriteFrame(e, operator, f, Cap!OpenedContent(f))
    <3>1. /\ Cap!OpenedContent(f) \in Seq(Cap!Item)
          /\ \A i \in DOMAIN disk[f] : /\ i \in DOMAIN Cap!OpenedContent(f)
                                        /\ Cap!OpenedContent(f)[i] = disk[f][i]
      <4>1. <<Cap!Header>> \in Seq(Cap!Item) /\ DOMAIN <<>> = {}
        BY <2>x
      <4> QED BY <2>5, <4>1 DEF Cap!OpenedContent
    <3>2. paths' \in [IP -> Cap!File \cup {NoFile}]
      BY <2>0, <2>1, <2>6
    <3> QED BY <2>1, <2>4, <2>6, <3>1, <3>2
  <2>7. CASE Cap!WriteFrame(e, operator, f, disk[f]) /\ UNCHANGED paths
    BY <2>0, <2>1, <2>4, <2>5, <2>7
  <2>8. CASE UNCHANGED <<paths, disk, answered>>
    BY <1>2, <2>8 DEF Captures
  <2>9. \/ Cap!NotOpened(f)
        \/ /\ paths' = [paths EXCEPT ![RemoteIP[e]] = f]
           /\ Cap!WriteFrame(e, operator, f, Cap!OpenedContent(f))
        \/ Cap!WriteFrame(e, operator, f, disk[f]) /\ UNCHANGED paths
        \/ UNCHANGED <<paths, disk, answered>>
    BY <1>2, Zenon DEF Cap!WriteLocked, f
  <2>10. Cap!NotOpened(f) => answered' = answered
    BY DEF Cap!NotOpened
  <2> QED BY <2>1, <2>3, <2>6, <2>7, <2>8, <2>9, <2>10
<1>3. ASSUME Typed, Captures, NEW e \in Event, Cap!MaybeCapture(e)
      PROVE  /\ Captures'
             /\ \/ answered' = answered
                \/ \E f \in Cap!File :
                     answered' = answered \cup {[ev |-> e, operator |-> FALSE, path |-> f]}
  <2>1. CASE UNCHANGED <<paths, disk, answered>>
    BY <1>3, <2>1 DEF Captures
  <2>2. CASE Cap!WriteLocked(e, FALSE)
    BY <1>2, <1>3, <2>2
  <2> QED BY <1>3, <2>1, <2>2 DEF Cap!MaybeCapture
\* Where the hook is not called, and the line that is added is the one in hand.
<1>4. ASSUME Inv, UNCHANGED <<paths, disk, answered>>,
             Pipe!Busy' => \/ ~cur'.pcap
                           \/ Pipe!Busy /\ cur'.ev = cur.ev /\ cur'.pcap = cur.pcap,
             \A i \in DOMAIN jsonl' : \/ i \in DOMAIN jsonl /\ jsonl'[i] = jsonl[i]
                                      \/ Pipe!Busy /\ jsonl'[i] = cur
      PROVE  Inv'
  <2>1. Captures' /\ (\A e : Answered(e)' <=> Answered(e))
    BY <1>4 DEF Captures, Answered
  <2> QED BY <1>4, <2>1 DEF PathsWereAnswered, Answered
<1>5. ASSUME Inv, Typed, [Next]_vars PROVE Inv'
  <2>1. CASE UNCHANGED capVars /\ UNCHANGED pipeVars
    BY <1>4, <1>5, <2>1 DEF Pipe!Busy
  <2>2. ASSUME UNCHANGED capVars,
               \/ \E e \in Event : Pipe!Emit(e)
               \/ Pipe!Take \/ Pipe!ExitBus \/ Pipe!Score \/ Pipe!Correlate \/ Pipe!Playbook
               \/ Pipe!SinkCount \/ Pipe!SinkFanOut \/ Pipe!TuiReceive \/ Pipe!Cancel
        PROVE  Inv'
    <3>1. /\ UNCHANGED <<paths, disk, answered, jsonl>>
          /\ Pipe!Busy' => \/ ~cur'.pcap
                           \/ Pipe!Busy /\ cur'.ev = cur.ev /\ cur'.pcap = cur.pcap
      <4> USE DEF Typed, Pipe!Busy, Pipe!busVars, Pipe!sinkVars, Pipe!history
      <4>1. CASE Pipe!Take
        BY <2>2, <4>1 DEF Pipe!Take
      <4>2. CASE Pipe!Score
        BY <1>5, <2>2, <4>2 DEF Pipe!Score, Pipe!Line
      <4>3. CASE \/ \E e \in Event : Pipe!Emit(e)
                 \/ Pipe!ExitBus \/ Pipe!Correlate \/ Pipe!Playbook
                 \/ Pipe!SinkCount \/ Pipe!SinkFanOut \/ Pipe!TuiReceive \/ Pipe!Cancel
        BY <2>2, <4>3 DEF Pipe!Emit, Pipe!ExitBus, Pipe!Correlate, Pipe!Playbook,
           Pipe!SinkCount, Pipe!SinkFanOut, Pipe!TuiReceive, Pipe!Cancel
      <4> QED BY <2>2, <4>1, <4>2, <4>3
    <3> QED BY <1>4, <1>5, <3>1
  <2>3. CASE UNCHANGED capVars /\ Pipe!SinkPersist
    <3>1. /\ UNCHANGED <<paths, disk, answered>> /\ Pipe!Busy /\ jsonl \in Seq(Pipe!Line)
          /\ cur \in Pipe!Line
      BY <1>5, <2>3 DEF Pipe!SinkPersist, Pipe!Busy, Typed
    <3>2. CASE jsonl' = Append(jsonl, cur) /\ UNCHANGED cur
      <4>1. \A i \in DOMAIN jsonl' : \/ i \in DOMAIN jsonl /\ jsonl'[i] = jsonl[i]
                                     \/ jsonl'[i] = cur
        BY <3>1, <3>2, AppendProperties, LenProperties
      <4> QED BY <1>4, <1>5, <3>1, <3>2, <4>1
    <3>3. CASE bus' = "select" /\ UNCHANGED jsonl
      BY <1>4, <1>5, <3>1, <3>3 DEF Pipe!Busy
    <3> QED BY <2>3, <3>2, <3>3 DEF Pipe!SinkPersist
  <2>4. CASE Capture
    <3>1. bus = "capture" /\ cur \in Pipe!Line /\ cur.ev \in Event /\ Pipe!Busy
      BY <1>5, <2>4 DEF Capture, Typed, Pipe!Busy, Pipe!Line
    <3>2. /\ Captures'
          /\ \/ answered' = answered
             \/ \E f \in Cap!File :
                  answered' = answered \cup {[ev |-> cur.ev, operator |-> FALSE, path |-> f]}
      BY <1>3, <1>5, <2>4, <3>1 DEF Capture
    <3>3. /\ answered \subseteq answered'
          /\ answered' # answered => \E a \in answered' : a.ev = cur.ev /\ ~a.operator
      BY <3>2
    <3>4. UNCHANGED jsonl /\ cur'.ev = cur.ev
      BY <2>4, <3>1 DEF Capture, Pipe!SinkCapture, Pipe!Line
    <3>5. cur'.pcap => cur.pcap \/ answered' # answered
      BY <2>4 DEF Capture
    <3>6. Pipe!Busy'/\ cur'.pcap => Answered(cur.ev)'
      BY <1>5, <3>1, <3>3, <3>4, <3>5 DEF PathsWereAnswered, Answered
    <3>7. PathsWereAnswered'
      BY <1>5, <3>3, <3>4, <3>6 DEF PathsWereAnswered, Answered
    <3> QED BY <3>2, <3>7
  <2>5. CASE OperatorCapture
    <3>1. PICK i \in DOMAIN jsonl : Cap!CaptureNow(jsonl[i].ev)
      BY <2>5 DEF OperatorCapture
    <3>2. jsonl[i].ev \in Event /\ UNCHANGED pipeVars
      <4>1. jsonl \in Seq(Pipe!Line)
        BY <1>5 DEF Typed
      <4>2. jsonl[i] \in Pipe!Line
        BY <4>1
      <4> QED BY <2>5, <4>2 DEF OperatorCapture, Pipe!Line
    <3>3. Captures' /\ answered \subseteq answered'
      BY <1>2, <1>5, <3>1, <3>2 DEF Cap!CaptureNow
    <3>4. \A e : Answered(e) => Answered(e)'
      BY <3>3 DEF Answered
    <3>5. PathsWereAnswered'
      BY <1>5, <3>2, <3>4 DEF PathsWereAnswered, Pipe!Busy, Answered
    <3> QED BY <3>3, <3>5
  <2>6. CASE CloseCaptures
    <3>1. UNCHANGED <<paths, disk, answered>> /\ UNCHANGED pipeVars
      BY <2>6 DEF CloseCaptures, Cap!Close
    <3> QED BY <1>4, <1>5, <3>1 DEF Pipe!Busy
  <2>7. CASE LocateOfNil
    <3>1. UNCHANGED <<paths, disk, answered>> /\ UNCHANGED pipeVars
      BY <2>7 DEF LocateOfNil
    <3> QED BY <1>4, <1>5, <3>1 DEF Pipe!Busy
  <2> USE DEF OnlyMux, OnlyPipe
  <2>8. CASE Starting \/ Stop \/ StopReturns \/ CloseGeo \/ Exit \/ Locate \/ UNCHANGED vars
    BY <2>1, <2>8 DEF Starting, Stop, StopReturns, CloseGeo, Exit, Locate, vars
  <2>9. ASSUME NEW s \in Service, Serve(s) PROVE Inv'
    BY <2>1, <2>9 DEF Serve
  <2>10. ASSUME NEW c \in Conn, \/ Dial(c) \/ Expire(c) \/ Return(c) \/ OpenSession(c)
                                \/ SessionEnds(c) \/ Jam(c)
         PROVE  Inv'
    BY <2>1, <2>10 DEF Dial, Expire, Return, OpenSession, SessionEnds, Jam
  <2>11. ASSUME NEW c \in Conn, HandlerEmits(c) \/ SessionEmits(c) PROVE Inv'
    BY <2>2, <2>11 DEF HandlerEmits, SessionEmits
  <2>12. CASE BusSteps \/ Score \/ Cancel \/ TuiReceive
    BY <2>2, <2>3, <2>12 DEF BusSteps, Score, Cancel, TuiReceive
  <2> QED BY <1>5, <2>4, <2>5, <2>6, <2>7, <2>8, <2>9, <2>10, <2>11, <2>12
          DEF Next, Main, Bus
<1>6. Inv => LinesNameTheirFrames
  <2>1. ASSUME Captures, NEW a \in answered PROVE Cap!OnDisk(a)
    <3> DEFINE x == Cap!Frame(a.ev, a.operator)
    <3>1. a.ev \in Event /\ a.operator \in BOOLEAN
      BY <2>1 DEF Captures
    <3>2. SnapLen \in Nat /\ PayloadLen[[ev |-> a.ev, operator |-> a.operator]] \in Nat
      BY <3>1, HoneynetAssumption
    <3>3. /\ x.item = "frame" /\ x.ev = a.ev /\ x.operator = a.operator
          /\ x.caplen = x.bytes
          /\ x.len = PayloadLen[[ev |-> a.ev, operator |-> a.operator]]
          /\ x.bytes = x.len \/ (x.bytes = SnapLen /\ x.len > SnapLen)
      BY <3>2 DEF Cap!Frame
    <3>4. \E i \in DOMAIN disk[a.path] : disk[a.path][i] = x
      BY <2>1 DEF Captures
    <3> HIDE DEF x
    <3>5. x \in Cap!Frames(a.path)
      BY <3>3, <3>4 DEF Cap!Frames, Cap!ToSet
    <3> QED BY <3>3, <3>5 DEF Cap!OnDisk
  <2> QED BY <2>1 DEF PathsWereAnswered, Answered, LinesNameTheirFrames
<1> QED BY <1>1, <1>5, <1>6, Travel, PTL DEF Spec

-----------------------------------------------------------------------------
(* What the database said of the lines' addresses. *)

Before == {"running", "cancelled", "closed"}       \* the reader is not closed yet
Late == {"unmapped", "forgotten", "exited"}
Methods == {"City", "Country", "ASN"}

ReaderFollowsMain ==
  /\ phase \in Before \cup Late /\ db \in Database
  /\ reader # "nil" => db # NoDatabase
  /\ phase \in Before => reader = IF db = NoDatabase THEN "nil" ELSE "open"

\* A lookup has found nothing else than the database says; while the reader is open,
\* what it has not found yet is in the answers of the calls to come.
LookupOnItsWay ==
  asking # Idle =>
    LET ip == RemoteIP[cur.ev]
    IN  /\ bus = "score"
        /\ asking \in Seq(Methods) /\ Len(asking) <= 3
        /\ Len(asking) = 3 => asking[1] = "City" /\ asking[2] = "Country" /\ asking[3] = "ASN"
        /\ asking # <<>> => db # NoDatabase /\ ip \notin LocalIP \cup Unparsed
        /\ found \subseteq Geo!Says(ip)
        /\ phase \in Before =>
             \A x \in Geo!Says(ip) :
               \/ x \in found
               \/ \E i \in DOMAIN asking : asking[i] \in db.supports /\ x \in Geo!Fields(asking[i])

Told(e) ==
  \/ located[e] = Geo!Says(RemoteIP[e])
  \/ located[e] \subseteq Geo!Says(RemoteIP[e]) /\ phase \in Late

ScoredAreTold ==
  /\ located = [e \in Event |-> located[e]]
  /\ \A i \in DOMAIN jsonl : Told(jsonl[i].ev)
  /\ Pipe!Busy /\ bus # "score" => Told(cur.ev)

\* A line carries what the database says of its address, all of it unless the lookup
\* ran into Close, and never a field from anywhere else, another event's lookup
\* included (resolver.go:190-280, up.go:95,145).
THEOREM LinesTellWhereFrom == Spec => []LinesSayWhereFrom
<1> DEFINE Inv == ReaderFollowsMain /\ LookupOnItsWay /\ ScoredAreTold
<1>1. Init => Inv
  BY DEF Init, Pipe!Init, Geo!Init, ReaderFollowsMain, LookupOnItsWay, ScoredAreTold,
     Pipe!Busy, Before
<1>2. ASSUME Inv, UNCHANGED <<geoVars, bus, cur, jsonl>>, phase' \in Before \cup Late,
             phase \in Late => phase' \in Late
      PROVE  Inv'
  <2>1. ReaderFollowsMain' /\ LookupOnItsWay'
    BY <1>2 DEF ReaderFollowsMain, LookupOnItsWay, Geo!Says, Before, Late
  <2>2. ScoredAreTold'
    BY <1>2 DEF ScoredAreTold, Told, Geo!Says, Pipe!Busy
  <2> QED BY <2>1, <2>2
\* A step of the pipeline other than Score.
<1>3. ASSUME Inv, Typed, UNCHANGED <<geoVars, phase>>,
             \/ \E e \in Event : Pipe!Emit(e)
             \/ Pipe!Take \/ Pipe!ExitBus \/ Pipe!Correlate \/ Pipe!Playbook
             \/ Pipe!SinkCount \/ Pipe!SinkCapture \/ Pipe!SinkPersist \/ Pipe!SinkFanOut
             \/ Pipe!TuiReceive \/ Pipe!Cancel
      PROVE  Inv'
  <2> USE DEF Pipe!Busy, Pipe!busVars, Pipe!sinkVars, Pipe!history
  <2>1. asking # Idle => UNCHANGED <<bus, cur>>
    BY <1>3 DEF LookupOnItsWay, Pipe!Emit, Pipe!Take, Pipe!ExitBus, Pipe!Correlate, Pipe!Playbook,
       Pipe!SinkCount, Pipe!SinkCapture, Pipe!SinkPersist, Pipe!SinkFanOut, Pipe!TuiReceive,
       Pipe!Cancel
  <2>2. /\ Pipe!Busy' /\ bus' # "score" => Pipe!Busy /\ bus # "score" /\ cur'.ev = cur.ev
        /\ \/ jsonl' = jsonl
           \/ Pipe!SinkPersist /\ jsonl' = Append(jsonl, cur)
    <3>1. CASE Pipe!SinkCapture
      <4>1. bus = "capture" /\ UNCHANGED jsonl /\ cur \in Pipe!Line
        BY <1>3, <3>1 DEF Pipe!SinkCapture, Typed
      <4>2. cur'.ev = cur.ev
        BY <3>1, <4>1 DEF Pipe!SinkCapture, Pipe!Line
      <4> QED BY <4>1, <4>2
    <3>2. CASE \/ \E e \in Event : Pipe!Emit(e)
               \/ Pipe!Take \/ Pipe!ExitBus \/ Pipe!Correlate \/ Pipe!Playbook
               \/ Pipe!SinkCount \/ Pipe!SinkFanOut \/ Pipe!TuiReceive \/ Pipe!Cancel
      BY <3>2 DEF Pipe!Emit, Pipe!Take, Pipe!ExitBus, Pipe!Correlate, Pipe!Playbook,
         Pipe!SinkCount, Pipe!SinkFanOut, Pipe!TuiReceive, Pipe!Cancel
    <3>3. CASE Pipe!SinkPersist
      <4>1. bus = "persist"
        BY <3>3 DEF Pipe!SinkPersist
      <4>2. \/ jsonl' = Append(jsonl, cur) /\ cur' = cur
            \/ UNCHANGED jsonl /\ bus' = "select"
        BY <3>3 DEF Pipe!SinkPersist
      <4> QED BY <3>3, <4>1, <4>2
    <3> QED BY <1>3, <3>1, <3>2, <3>3
  <2>3. \A i \in DOMAIN jsonl' : \/ i \in DOMAIN jsonl /\ jsonl'[i] = jsonl[i]
                                 \/ Pipe!Busy /\ bus # "score" /\ jsonl'[i] = cur
    <3>1. CASE jsonl' = jsonl
      BY <3>1
    <3>2. CASE Pipe!SinkPersist /\ jsonl' = Append(jsonl, cur)
      <4>1. jsonl \in Seq(Pipe!Line) /\ cur \in Pipe!Line /\ bus = "persist"
        BY <1>3, <3>2 DEF Typed, Pipe!SinkPersist
      <4>2. \A i \in DOMAIN jsonl' : \/ i \in DOMAIN jsonl /\ jsonl'[i] = jsonl[i]
                                     \/ jsonl'[i] = cur
        BY <3>2, <4>1, AppendProperties, LenProperties
      <4> QED BY <4>1, <4>2
    <3> QED BY <2>2, <3>1, <3>2
  <2>4. ReaderFollowsMain' /\ LookupOnItsWay'
    BY <1>3, <2>1 DEF ReaderFollowsMain, LookupOnItsWay, Geo!Says
  <2>5. ScoredAreTold'
    BY <1>3, <2>2, <2>3 DEF ScoredAreTold, Told, Geo!Says
  <2> QED BY <2>4, <2>5
<1>4. ASSUME Inv, Typed, Locate PROVE Inv'
  <2> DEFINE ip == RemoteIP[cur.ev]
  <2>0. /\ bus = "score" /\ UNCHANGED <<pipeVars, located, phase, db, reader>>
        /\ Geo!Lookup(ip) \/ Geo!Ask(ip)
    BY <1>4 DEF Locate, Geo!Lookup, Geo!Ask
  <2>1. ReaderFollowsMain' /\ ScoredAreTold' /\ Geo!Says(ip)' = Geo!Says(ip)
    BY <1>4, <2>0 DEF ReaderFollowsMain, ScoredAreTold, Told, Geo!Says, Pipe!Busy
  <2>2. CASE Geo!Lookup(ip)
    <3> DEFINE public == reader # "nil" /\ ip \notin LocalIP \cup Unparsed
               calls == Geo!Calls(db.type)
    <3>1. /\ asking' = IF public THEN calls ELSE <<>>
          /\ found' = IF reader # "nil" /\ ip \in LocalIP \ Unparsed THEN {"local"} ELSE {}
      BY <2>2, Zenon DEF Geo!Lookup
    <3>2. CASE public
      <4>1. db # NoDatabase /\ db \in Database /\ found' = {}
        BY <1>4, <3>1, <3>2 DEF ReaderFollowsMain
      <4>2. /\ calls \in Seq(Methods) /\ Len(calls) <= 3 /\ calls # <<>>
            /\ Len(calls) = 3 => calls[1] = "City" /\ calls[2] = "Country" /\ calls[3] = "ASN"
        <5>1. db.type \in {"city", "country", "asn", "isp", "other"}
          BY <4>1, HoneynetAssumption
        <5>2. calls \in {<<"City">>, <<"Country">>, <<"ASN">>, <<"City", "ASN">>,
                          <<"City", "Country", "ASN">>}
          BY <5>1 DEF Geo!Calls
        <5> HIDE DEF calls
        <5>3. CASE calls = <<"City">>
          BY <5>3 DEF Methods
        <5>4. CASE calls = <<"Country">>
          BY <5>4 DEF Methods
        <5>5. CASE calls = <<"ASN">>
          BY <5>5 DEF Methods
        <5>6. CASE calls = <<"City", "ASN">>
          BY <5>6 DEF Methods
        <5>7. CASE calls = <<"City", "Country", "ASN">>
          BY <5>7 DEF Methods
        <5> QED BY <5>2, <5>3, <5>4, <5>5, <5>6, <5>7
      <4>3. \A x \in Geo!Says(ip) :
              \E i \in DOMAIN calls : calls[i] \in db.supports /\ x \in Geo!Fields(calls[i])
        <5> SUFFICES ASSUME NEW x \in Geo!Says(ip)
                     PROVE  \E i \in DOMAIN calls : /\ calls[i] \in db.supports
                                                   /\ x \in Geo!Fields(calls[i])
          OBVIOUS
        <5>1. PICK m \in db.supports : x \in db.knows[ip] /\ x \in Geo!Fields(m)
          BY <3>2, <4>1 DEF Geo!Says
        <5>2. /\ db.type \in {"city", "country", "asn", "isp", "other"}
              /\ db.supports \subseteq {"City", "Country", "ASN"}
              /\ "City" \in db.supports <=> "Country" \in db.supports
              /\ db.type \in {"city", "country"} => "ASN" \notin db.supports
              /\ db.type = "asn" => db.supports \subseteq {"ASN"}
              /\ db.type = "country" => x # "city"
          <6>1. cur \in Pipe!Line
            BY <1>4, <2>0 DEF Typed, Pipe!Busy
          <6>2. ip \in IP
            BY <6>1, HoneynetAssumption DEF Pipe!Line
          <6>3. db.type = "country" => "city" \notin db.knows[ip]
            BY <4>1, <6>2, HoneynetAssumption
          <6> QED BY <4>1, <5>1, <6>3, HoneynetAssumption
        <5>3. x \in Geo!Fields("Country") => x \in Geo!Fields("City")
          BY DEF Geo!Fields
        <5>4. x \in Geo!Fields("City") /\ x # "city" => x \in Geo!Fields("Country")
          BY DEF Geo!Fields
        <5> HIDE DEF calls
        <5>5. CASE db.type \in {"city", "isp", "other"}
          <6>1. calls[1] = "City" /\ 1 \in DOMAIN calls
            BY <5>5 DEF Geo!Calls, calls
          <6>2. CASE m \in {"City", "Country"}
            BY <5>1, <5>2, <5>3, <6>1, <6>2
          <6>3. CASE m = "ASN"
            <7>1. db.type \in {"isp", "other"}
              BY <5>1, <5>2, <5>5, <6>3
            <7>2. \E i \in DOMAIN calls : calls[i] = "ASN"
              <8>1. CASE db.type = "isp"
                <9>1. calls = <<"City", "ASN">>
                  BY <8>1 DEF Geo!Calls, calls
                <9> QED BY <9>1
              <8>2. CASE db.type = "other"
                <9>1. calls = <<"City", "Country", "ASN">>
                  BY <8>2 DEF Geo!Calls, calls
                <9> QED BY <9>1
              <8> QED BY <7>1, <8>1, <8>2
            <7> QED BY <5>1, <6>3, <7>2
          <6> QED BY <5>1, <5>2, <6>2, <6>3
        <5>6. CASE db.type = "country"
          <6>1. calls[1] = "Country" /\ 1 \in DOMAIN calls
            BY <5>6 DEF Geo!Calls, calls
          <6> QED BY <5>1, <5>2, <5>4, <5>6, <6>1
        <5>7. CASE db.type = "asn"
          <6>1. calls[1] = "ASN" /\ 1 \in DOMAIN calls
            BY <5>7 DEF Geo!Calls, calls
          <6> QED BY <5>1, <5>2, <5>7, <6>1
        <5> QED BY <5>2, <5>5, <5>6, <5>7
      <4> HIDE DEF calls
      <4>4. asking' = calls
        BY <3>1, <3>2
      <4>5. LookupOnItsWay'
        BY <2>0, <3>2, <4>1, <4>2, <4>3, <4>4 DEF LookupOnItsWay, Geo!Says
      <4> QED BY <2>1, <4>5
    <3>3. CASE ~public
      <4>1. asking' = <<>>
        BY <3>1, <3>3
      <4>2. found' \subseteq Geo!Says(ip)
        BY <1>4, <3>1 DEF Geo!Says, ReaderFollowsMain
      <4>3. phase \in Before => found' = Geo!Says(ip)
        BY <1>4, <3>1, <3>3 DEF Geo!Says, ReaderFollowsMain
      <4>4. LookupOnItsWay'
        BY <2>0, <4>1, <4>2, <4>3 DEF LookupOnItsWay, Geo!Says
      <4> QED BY <2>1, <4>4
    <3> QED BY <3>2, <3>3
  <2>3. CASE Geo!Ask(ip)
    <3> DEFINE method == Head(asking)
               answers == reader = "open" /\ method \in db.supports
    <3>1. /\ asking \notin {Idle, <<>>} /\ reader # "nil"
          /\ found' = IF answers THEN found \cup (Geo!Fields(method) \cap db.knows[ip]) ELSE found
          /\ asking' = IF answers /\ Len(asking) = 3 THEN <<"ASN">> ELSE Tail(asking)
      BY <2>3, Zenon DEF Geo!Ask
    <3>2. /\ asking \in Seq(Methods) /\ Len(asking) <= 3 /\ Len(asking) \in Nat /\ asking # <<>>
          /\ Len(asking) = 3 => asking[1] = "City" /\ asking[2] = "Country" /\ asking[3] = "ASN"
          /\ db # NoDatabase /\ ip \notin LocalIP \cup Unparsed
          /\ found \subseteq Geo!Says(ip)
          /\ phase \in Before =>
               \A x \in Geo!Says(ip) :
                 \/ x \in found
                 \/ \E i \in DOMAIN asking :
                      asking[i] \in db.supports /\ x \in Geo!Fields(asking[i])
      BY <1>4, <3>1, LenProperties DEF LookupOnItsWay
    <3>3. Geo!Says(ip) = db.knows[ip] \cap UNION {Geo!Fields(m) : m \in db.supports}
      BY <3>2, Zenon DEF Geo!Says
    <3>4. /\ DOMAIN asking = 1..Len(asking) /\ method = asking[1] /\ Len(asking) >= 1
          /\ Tail(asking) \in Seq(Methods) /\ Len(Tail(asking)) = Len(asking) - 1
          /\ DOMAIN Tail(asking) = 1..(Len(asking) - 1)
          /\ \A i \in 1..(Len(asking) - 1) : Tail(asking)[i] = asking[i + 1]
      BY <3>2, HeadTailProperties, LenProperties
    <3> HIDE DEF answers, method
    <3>5. found' \subseteq Geo!Says(ip)
      BY <3>1, <3>2, <3>3 DEF answers
    <3>6. asking' \in Seq(Methods) /\ Len(asking') <= 2
      <4>1. <<"ASN">> \in Seq(Methods) /\ Len(<<"ASN">>) = 1
        BY DEF Methods
      <4> QED BY <3>1, <3>2, <3>4, <4>1
    <3>7. ASSUME phase \in Before, NEW x \in Geo!Says(ip), x \notin found'
          PROVE  \E i \in DOMAIN asking' : /\ asking'[i] \in db.supports
                                          /\ x \in Geo!Fields(asking'[i])
      <4>1. PICK i \in DOMAIN asking : asking[i] \in db.supports /\ x \in Geo!Fields(asking[i])
        BY <3>1, <3>2, <3>7
      <4>2. reader = "open" /\ x \in db.knows[ip]
        BY <1>4, <3>2, <3>3, <3>7 DEF ReaderFollowsMain
      <4>3. i # 1 /\ (answers => x \notin Geo!Fields(asking[1]))
        BY <3>1, <3>4, <3>7, <4>1, <4>2 DEF answers
      <4>4. CASE answers /\ Len(asking) = 3
        <5>1. asking[1] = "City" /\ asking[2] = "Country" /\ asking[3] = "ASN" /\ i \in {2, 3}
          BY <3>2, <3>4, <4>1, <4>3, <4>4
        <5>2. x \in Geo!Fields("Country") => x \in Geo!Fields("City")
          BY DEF Geo!Fields
        <5>3. asking[i] = "ASN"
          BY <4>1, <4>3, <4>4, <5>1, <5>2
        <5>4. asking' = <<"ASN">>
          BY <3>1, <4>4
        <5>5. 1 \in DOMAIN asking' /\ asking'[1] = "ASN"
          BY <5>4
        <5> QED BY <4>1, <5>3, <5>5
      <4>5. CASE asking' = Tail(asking)
        <5>1. i - 1 \in 1..(Len(asking) - 1) /\ (i - 1) + 1 = i
          BY <3>2, <3>4, <4>1, <4>3
        <5>2. Tail(asking)[i - 1] = asking[i]
          BY <3>4, <5>1
        <5> QED BY <3>4, <4>1, <4>5, <5>1, <5>2
      <4> QED BY <3>1, <4>4, <4>5
    <3>8. LookupOnItsWay'
      BY <2>0, <2>1, <3>2, <3>5, <3>6, <3>7 DEF LookupOnItsWay
    <3> QED BY <2>1, <3>8
  <2> QED BY <2>0, <2>1, <2>2, <2>3
<1>5. ASSUME Inv, Typed, OneWay, Score PROVE Inv'
  <2>1. /\ bus = "score" /\ cur \in Pipe!Line /\ cur.ev \in Event
        /\ bus' = "correlate" /\ cur'.ev = cur.ev
        /\ UNCHANGED <<jsonl, phase, db, reader>> /\ asking = <<>> /\ asking' = Idle
        /\ located' = [located EXCEPT ![cur.ev] = found]
    <3>1. bus = "score" /\ cur \in Pipe!Line
      BY <1>5 DEF Score, Pipe!Score, Typed, Pipe!Busy
    <3> QED BY <1>5, <3>1 DEF Score, Pipe!Score, Geo!Finish, Pipe!sinkVars, Pipe!Line
  <2>2. ReaderFollowsMain' /\ LookupOnItsWay'
    BY <1>5, <2>1 DEF ReaderFollowsMain, LookupOnItsWay
  <2>3. Idle # <<>>
    <3>1. <<>> \in Seq({"City", "Country", "ASN"})
      OBVIOUS
    <3> QED BY <3>1, HoneynetAssumption
  <2>4. /\ found \subseteq Geo!Says(RemoteIP[cur.ev])
        /\ phase \in Before => found = Geo!Says(RemoteIP[cur.ev])
    <3>1. DOMAIN asking = {}
      BY <2>1
    <3> QED BY <1>5, <2>1, <2>3, <3>1, Zenon DEF LookupOnItsWay
  <2>5. located'[cur.ev] = found /\ \A e \in Event : e # cur.ev => located'[e] = located[e]
    BY <1>5, <2>1 DEF ScoredAreTold
  <2>6. \A i \in DOMAIN jsonl : jsonl[i].ev # cur.ev /\ jsonl[i].ev \in Event
    <3>1. jsonl \in Seq(Pipe!Line)
      BY <1>5 DEF Typed
    <3>2. \A i \in DOMAIN jsonl : jsonl[i] \in Pipe!Line
      BY <3>1
    <3>3. \A i \in DOMAIN jsonl : jsonl[i].ev # cur.ev
      BY <1>5, <2>1, Zenon DEF OneWay, InHand
    <3> QED BY <3>2, <3>3 DEF Pipe!Line
  <2>7. located' = [e \in Event |-> located'[e]]
    BY <1>5, <2>1 DEF ScoredAreTold
  <2>8. phase \in Before \cup Late
    BY <1>5 DEF ReaderFollowsMain
  <2>9. ScoredAreTold'
    BY <1>5, <2>1, <2>4, <2>5, <2>6, <2>7, <2>8 DEF ScoredAreTold, Told, Geo!Says
  <2> QED BY <2>2, <2>9
<1>6. ASSUME Inv, Typed, OneWay, [Next]_vars PROVE Inv'
  <2>0. phase \in Before \cup Late
    BY <1>6 DEF ReaderFollowsMain
  <2> USE DEF OnlyMux, OnlyPipe
  <2>1. CASE UNCHANGED <<geoVars, phase>> /\ UNCHANGED pipeVars
    BY <1>2, <1>6, <2>0, <2>1
  <2>2. CASE Starting \/ Stop \/ StopReturns \/ LocateOfNil \/ OperatorCapture \/ UNCHANGED vars
    BY <2>1, <2>2 DEF Starting, Stop, StopReturns, LocateOfNil, OperatorCapture, vars,
       Geo!AskOfNil, Geo!geoVars
  <2>3. ASSUME NEW s \in Service, Serve(s) PROVE Inv'
    BY <2>1, <2>3 DEF Serve
  <2>4. ASSUME NEW c \in Conn, Dial(c) \/ Expire(c) \/ Return(c) \/ OpenSession(c) \/ SessionEnds(c)
                              \/ Jam(c)
        PROVE  Inv'
    BY <2>1, <2>4 DEF Dial, Expire, Return, OpenSession, SessionEnds, Jam
  <2>5. ASSUME NEW c \in Conn, HandlerEmits(c) \/ SessionEmits(c) PROVE Inv'
    BY <1>3, <1>6, <2>5 DEF HandlerEmits, SessionEmits
  <2>6. CASE BusSteps \/ TuiReceive
    BY <1>3, <1>6, <2>6 DEF BusSteps, TuiReceive
  <2>7. CASE Capture
    BY <1>3, <1>6, <2>1, <2>7 DEF Capture
  <2>8. CASE Cancel
    <3>1. UNCHANGED <<geoVars, bus, cur, jsonl>> /\ phase = "running" /\ phase' = "cancelled"
      BY <2>8 DEF Cancel, Pipe!Cancel, Pipe!busVars, Pipe!sinkVars
    <3> QED BY <1>2, <1>6, <3>1 DEF Before, Late
  <2>9. CASE CloseCaptures \/ Exit
    <3>1. /\ UNCHANGED <<geoVars, bus, cur, jsonl>>
          /\ \/ phase = "cancelled" /\ phase' = "closed"
             \/ phase = "forgotten" /\ phase' = "exited"
      BY <2>9 DEF CloseCaptures, Exit
    <3> QED BY <1>2, <1>6, <3>1 DEF Before, Late
  <2>10. CASE CloseGeo
    <3>1. /\ UNCHANGED <<db, asking, found, located, bus, cur, jsonl>>
          /\ phase' \in Late /\ reader' \in {reader, "closed", "nil"}
          /\ reader' # "nil" => reader # "nil"
      BY <2>10 DEF CloseGeo, Geo!CloseReader, Geo!ForgetReader, Late
    <3>2. ReaderFollowsMain' /\ LookupOnItsWay'
      BY <1>6, <3>1 DEF ReaderFollowsMain, LookupOnItsWay, Geo!Says, Before, Late
    <3>3. ScoredAreTold'
      BY <1>6, <3>1 DEF ScoredAreTold, Told, Geo!Says, Pipe!Busy
    <3> QED BY <3>2, <3>3
  <2>11. CASE Locate \/ Score
    BY <1>4, <1>5, <1>6, <2>11
  <2> QED BY <1>6, <2>2, <2>3, <2>4, <2>5, <2>6, <2>7, <2>8, <2>9, <2>10, <2>11
          DEF Next, Main, Bus
<1>7. Inv => LinesSayWhereFrom
  BY DEF ScoredAreTold, Told, Late, LinesSayWhereFrom
<1> QED BY <1>1, <1>6, <1>7, Travel, PTL DEF Spec

-----------------------------------------------------------------------------
(* The parts in the process are the parts of their own modules. *)

\* Run in one process and taken down by its main, the engine and the pipeline do
\* nothing that Multiplexer and EventPipeline do not allow, so that what is proved of
\* those holds here: Stop leaves nothing, and no event is lost or overtaken
\* (up.go:92-135, 226-300).
THEOREM PartsBehave == Spec => Mux!Spec /\ Pipe!Spec
<1>1. Init => Mux!Init /\ Pipe!Init
  BY DEF Init
<1>2. ASSUME [Next]_vars PROVE [Mux!Next]_(Mux!vars) /\ [Pipe!Next]_(Pipe!vars)
  <2> USE DEF OnlyMux, OnlyPipe
  <2>1. ASSUME UNCHANGED muxVars PROVE UNCHANGED Mux!vars
    BY <2>1 DEF Mux!vars
  <2>2. ASSUME UNCHANGED pipeVars PROVE UNCHANGED Pipe!vars
    BY <2>2 DEF Pipe!vars
  <2>3. CASE UNCHANGED muxVars /\ UNCHANGED pipeVars
    BY <2>1, <2>2, <2>3
  <2>4. CASE Starting \/ Stop \/ StopReturns
    BY <2>2, <2>4 DEF Starting, Stop, StopReturns, Mux!Next
  <2>5. ASSUME NEW s \in Service, Serve(s)
        PROVE  [Mux!Next]_(Mux!vars) /\ [Pipe!Next]_(Pipe!vars)
    BY <2>2, <2>5 DEF Serve, Mux!Next
  <2>6. ASSUME NEW c \in Conn, Dial(c) \/ Expire(c) \/ Return(c) \/ OpenSession(c) \/ SessionEnds(c)
                              \/ Jam(c)
        PROVE  [Mux!Next]_(Mux!vars) /\ [Pipe!Next]_(Pipe!vars)
    BY <2>2, <2>6 DEF Dial, Expire, Return, OpenSession, SessionEnds, Jam, Mux!Next
  <2>7. ASSUME NEW c \in Conn, HandlerEmits(c) \/ SessionEmits(c)
        PROVE  [Mux!Next]_(Mux!vars) /\ [Pipe!Next]_(Pipe!vars)
    BY <2>7 DEF HandlerEmits, SessionEmits, Mux!Next, Pipe!Next
  <2>8. CASE BusSteps \/ Score \/ TuiReceive \/ Cancel
    BY <2>1, <2>8 DEF BusSteps, Score, TuiReceive, Cancel, Pipe!Next, Pipe!RunChannel, Pipe!Process
  <2>9. CASE Capture
    BY <2>1, <2>2, <2>9 DEF Capture, Pipe!Next, Pipe!RunChannel, Pipe!Process
  <2>10. CASE Locate \/ LocateOfNil \/ OperatorCapture \/ CloseCaptures \/ CloseGeo \/ Exit
              \/ UNCHANGED vars
    BY <2>3, <2>10 DEF Locate, LocateOfNil, OperatorCapture, CloseCaptures, CloseGeo, Exit, vars
  <2> QED BY <1>2, <2>4, <2>5, <2>6, <2>7, <2>8, <2>9, <2>10 DEF Next, Main, Bus
<1> QED BY <1>1, <1>2, PTL DEF Spec, Mux!Spec, Pipe!Spec

-----------------------------------------------------------------------------
(* Nothing is handled once Stop has returned, so nothing but sessions emits. *)

\* The engine's counter is exact, whatever else the process does; an accept loop
\* has the one connection in hand that it has accepted and not yet handed on.
Engine ==
  /\ todo \subseteq Service /\ wg \in Nat
  /\ loop \in [Service -> {"off", "accept", "spawn"}]
  /\ conn \in [Conn -> {"away", "queued", "held", "handled", "closed", "reset"}]
  /\ target \in [Conn -> Service]
InHandOfALoop ==
  /\ \A c \in Conn : conn[c] = "held" => loop[target[c]] = "spawn"
  /\ \A c, d \in Conn :
       conn[c] = "held" /\ conn[d] = "held" /\ target[c] = target[d] => c = d
Counted == wg = Cardinality(Mux!Serving) + Cardinality(Mux!Served)
NoneBeforeBind == main = "binding" => \A s \in todo : loop[s] = "off"
Quiet == main = "idle" => Mux!Serving = {} /\ Mux!Holding = {}

\* The counter after each step of the engine, and that it still counts what is alive.
LEMMA CountStep ==
  ASSUME Engine, Counted, NoneBeforeBind, [Mux!Next]_(Mux!vars)
  PROVE  wg' \in Nat /\ Counted'
<1> DEFINE Goal == wg' \in Nat /\ Counted'
<1> USE DEF Mux!engine, Mux!peers, Mux!reports
<1>1. /\ IsFiniteSet(Mux!Serving) /\ Cardinality(Mux!Serving) \in Nat
      /\ IsFiniteSet(Mux!Served) /\ Cardinality(Mux!Served) \in Nat
      /\ wg \in Nat /\ wg = Cardinality(Mux!Serving) + Cardinality(Mux!Served)
  <2>1. Mux!Serving \subseteq Service /\ Mux!Served \subseteq Conn
    BY DEF Mux!Serving, Mux!Served
  <2> QED BY <2>1, HoneynetAssumption, FS_Subset, FS_CardinalityType DEF Engine, Counted
<1>2. ASSUME wg' = wg, Mux!Serving' = Mux!Serving, Mux!Served' = Mux!Served PROVE Goal
  BY <1>1, <1>2 DEF Counted
<1>3. ASSUME NEW s, s \notin Mux!Serving, Mux!Serving' = Mux!Serving \cup {s},
             Mux!Served' = Mux!Served, wg' = wg + 1
      PROVE  Goal
  <2>1. Cardinality(Mux!Serving \cup {s}) = Cardinality(Mux!Serving) + 1
    BY <1>1, <1>3, FS_AddElement
  <2> QED BY <1>1, <1>3, <2>1 DEF Counted
<1>4. ASSUME NEW s, s \in Mux!Serving, Mux!Serving' = Mux!Serving \ {s},
             Mux!Served' = Mux!Served, wg' = wg - 1
      PROVE  Goal
  <2>1. /\ Cardinality(Mux!Serving \ {s}) = Cardinality(Mux!Serving) - 1
        /\ Cardinality(Mux!Serving \ {s}) \in Nat
    BY <1>1, <1>4, FS_RemoveElement, FS_CardinalityType
  <2> QED BY <1>1, <1>4, <2>1 DEF Counted
<1>5. ASSUME NEW c, c \notin Mux!Served, Mux!Served' = Mux!Served \cup {c},
             Mux!Serving' = Mux!Serving, wg' = wg + 1
      PROVE  Goal
  <2>1. Cardinality(Mux!Served \cup {c}) = Cardinality(Mux!Served) + 1
    BY <1>1, <1>5, FS_AddElement
  <2> QED BY <1>1, <1>5, <2>1 DEF Counted
<1>6. ASSUME NEW c, c \in Mux!Served, Mux!Served' = Mux!Served \ {c},
             Mux!Serving' = Mux!Serving, wg' = wg - 1
      PROVE  Goal
  <2>1. /\ Cardinality(Mux!Served \ {c}) = Cardinality(Mux!Served) - 1
        /\ Cardinality(Mux!Served \ {c}) \in Nat
    BY <1>1, <1>6, FS_RemoveElement, FS_CardinalityType
  <2> QED BY <1>1, <1>6, <2>1 DEF Counted
<1>7. ASSUME UNCHANGED <<wg, loop>>,
             \A c \in Conn : (conn'[c] = "handled") <=> (conn[c] = "handled")
      PROVE  Goal
  BY <1>2, <1>7 DEF Mux!Serving, Mux!Served
<1>8. CASE \/ Mux!StartCall \/ Mux!StartReturns \/ Mux!StopWait
           \/ \E c \in Conn : \/ Mux!Report(c) \/ Mux!Expire(c) \/ Mux!OpenSession(c)
                              \/ Mux!SessionReport(c) \/ Mux!SessionEnds(c) \/ Mux!Jam(c)
           \/ UNCHANGED Mux!vars
  <2>1. UNCHANGED <<wg, loop, conn>>
    BY <1>8 DEF Mux!StartCall, Mux!StartReturns, Mux!StopWait, Mux!Report, Mux!Expire,
       Mux!OpenSession, Mux!SessionReport, Mux!SessionEnds, Mux!Jam, Mux!vars
  <2> QED BY <1>7, <2>1
<1>9. CASE Mux!StopClose \/ \E c \in Conn : Mux!Dial(c)
  <2>1. UNCHANGED <<wg, loop>>
    BY <1>9 DEF Mux!StopClose, Mux!Dial
  <2>2. \A c \in Conn : (conn'[c] = "handled") <=> (conn[c] = "handled")
    BY <1>9 DEF Mux!StopClose, Mux!Reset, Mux!Dial, Engine
  <2> QED BY <1>7, <2>1, <2>2
<1>10. ASSUME NEW s \in Service, Mux!Bind(s) PROVE Goal
  <2>1. CASE UNCHANGED <<wg, loop>>
    BY <1>7, <1>10, <2>1 DEF Mux!Bind
  <2>2. CASE wg' = wg + 1 /\ loop' = [loop EXCEPT ![s] = "accept"]
    <3>1. s \notin Mux!Serving /\ Mux!Serving' = Mux!Serving \cup {s}
      BY <1>10, <2>2 DEF Mux!Bind, Mux!Serving, NoneBeforeBind, Engine
    <3>2. Mux!Served' = Mux!Served
      BY <1>10 DEF Mux!Bind, Mux!Served
    <3> QED BY <1>3, <2>2, <3>1, <3>2
  <2> QED BY <1>10, <2>1, <2>2 DEF Mux!Bind
<1>11. ASSUME NEW s \in Service, Mux!AcceptFails(s) PROVE Goal
  <2>1. /\ s \in Mux!Serving /\ Mux!Serving' = Mux!Serving \ {s}
        /\ Mux!Served' = Mux!Served /\ wg' = wg - 1
    BY <1>11 DEF Mux!AcceptFails, Mux!Serving, Mux!Served, Engine
  <2> QED BY <1>4, <2>1
<1>12. ASSUME NEW s \in Service, NEW c \in Conn, Mux!Accept(s, c) PROVE Goal
  <2>1. Mux!Serving' = Mux!Serving /\ Mux!Served' = Mux!Served /\ wg' = wg
    BY <1>12 DEF Mux!Accept, Mux!Serving, Mux!Served, Engine
  <2> QED BY <1>2, <2>1
<1>13. ASSUME NEW s \in Service, NEW c \in Conn, Mux!Spawn(s, c) PROVE Goal
  <2>1. /\ c \notin Mux!Served /\ Mux!Served' = Mux!Served \cup {c}
        /\ Mux!Serving' = Mux!Serving /\ wg' = wg + 1
    BY <1>13 DEF Mux!Spawn, Mux!Serving, Mux!Served, Engine
  <2> QED BY <1>5, <2>1
<1>14. ASSUME NEW c \in Conn, Mux!Return(c) PROVE Goal
  <2>1. /\ c \in Mux!Served /\ Mux!Served' = Mux!Served \ {c}
        /\ Mux!Serving' = Mux!Serving /\ wg' = wg - 1
    BY <1>14 DEF Mux!Return, Mux!Serving, Mux!Served, Engine
  <2> QED BY <1>6, <2>1
<1>15. Goal
  BY <1>8, <1>9, <1>10, <1>11, <1>12, <1>13, <1>14 DEF Mux!Next, Mux!Serve
<1> QED BY <1>15

\* What is not handled yet, and what is left when Stop returns.
LEMMA EngineStep ==
  ASSUME Engine, Counted, InHandOfALoop, NoneBeforeBind, Quiet, [Mux!Next]_(Mux!vars)
  PROVE  (Engine /\ Counted /\ InHandOfALoop /\ NoneBeforeBind /\ Quiet)'
<1> DEFINE Goal == (Engine /\ InHandOfALoop /\ NoneBeforeBind /\ Quiet)'
<1>0. wg' \in Nat /\ Counted'
  BY CountStep
<1> USE DEF Engine, InHandOfALoop, NoneBeforeBind, Quiet, Mux!Serving, Mux!Holding,
            Mux!engine, Mux!peers, Mux!reports
<1>1. CASE Mux!StartCall
  BY <1>0, <1>1, HoneynetAssumption DEF Mux!StartCall
<1>2. CASE Mux!StartReturns
  BY <1>0, <1>2 DEF Mux!StartReturns
<1>3. CASE Mux!StopClose
  BY <1>0, <1>3 DEF Mux!StopClose, Mux!Reset
<1>4. CASE Mux!StopWait
  <2>1. Mux!Serving = {} /\ Mux!Served = {}
    <3>1. Mux!Serving \subseteq Service /\ Mux!Served \subseteq Conn
      BY DEF Mux!Served
    <3>2. /\ IsFiniteSet(Mux!Serving) /\ Cardinality(Mux!Serving) \in Nat
          /\ IsFiniteSet(Mux!Served) /\ Cardinality(Mux!Served) \in Nat
      BY <3>1, HoneynetAssumption, FS_Subset, FS_CardinalityType
    <3> HIDE DEF Mux!Serving
    <3>3. Cardinality(Mux!Serving) = 0 /\ Cardinality(Mux!Served) = 0
      BY <1>4, <3>2 DEF Mux!StopWait, Counted
    <3> QED BY <3>2, <3>3, FS_EmptySet
  <2>2. Mux!Holding = {}
    BY <2>1 DEF Mux!Served
  <2> QED BY <1>0, <1>4, <2>1, <2>2 DEF Mux!StopWait
<1>5. ASSUME NEW s \in Service, Mux!Bind(s) \/ Mux!AcceptFails(s) PROVE Goal
  <2>1. /\ UNCHANGED <<conn, target, main>> /\ loop[s] # "spawn" /\ todo' \subseteq todo
        /\ \A t \in Service \ {s} : loop'[t] = loop[t]
        /\ loop' \in [Service -> {"off", "accept", "spawn"}]
        /\ main # "idle"
        /\ s \in todo' => loop'[s] = "off" \/ main # "binding"
    BY <1>5 DEF Mux!Bind, Mux!AcceptFails
  <2> QED BY <1>0, <2>1
<1>6. ASSUME NEW s \in Service, NEW c \in Conn, Mux!Accept(s, c) PROVE Goal
  BY <1>0, <1>6 DEF Mux!Accept
<1>7. ASSUME NEW s \in Service, NEW c \in Conn, Mux!Spawn(s, c) PROVE Goal
  BY <1>0, <1>7 DEF Mux!Spawn
<1>8. ASSUME NEW c \in Conn, Mux!Dial(c) \/ Mux!Return(c) PROVE Goal
  BY <1>0, <1>8 DEF Mux!Dial, Mux!Return
<1>9. CASE \/ \E c \in Conn : \/ Mux!Report(c) \/ Mux!Expire(c) \/ Mux!OpenSession(c)
                              \/ Mux!SessionReport(c) \/ Mux!SessionEnds(c) \/ Mux!Jam(c)
           \/ UNCHANGED Mux!vars
  <2>1. UNCHANGED <<main, todo, loop, conn, target>>
    BY <1>9 DEF Mux!Report, Mux!Expire, Mux!OpenSession, Mux!SessionReport,
       Mux!SessionEnds, Mux!Jam, Mux!vars
  <2> QED BY <1>0, <2>1
<1>10. Goal
  BY <1>1, <1>2, <1>3, <1>4, <1>5, <1>6, <1>7, <1>8, <1>9 DEF Mux!Next, Mux!Serve
<1> QED BY <1>0, <1>10

\* Once mux.Stop has returned no handler is left, so that the channel only drains but
\* for what session goroutines still put into it, for any decoys and connections
\* (multiplexer.go:119-137, ssh.go:123, pipeline.go:117).
THEOREM OnlySessionsEmit == Spec => OnlySessionsEmitAfterStop
<1> DEFINE Inv == Engine /\ Counted /\ InHandOfALoop /\ NoneBeforeBind /\ Quiet
           Step == FirstRun => \/ emitted' = emitted /\ Len(events') <= Len(events)
                               \/ \A e \in emitted' \ emitted : Origin[e].by = "session"
<1>1. Mux!Init => Inv
  <2> SUFFICES ASSUME Mux!Init PROVE Inv
    OBVIOUS
  <2>1. Mux!Serving = {} /\ Mux!Served = {} /\ Mux!Holding = {}
    BY DEF Mux!Init, Mux!Serving, Mux!Served, Mux!Holding
  <2>2. Engine /\ InHandOfALoop /\ NoneBeforeBind /\ Quiet
    BY <2>1 DEF Mux!Init, Engine, InHandOfALoop, NoneBeforeBind, Quiet
  <2>3. wg = 0 /\ Cardinality({}) = 0
    BY FS_EmptySet DEF Mux!Init
  <2> QED BY <2>1, <2>2, <2>3 DEF Counted
<1>2. Inv /\ [Mux!Next]_(Mux!vars) => Inv'
  BY EngineStep
<1>3. Mux!Spec => []Inv
  BY <1>1, <1>2, PTL DEF Mux!Spec
<1>4. ASSUME Quiet, Typed, [Next]_vars PROVE Step
  <2> SUFFICES ASSUME FirstRun
               PROVE  \/ emitted' = emitted /\ Len(events') <= Len(events)
                      \/ \A e \in emitted' \ emitted : Origin[e].by = "session"
    OBVIOUS
  <2>1. \A c \in Conn : conn[c] # "handled"
    BY <1>4 DEF Quiet, FirstRun, Mux!Holding
  <2>2. events \in Seq(Event) /\ Len(events) \in Nat
    BY <1>4, LenProperties DEF Typed
  <2> USE DEF OnlyMux, OnlyPipe
  <2>3. ASSUME UNCHANGED <<events, emitted>> PROVE emitted' = emitted /\ Len(events') <= Len(events)
    BY <2>2, <2>3
  <2>4. CASE UNCHANGED pipeVars
    BY <2>3, <2>4
  <2>5. CASE Starting \/ Stop \/ StopReturns \/ Locate \/ LocateOfNil \/ OperatorCapture
             \/ CloseCaptures \/ CloseGeo \/ Exit \/ UNCHANGED vars
    BY <2>4, <2>5 DEF Starting, Stop, StopReturns, Locate, LocateOfNil, OperatorCapture,
       CloseCaptures, CloseGeo, Exit, vars
  <2>6. ASSUME NEW s \in Service, Serve(s) PROVE UNCHANGED pipeVars
    BY <2>6 DEF Serve
  <2>7. ASSUME NEW c \in Conn, Dial(c) \/ Expire(c) \/ Return(c) \/ OpenSession(c) \/ SessionEnds(c)
                              \/ Jam(c)
        PROVE  UNCHANGED pipeVars
    BY <2>7 DEF Dial, Expire, Return, OpenSession, SessionEnds, Jam
  <2>8. ASSUME NEW c \in Conn PROVE ~HandlerEmits(c)
    BY <2>1, <2>8 DEF HandlerEmits, Mux!Report
  <2>9. ASSUME NEW c \in Conn, SessionEmits(c)
        PROVE  \A e \in emitted' \ emitted : Origin[e].by = "session"
    BY <2>9 DEF SessionEmits, Pipe!Emit
  <2>10. CASE Score \/ Capture \/ Cancel \/ TuiReceive
    <3>1. UNCHANGED <<events, emitted>>
      BY <2>10 DEF Score, Capture, Cancel, TuiReceive, Pipe!Score, Pipe!SinkCapture,
         Pipe!Cancel, Pipe!TuiReceive, Pipe!history
    <3> QED BY <2>3, <3>1
  <2>11. CASE BusSteps
    <3>1. CASE Pipe!Take
      <4>1. events # <<>> /\ events' = Tail(events) /\ emitted' = emitted
        BY <3>1 DEF Pipe!Take, Pipe!history
      <4>2. Len(Tail(events)) = Len(events) - 1
        BY <2>2, <4>1, HeadTailProperties
      <4> QED BY <2>2, <4>1, <4>2
    <3>2. CASE \/ Pipe!ExitBus \/ Pipe!Correlate \/ Pipe!Playbook
               \/ Pipe!SinkCount \/ Pipe!SinkPersist \/ Pipe!SinkFanOut
      <4>1. UNCHANGED <<events, emitted>>
        BY <3>2 DEF Pipe!ExitBus, Pipe!Correlate, Pipe!Playbook, Pipe!SinkCount,
           Pipe!SinkPersist, Pipe!SinkFanOut, Pipe!history
      <4> QED BY <2>3, <4>1
    <3> QED BY <2>11, <3>1, <3>2 DEF BusSteps
  <2> QED BY <1>4, <2>4, <2>5, <2>6, <2>7, <2>8, <2>9, <2>10, <2>11 DEF Next, Main, Bus
<1>5. Inv => Quiet
  OBVIOUS
<1>6. Step <=> (FirstRun => \/ emitted' = emitted /\ Len(events') <= Len(events)
                            \/ \A e \in emitted' \ emitted : Origin[e].by = "session")
  OBVIOUS
<1> HIDE DEF Inv, Step
<1>7. []Quiet /\ []Typed /\ [][Next]_vars => [][Step]_vars
  BY <1>4, PTL
<1> QED BY <1>3, <1>5, <1>6, <1>7, PartsBehave, Travel, PTL DEF Spec, OnlySessionsEmitAfterStop
=============================================================================
