------------------------ MODULE EventPipelineProofs ------------------------
(***************************************************************************)
(* Proofs about EventPipeline for every set of events, every capacity and  *)
(* every score function.                                                   *)
(***************************************************************************)
EXTENDS EventPipeline, SequenceTheorems, TLAPS

USE DEF Line, busVars, sinkVars, history

\* Every step keeps the types.
LEMMA TypeStep == ASSUME TypeOK, [Next]_vars PROVE TypeOK'
<1> USE PipelineAssumption DEF TypeOK, Busy
<1>1. ASSUME NEW e \in Event, Emit(e) PROVE TypeOK'
  <2>1. CASE Len(events) < EventsCap /\ events' = Append(events, e)
               /\ accepted' = Append(accepted, e)
    <3>1. /\ Append(events, e) \in Seq(Event)
          /\ Len(Append(events, e)) = Len(events) + 1
          /\ Append(accepted, e) \in Seq(Event)
          /\ Len(events) \in Nat
      BY AppendProperties
    <3> HIDE DEF Line
    <3> QED BY <1>1, <2>1, <3>1 DEF Emit
  <2>2. CASE UNCHANGED <<events, accepted>>
    <3> HIDE DEF Line
    <3> QED BY <1>1, <2>2 DEF Emit
  <2> QED BY <1>1, <2>1, <2>2 DEF Emit
<1>2. CASE Take
  <2>1. Head(events) \in Event /\ Tail(events) \in Seq(Event)
        /\ Len(Tail(events)) <= EventsCap
    BY <1>2, HeadTailProperties DEF Take
  <2>2. cur' \in Line /\ cur' # NoLine
    <3>1. (Head(events) \in PreMapped) \in BOOLEAN
      OBVIOUS
    <3>2. [ev |-> Head(events), mitre |-> Head(events) \in PreMapped, pcap |-> FALSE] \in Line
      BY <2>1, <3>1, Zenon
    <3> HIDE DEF Line, TypeOK
    <3> QED BY <1>2, <3>2 DEF Take
  <2> HIDE DEF Line
  <2> QED BY <1>2, <2>1, <2>2 DEF Take
<1>3. CASE ExitBus
  BY <1>3 DEF ExitBus
<1>4. CASE Score
  BY <1>4 DEF Score
<1>5. CASE Correlate
  BY <1>5 DEF Correlate
<1>6. CASE Playbook
  BY <1>6 DEF Playbook
<1>7. CASE SinkCount
  <2>1. cur \in Line /\ cur.ev \in Event /\ ThreatScore[cur.ev] \in Nat
    BY <1>7 DEF SinkCount
  <2>2. metrics' \in [connections : Nat, critical : Nat, blocked : Nat]
    <3>1. \E c, b \in {0, 1} :
            metrics' = [connections |-> metrics.connections + 1,
                        critical |-> metrics.critical + c, blocked |-> metrics.blocked + b]
      <4> HIDE DEF TypeOK
      <4> DEFINE c == IF cur.ev \in Critical THEN 1 ELSE 0
                 b == IF ThreatScore[cur.ev] >= BlockedScore THEN 1 ELSE 0
      <4>1. c \in {0, 1} /\ b \in {0, 1}
        OBVIOUS
      <4>2. metrics' = [connections |-> metrics.connections + 1,
                        critical |-> metrics.critical + c, blocked |-> metrics.blocked + b]
        BY <1>7, Zenon DEF SinkCount
      <4> QED BY <4>1, <4>2, Zenon
    <3>2. /\ metrics.connections \in Nat /\ metrics.critical \in Nat
          /\ metrics.blocked \in Nat
      OBVIOUS
    <3>3. PICK c, b \in {0, 1} :
            metrics' = [connections |-> metrics.connections + 1,
                        critical |-> metrics.critical + c, blocked |-> metrics.blocked + b]
      BY <3>1
    <3> HIDE DEF TypeOK
    <3>4. /\ metrics.connections + 1 \in Nat /\ metrics.critical + c \in Nat
          /\ metrics.blocked + b \in Nat
      BY <3>2
    <3> QED BY <3>3, <3>4
  <2>3. alerted' \subseteq Event
    BY <1>7, <2>1 DEF SinkCount
  <2>4. /\ cur' = cur /\ bus' = "capture"
        /\ UNCHANGED <<events, tuiEvents, ctxDone, ingested, ruled, captured, blocklist,
                       jsonl, tuiSeen, emitted, accepted>>
    BY <1>7, Zenon DEF SinkCount
  <2>5. Busy
    BY <1>7 DEF SinkCount
  <2>6. /\ bus' \in {"select", "score", "correlate", "playbook", "count", "capture",
                     "persist", "fanout", "exited"}
        /\ Busy'
    BY <2>4
  <2> HIDE DEF Busy
  <2>7. /\ events' = events /\ tuiEvents' = tuiEvents /\ ctxDone' = ctxDone /\ cur' = cur
        /\ ingested' = ingested /\ ruled' = ruled /\ captured' = captured
        /\ blocklist' = blocklist /\ jsonl' = jsonl /\ tuiSeen' = tuiSeen
        /\ emitted' = emitted /\ accepted' = accepted
    BY <2>4
  <2> QED BY <2>2, <2>3, <2>5, <2>6, <2>7, Zenon
<1>8. CASE SinkCapture
  <2>1. cur \in Line /\ cur.ev \in Event
    BY <1>8 DEF SinkCapture
  <2>2. cur' \in Line /\ captured' \subseteq Event
    BY <1>8, <2>1 DEF SinkCapture
  <2>3. cur' # NoLine
    BY <2>2, PipelineAssumption
  <2>4. Busy /\ bus' = "persist"
        /\ UNCHANGED <<events, tuiEvents, ctxDone, ingested, ruled, metrics, alerted,
                       blocklist, jsonl, tuiSeen, emitted, accepted>>
    BY <1>8 DEF SinkCapture
  <2> HIDE DEF Line
  <2> QED BY <2>2, <2>3, <2>4
<1>9. CASE SinkPersist
  <2>1. cur \in Line /\ cur.ev \in Event /\ ThreatScore[cur.ev] \in Nat
    BY <1>9 DEF SinkPersist
  <2>2. blocklist' \in [IP -> Nat]
    BY <1>9, <2>1 DEF SinkPersist
  <2>3. jsonl' \in Seq(Line)
    <3>1. jsonl' = Append(jsonl, cur) \/ jsonl' = jsonl
      BY <1>9, Zenon DEF SinkPersist
    <3>2. jsonl \in Seq(Line)
      OBVIOUS
    <3> HIDE DEF Line, TypeOK
    <3>3. Append(jsonl, cur) \in Seq(Line)
      BY <2>1, <3>2, AppendProperties
    <3> QED BY <3>1, <3>2, <3>3
  <2> HIDE DEF Line
  <2> QED BY <1>9, <2>1, <2>2, <2>3 DEF SinkPersist
<1>10. CASE SinkFanOut
  <2>1. cur \in Line /\ cur.ev \in Event
    BY <1>10 DEF SinkFanOut
  <2>2. tuiEvents' \in Seq(Event) /\ Len(tuiEvents') <= TuiCap
    <3>1. CASE Len(tuiEvents) < TuiCap /\ tuiEvents' = Append(tuiEvents, cur.ev)
      <4>1. /\ Append(tuiEvents, cur.ev) \in Seq(Event)
            /\ Len(Append(tuiEvents, cur.ev)) = Len(tuiEvents) + 1
            /\ Len(tuiEvents) \in Nat
        BY <2>1, AppendProperties
      <4> QED BY <3>1, <4>1
    <3>2. CASE tuiEvents' = tuiEvents
      BY <3>2
    <3> QED BY <1>10, <3>1, <3>2 DEF SinkFanOut
  <2> HIDE DEF Line
  <2> QED BY <1>10, <2>1, <2>2 DEF SinkFanOut
<1>11. CASE TuiReceive
  <2>1. /\ tuiEvents' \in Seq(Event) /\ Len(tuiEvents') <= TuiCap
        /\ tuiSeen' \in Seq(Event)
    BY <1>11, HeadTailProperties, AppendProperties DEF TuiReceive
  <2> HIDE DEF Line
  <2> QED BY <1>11, <2>1 DEF TuiReceive
<1>12. CASE Cancel
  BY <1>12 DEF Cancel
<1>13. CASE UNCHANGED vars
  BY <1>13 DEF vars
<1> QED
  BY <1>1, <1>2, <1>3, <1>4, <1>5, <1>6, <1>7, <1>8, <1>9, <1>10, <1>11, <1>12, <1>13
     DEF Next, RunChannel, Process

-----------------------------------------------------------------------------
(* The order of events from the channel to the bus. *)

\* What Emit does, branch by branch, on well-typed channels; and every bus step but
\* Take keeps the event in hand or puts it down.
LEMMA ChannelStep ==
  ASSUME TypeOK
  PROVE  /\ \A e \in Event : Emit(e) =>
              /\ emitted' = emitted \cup {e} /\ e \notin emitted
              /\ UNCHANGED <<bus, cur>>
              /\ \/ UNCHANGED <<events, accepted>>
                 \/ /\ Len(events') = Len(events) + 1 /\ Len(accepted') = Len(accepted) + 1
                    /\ events'[Len(events) + 1] = e /\ accepted'[Len(accepted) + 1] = e
                    /\ \A i \in DOMAIN events : events'[i] = events[i]
                    /\ \A i \in DOMAIN accepted : accepted'[i] = accepted[i]
         /\ Process \/ ExitBus \/ TuiReceive \/ Cancel =>
              /\ UNCHANGED <<events, accepted, emitted>>
              /\ Busy' => Busy /\ cur'.ev = cur.ev
<1>1. /\ events \in Seq(Event) /\ accepted \in Seq(Event)
      /\ Busy => cur \in Line
  BY DEF TypeOK
<1> HIDE DEF TypeOK
<1>2. ASSUME NEW e \in Event, Emit(e)
      PROVE  /\ emitted' = emitted \cup {e} /\ e \notin emitted
             /\ UNCHANGED <<bus, cur>>
             /\ \/ UNCHANGED <<events, accepted>>
                \/ /\ Len(events') = Len(events) + 1 /\ Len(accepted') = Len(accepted) + 1
                   /\ events'[Len(events) + 1] = e /\ accepted'[Len(accepted) + 1] = e
                   /\ \A i \in DOMAIN events : events'[i] = events[i]
                   /\ \A i \in DOMAIN accepted : accepted'[i] = accepted[i]
  <2>1. CASE events' = Append(events, e) /\ accepted' = Append(accepted, e)
    BY <1>1, <1>2, <2>1, AppendProperties DEF Emit
  <2>2. CASE UNCHANGED <<events, accepted>>
    BY <1>2, <2>2 DEF Emit
  <2> QED BY <1>2, <2>1, <2>2 DEF Emit
<1>3. ASSUME Process \/ ExitBus \/ TuiReceive \/ Cancel
      PROVE  /\ UNCHANGED <<events, accepted, emitted>>
             /\ Busy' => Busy /\ cur'.ev = cur.ev
  <2>1. CASE Score \/ SinkCapture
    BY <1>1, <2>1 DEF Score, SinkCapture, Busy, Line
  <2>2. CASE Correlate \/ Playbook \/ SinkCount \/ SinkPersist \/ SinkFanOut
    BY <2>2 DEF Correlate, Playbook, SinkCount, SinkPersist, SinkFanOut, Busy
  <2>3. CASE ExitBus \/ TuiReceive \/ Cancel
    BY <2>3 DEF ExitBus, TuiReceive, Cancel, Busy
  <2> QED BY <1>3, <2>1, <2>2, <2>3 DEF Process
<1> QED BY <1>2, <1>3, Zenon

LEMMA OrderStep ==
  ASSUME IInv, TypeOK', [Next]_vars
  PROVE  AcceptedWasEmitted' /\ NoneLostOrOvertaken'
<1>0. /\ events \in Seq(Event) /\ accepted \in Seq(Event)
      /\ events' \in Seq(Event) /\ accepted' \in Seq(Event)
      /\ Len(events) \in Nat /\ Len(accepted) \in Nat
      /\ DOMAIN events = 1..Len(events) /\ DOMAIN accepted = 1..Len(accepted)
      /\ DOMAIN events' = 1..Len(events') /\ DOMAIN accepted' = 1..Len(accepted')
      /\ TypeOK /\ AcceptedWasEmitted /\ NoneLostOrOvertaken
  <2>1. TypeOK /\ AcceptedWasEmitted /\ NoneLostOrOvertaken
    BY Zenon DEF IInv
  <2>2. events \in Seq(Event) /\ accepted \in Seq(Event)
    BY <2>1, Zenon DEF TypeOK
  <2>3. events' \in Seq(Event) /\ accepted' \in Seq(Event)
    BY Zenon DEF TypeOK
  <2> HIDE DEF IInv, TypeOK
  <2> QED BY <2>1, <2>2, <2>3, LenProperties, Zenon
<1> HIDE DEF TypeOK, IInv
<1> USE <1>0 DEF Taken, AcceptedWasEmitted, NoneLostOrOvertaken
<1>1. ASSUME NEW e \in Event, Emit(e)
      PROVE  AcceptedWasEmitted' /\ NoneLostOrOvertaken'
  <2>1. emitted' = emitted \cup {e} /\ e \notin emitted /\ UNCHANGED <<bus, cur>>
    BY <1>1, ChannelStep
  <2>2. CASE UNCHANGED <<events, accepted>>
    BY <2>1, <2>2 DEF Busy
  <2>3. CASE /\ Len(events') = Len(events) + 1 /\ Len(accepted') = Len(accepted) + 1
             /\ events'[Len(events) + 1] = e /\ accepted'[Len(accepted) + 1] = e
             /\ \A i \in DOMAIN events : events'[i] = events[i]
             /\ \A i \in DOMAIN accepted : accepted'[i] = accepted[i]
    <3>1. \A i \in 1..Len(accepted') : i \in 1..Len(accepted) \/ i = Len(accepted) + 1
      BY <2>3
    <3>2. \A i \in 1..Len(events') : i \in 1..Len(events) \/ i = Len(events) + 1
      BY <2>3
    <3>3. AcceptedWasEmitted'
      BY <2>1, <2>3, <3>1
    <3>4. \A i \in 1..Len(accepted) : accepted[i] # e
      BY <2>1
    <3>5. \A i, j \in 1..Len(accepted') : accepted'[i] = accepted'[j] => i = j
      BY <2>3, <3>1, <3>4
    <3>6. Taken' = Taken /\ Len(events') <= Len(accepted')
      BY <2>3
    <3>7. Taken \in 0..Len(accepted) /\ Taken + Len(events) = Len(accepted)
      OBVIOUS
    <3>8. \A i \in 1..Len(events') : events'[i] = accepted'[Taken' + i]
      <4> SUFFICES ASSUME NEW i \in 1..Len(events') PROVE events'[i] = accepted'[Taken + i]
        BY <3>6
      <4>1. CASE i \in 1..Len(events)
        <5>1. events[i] = accepted[Taken + i] /\ Taken + i \in 1..Len(accepted)
          BY <4>1, <3>7
        <5> QED BY <2>3, <4>1, <5>1
      <4>2. CASE i = Len(events) + 1
        <5>1. Taken + i = Len(accepted) + 1
          BY <4>2, <3>7
        <5> QED BY <2>3, <4>2, <5>1
      <4> QED BY <3>2, <4>1, <4>2
    <3>9. Busy' => Taken' > 0 /\ cur'.ev = accepted'[Taken']
      <4> SUFFICES ASSUME Busy' PROVE Taken > 0 /\ cur.ev = accepted'[Taken]
        BY <2>1, <3>6
      <4>1. Busy
        BY <2>1 DEF Busy
      <4>2. Taken > 0 /\ cur.ev = accepted[Taken]
        BY <4>1
      <4>3. Taken \in 1..Len(accepted)
        BY <3>7, <4>2
      <4> HIDE DEF Taken, AcceptedWasEmitted, NoneLostOrOvertaken
      <4> QED BY <1>0, <2>3, <4>2, <4>3
    <3> QED BY <3>3, <3>5, <3>6, <3>8, <3>9
  <2> QED BY <1>1, <2>2, <2>3, ChannelStep
<1>2. CASE Take
  <2>1. /\ Len(events') = Len(events) - 1
        /\ \A i \in 1..Len(events') : events'[i] = events[i + 1]
        /\ UNCHANGED <<accepted, emitted>>
        /\ Head(events) = events[1] /\ Len(events) > 0
        /\ cur'.ev = Head(events)
    BY <1>2, HeadTailProperties DEF Take
  <2>2. Taken' = Taken + 1
    BY <2>1
  <2>3. \A i \in 1..Len(events') : events'[i] = accepted'[Taken' + i]
    <3> SUFFICES ASSUME NEW i \in 1..Len(events')
                 PROVE  events'[i] = accepted[(Taken + 1) + i]
      BY <2>1, <2>2
    <3>1. Taken \in Nat /\ i + 1 \in 1..Len(events)
          /\ Taken + (i + 1) = (Taken + 1) + i
      BY <2>1
    <3>2. events[i + 1] = accepted[Taken + (i + 1)]
      BY <3>1
    <3> QED BY <2>1, <3>1, <3>2
  <2>4. Taken' > 0 /\ cur'.ev = accepted'[Taken']
    <3>1. events[1] = accepted[Taken + 1] /\ Taken \in Nat
      BY <2>1
    <3> QED BY <2>1, <2>2, <3>1
  <2>5. AcceptedWasEmitted' /\ Len(events') <= Len(accepted')
    BY <2>1
  <2>6. \A i, j \in DOMAIN accepted' : accepted'[i] = accepted'[j] => i = j
    BY <2>1
  <2>7. NoneLostOrOvertaken'
    <3> HIDE DEF Taken, AcceptedWasEmitted
    <3> QED BY <2>3, <2>4, <2>5, <2>6, <1>0, Zenon
  <2> QED BY <2>5, <2>7
<1>3. CASE Process \/ ExitBus \/ TuiReceive \/ Cancel
  BY <1>3, ChannelStep
<1>4. CASE UNCHANGED vars
  BY <1>4 DEF vars, Busy
<1> QED
  BY <1>1, <1>2, <1>3, <1>4 DEF Next, RunChannel

\* The inductive invariant, and with it: no accepted event is lost, doubled or
\* overtaken between the channel and the bus, for any capacity.
THEOREM InductiveInvariant == Spec => []IInv
<1>0. Init => TypeOK
  <2> SUFFICES ASSUME Init PROVE TypeOK
    OBVIOUS
  <2>1. /\ <<>> \in Seq(Event) /\ <<>> \in Seq(Line) /\ Len(<<>>) = 0
        /\ 0 <= EventsCap /\ 0 <= TuiCap
    BY PipelineAssumption
  <2>2. metrics \in [connections : Nat, critical : Nat, blocked : Nat]
    BY DEF Init
  <2>3. blocklist \in [IP -> Nat]
    BY DEF Init
  <2> HIDE DEF Line
  <2> QED BY <2>1, <2>2, <2>3 DEF Init, TypeOK, Busy
<1>1. Init => IInv
  BY <1>0 DEF Init, IInv, Busy, AcceptedWasEmitted, NoneLostOrOvertaken
<1>2. IInv /\ [Next]_vars => IInv'
  BY TypeStep, OrderStep DEF IInv
<1> QED
  BY <1>1, <1>2, PTL DEF Spec

\* Type correctness of every reachable state.
THEOREM TypeCorrect == Spec => []TypeOK
<1>1. IInv => TypeOK
  BY DEF IInv
<1> QED
  BY <1>1, InductiveInvariant, PTL

\* The bus takes what the channel accepted, in that order.
THEOREM ChannelKeepsOrder == Spec => []NoneLostOrOvertaken
<1>1. IInv => NoneLostOrOvertaken
  BY DEF IInv
<1> QED
  BY <1>1, InductiveInvariant, PTL

-----------------------------------------------------------------------------
(* The stages keep step, and the pipeline implements EventDelivery. *)

\* Settled and its like are derived from the channel and the bus position; this
\* is how each step moves them.
LEMMA TakenStep ==
  ASSUME IInv, IInv', [Next]_vars
  PROVE  /\ Taken \in 0..Len(accepted) /\ Taken' \in 0..Len(accepted')
         /\ \A i \in DOMAIN accepted : i \in DOMAIN accepted' /\ accepted'[i] = accepted[i]
         /\ Taken' = IF Take THEN Taken + 1 ELSE Taken
<1>0. /\ TypeOK /\ Len(events) \in Nat /\ Len(accepted) \in Nat
      /\ Len(events') \in Nat /\ Len(accepted') \in Nat
      /\ events \in Seq(Event) /\ accepted \in Seq(Event)
      /\ accepted' \in Seq(Event)
      /\ DOMAIN accepted = 1..Len(accepted)
      /\ DOMAIN accepted' = 1..Len(accepted')
  <2>1. TypeOK /\ TypeOK'
    BY Zenon DEF IInv
  <2>2. events \in Seq(Event) /\ accepted \in Seq(Event)
    BY <2>1, Zenon DEF TypeOK
  <2>3. events' \in Seq(Event) /\ accepted' \in Seq(Event)
    BY <2>1, Zenon DEF TypeOK
  <2> HIDE DEF IInv, TypeOK
  <2> QED BY <2>1, <2>2, <2>3, LenProperties, Zenon
<1>1. Taken \in 0..Len(accepted) /\ Taken' \in 0..Len(accepted')
  BY <1>0 DEF IInv, NoneLostOrOvertaken, Taken
<1> HIDE DEF IInv
<1>2. CASE Take
  BY <1>0, <1>1, <1>2, HeadTailProperties DEF Take, Taken
<1>3. ASSUME NEW e \in Event, Emit(e)
      PROVE  /\ \A i \in DOMAIN accepted : i \in DOMAIN accepted' /\ accepted'[i] = accepted[i]
             /\ Taken' = Taken /\ ~Take
  <2>1. ~Take
    <3>1. e \in emitted' /\ e \notin emitted
      BY <1>3 DEF Emit
    <3>2. Take => emitted' = emitted
      BY DEF Take
    <3> QED BY <3>1, <3>2
  <2>2. CASE UNCHANGED <<events, accepted>>
    BY <1>0, <2>1, <2>2 DEF Taken
  <2>3. CASE /\ Len(events') = Len(events) + 1 /\ Len(accepted') = Len(accepted) + 1
             /\ \A i \in DOMAIN accepted : accepted'[i] = accepted[i]
    <3>1. Taken' = Taken
      BY <1>0, <2>3 DEF Taken
    <3> QED BY <1>0, <2>1, <2>3, <3>1
  <2> QED BY <1>0, <1>3, <2>2, <2>3, ChannelStep
<1>4. CASE ~Take /\ (Process \/ ExitBus \/ TuiReceive \/ Cancel)
  BY <1>0, <1>1, <1>4, ChannelStep DEF Taken
<1>5. CASE ~Take /\ UNCHANGED vars
  BY <1>0, <1>1, <1>5 DEF Taken, vars
<1> QED
  BY <1>1, <1>2, <1>3, <1>4, <1>5 DEF Next, RunChannel

LEMMA StagesStep ==
  ASSUME IInv, IInv', StagesInStep, [Next]_vars
  PROVE  StagesInStep'
<1>0. /\ ingested \in Seq(Event) /\ ruled \in Seq(Event)
      /\ DOMAIN ingested = 1..Len(ingested) /\ DOMAIN ruled = 1..Len(ruled)
      /\ Len(ingested) \in Nat /\ Len(ruled) \in Nat
      /\ ingested' \in Seq(Event) /\ ruled' \in Seq(Event)
      /\ DOMAIN ingested' = 1..Len(ingested') /\ DOMAIN ruled' = 1..Len(ruled')
      /\ DOMAIN accepted = 1..Len(accepted) /\ Len(accepted) \in Nat
      /\ TypeOK
  <2>1. /\ TypeOK /\ ingested \in Seq(Event) /\ ruled \in Seq(Event)
        /\ ingested' \in Seq(Event) /\ ruled' \in Seq(Event) /\ accepted \in Seq(Event)
    BY DEF IInv, TypeOK
  <2> QED BY <2>1, LenProperties
<1>1. /\ Taken \in 0..Len(accepted)
      /\ \A i \in DOMAIN accepted : accepted'[i] = accepted[i]
      /\ Taken' = IF Take THEN Taken + 1 ELSE Taken
  BY TakenStep
<1>2. Busy => Taken > 0 /\ cur.ev = accepted[Taken] /\ cur.ev \in Event
  BY DEF IInv, NoneLostOrOvertaken, TypeOK
<1>3. bus \in {"score", "correlate", "playbook"} => Taken > 0
  BY <1>2 DEF Busy
<1> HIDE DEF IInv, TypeOK
<1> USE <1>0, <1>1 DEF StagesInStep, Correlated, Ruled, Past
<1>4. CASE UNCHANGED <<bus, ingested, ruled>> /\ ~Take
  BY <1>3, <1>4
<1>5. CASE Take
  BY <1>5 DEF Take
<1>6. CASE ~Take /\ Score
  BY <1>3, <1>6 DEF Score
<1>7. CASE ~Take /\ Correlate
  <2>1. /\ Len(ingested') = Len(ingested) + 1
        /\ ingested'[Len(ingested) + 1] = accepted[Taken]
        /\ \A i \in 1..Len(ingested) : ingested'[i] = ingested[i]
        /\ bus = "correlate" /\ bus' = "playbook" /\ UNCHANGED <<ruled, accepted>>
    BY <1>2, <1>7, AppendProperties DEF Correlate, Busy
  <2> QED BY <1>3, <1>7, <2>1
<1>8. CASE ~Take /\ Playbook
  <2>1. /\ Len(ruled') = Len(ruled) + 1
        /\ ruled'[Len(ruled) + 1] = accepted[Taken]
        /\ \A i \in 1..Len(ruled) : ruled'[i] = ruled[i]
        /\ bus = "playbook" /\ bus' = "count" /\ UNCHANGED <<ingested, accepted>>
    BY <1>2, <1>8, AppendProperties DEF Playbook, Busy
  <2> QED BY <1>3, <1>8, <2>1
<1>9. CASE /\ ~Take /\ UNCHANGED <<ingested, ruled, accepted>>
           /\ bus \notin {"score", "correlate", "playbook"}
           /\ bus' \notin {"score", "correlate", "playbook"}
  BY <1>9
<1>10. ASSUME NEW e \in Event, Emit(e) PROVE ~Take /\ UNCHANGED <<bus, ingested, ruled>>
  <2>1. e \in emitted' /\ e \notin emitted
    BY <1>10 DEF Emit
  <2>2. Take => emitted' = emitted
    BY DEF Take
  <2> QED BY <1>10, <2>1, <2>2 DEF Emit
<1> QED
  <2>1. CASE ~Take /\ (SinkCount \/ SinkCapture \/ SinkPersist \/ SinkFanOut \/ ExitBus)
    BY <1>9, <2>1 DEF SinkCount, SinkCapture, SinkPersist, SinkFanOut, ExitBus
  <2>2. CASE ~Take /\ (TuiReceive \/ Cancel \/ UNCHANGED vars)
    BY <1>4, <2>2 DEF TuiReceive, Cancel, vars
  <2> QED
    BY <1>4, <1>5, <1>6, <1>7, <1>8, <1>10, <2>1, <2>2 DEF Next, RunChannel, Process

\* Correlator and playbook engine see every accepted event exactly once and in
\* order, the playbook engine at most one event behind the correlator.
THEOREM StagesKeepStep == Spec => []StagesInStep
<1>1. Init => StagesInStep
  <2> SUFFICES ASSUME Init PROVE StagesInStep
    OBVIOUS
  <2>1. Len(<<>>) = 0
    BY EmptySeq
  <2>2. Taken = 0 /\ bus = "select"
    BY <2>1 DEF Init, Taken
  <2>3. Correlated = 0 /\ Ruled = 0
    <3>1. bus \notin {"score", "correlate"} /\ bus \notin {"score", "correlate", "playbook"}
      BY <2>2
    <3>2. Correlated = Taken - 0 /\ Ruled = Taken - 0
      BY <3>1, Zenon DEF Correlated, Ruled, Past
    <3> QED BY <2>2, <3>2
  <2>4. ingested = <<>> /\ ruled = <<>>
    BY DEF Init
  <2>5. /\ Len(ingested) = 0 /\ DOMAIN ingested = {}
        /\ Len(ruled) = 0 /\ DOMAIN ruled = {}
    BY <2>4, EmptySeq
  <2> QED BY <2>3, <2>5 DEF StagesInStep
<1>2. IInv /\ IInv' /\ StagesInStep /\ [Next]_vars => StagesInStep'
  BY StagesStep
<1> QED
  BY <1>1, <1>2, InductiveInvariant, PTL DEF Spec

-----------------------------------------------------------------------------
Recorded == [i \in DOMAIN jsonl |-> jsonl[i].ev]

\* Appending a line to the file appends its event to the record.
LEMMA RecordedGrows ==
  ASSUME NEW j \in Seq(Line), NEW l \in Line
  PROVE  [i \in DOMAIN Append(j, l) |-> Append(j, l)[i].ev]
           = Append([i \in DOMAIN j |-> j[i].ev], l.ev)
<1> DEFINE new == [i \in DOMAIN Append(j, l) |-> Append(j, l)[i].ev]
           old == [i \in DOMAIN j |-> j[i].ev]
<1>1. /\ Append(j, l) \in Seq(Line) /\ Len(Append(j, l)) = Len(j) + 1 /\ Len(j) \in Nat
      /\ DOMAIN j = 1..Len(j) /\ DOMAIN Append(j, l) = 1..(Len(j) + 1)
      /\ \A i \in 1..Len(j) : Append(j, l)[i] = j[i] /\ j[i] \in Line
      /\ Append(j, l)[Len(j) + 1] = l
  <2> HIDE DEF Line
  <2>1. /\ Append(j, l) \in Seq(Line) /\ Len(Append(j, l)) = Len(j) + 1
        /\ \A i \in 1..Len(j) : Append(j, l)[i] = j[i]
        /\ Append(j, l)[Len(j) + 1] = l
    BY AppendProperties
  <2>2. Len(j) \in Nat /\ DOMAIN j = 1..Len(j) /\ j \in [1..Len(j) -> Line]
    BY LenProperties
  <2>3. DOMAIN Append(j, l) = 1..(Len(j) + 1)
    BY <2>1, LenProperties
  <2> QED BY <2>1, <2>2, <2>3
<1>2. old \in Seq(Event) /\ Len(old) = Len(j)
  BY <1>1, IsASeq
<1>3. new \in Seq(Event) /\ Len(new) = Len(j) + 1
  <2>1. \A i \in 1..(Len(j) + 1) : Append(j, l)[i].ev \in Event
    BY <1>1
  <2> QED BY <1>1, <2>1, IsASeq
<1>4. l.ev \in Event
  OBVIOUS
<1>5. /\ Append(old, l.ev) \in Seq(Event) /\ Len(Append(old, l.ev)) = Len(j) + 1
      /\ \A i \in 1..Len(j) : Append(old, l.ev)[i] = old[i]
      /\ Append(old, l.ev)[Len(j) + 1] = l.ev
  BY <1>2, <1>4, AppendProperties
<1>6. \A i \in 1..(Len(j) + 1) : new[i] = Append(old, l.ev)[i]
  <2> SUFFICES ASSUME NEW i \in 1..(Len(j) + 1)
               PROVE  Append(j, l)[i].ev = Append(old, l.ev)[i]
    BY <1>1
  <2>1. CASE i \in 1..Len(j)
    BY <1>1, <1>5, <2>1
  <2>2. CASE i = Len(j) + 1
    BY <1>1, <1>5, <2>2
  <2> QED BY <1>1, <2>1, <2>2
<1> HIDE DEF new, old
<1>7. new = Append(old, l.ev)
  BY <1>3, <1>5, <1>6, SeqEqual
<1> QED BY <1>7 DEF new, old

\* The event a line is written for is the first one not yet settled.
LEMMA PersistStep ==
  ASSUME IInv, IInv', SinkPersist
  PROVE  /\ Settled = Taken - 1 /\ Settled' = Taken
         /\ Taken \in 1..Len(accepted) /\ cur.ev = accepted[Taken] /\ cur \in Line
         /\ UNCHANGED <<accepted, emitted>>
<1>1. bus = "persist" /\ bus' \in {"select", "fanout"} /\ UNCHANGED <<events, accepted, emitted>>
  BY DEF SinkPersist
<1>2. Busy
  BY <1>1 DEF Busy
<1>3. cur \in Line /\ Taken > 0 /\ cur.ev = accepted[Taken]
  BY <1>2 DEF IInv, TypeOK, NoneLostOrOvertaken
<1>4. [Next]_vars /\ ~Take
  BY <1>1 DEF Next, RunChannel, Process, Take
<1>5. Taken \in 0..Len(accepted)
  BY <1>4, TakenStep
<1>6. Len(accepted) \in Nat
  BY DEF IInv, TypeOK
<1>7. Taken' = Taken
  BY <1>1 DEF Taken
<1> HIDE DEF IInv
<1>8. Settled = Taken - 1 /\ Settled' = Taken' - 0
  <2> DEFINE early == {"score", "correlate", "playbook", "count", "capture", "persist"}
  <2>1. bus \in early /\ bus' \notin early
    BY <1>1
  <2> QED BY <2>1, Zenon DEF Settled, Past
<1> QED BY <1>1, <1>3, <1>5, <1>6, <1>7, <1>8

\* Every step of the pipeline is a step of EventDelivery or none at all.
LEMMA DeliveryStep ==
  ASSUME IInv, IInv', [Next]_vars
  PROVE  [Delivery!Next]_(Delivery!dvars)
<1> USE DEF Delivery!dvars
<1>0. /\ Taken \in 0..Len(accepted) /\ Taken' = IF Take THEN Taken + 1 ELSE Taken
      /\ jsonl \in Seq(Line)
  BY TakenStep DEF IInv, TypeOK
<1> HIDE DEF IInv
<1>1. ASSUME NEW e \in Event, Emit(e) PROVE Delivery!Next
  <2>1. /\ e \notin emitted /\ emitted' = emitted \cup {e} /\ UNCHANGED <<bus, jsonl>>
        /\ accepted' = Append(accepted, e) \/ accepted' = accepted
    BY <1>1 DEF Emit
  <2>2. ~Take
    BY <2>1 DEF Take
  <2>3. Settled' = Settled
    BY <1>0, <2>1, <2>2 DEF Settled, Past
  <2> QED BY <2>1, <2>3 DEF Delivery!Next, Delivery!Refuse, Delivery!Accept
<1>2. CASE SinkPersist
  <2>1. /\ Settled = Taken - 1 /\ Settled' = Taken
        /\ Taken \in 1..Len(accepted) /\ cur.ev = accepted[Taken] /\ cur \in Line
        /\ UNCHANGED <<accepted, emitted>>
    BY <1>2, PersistStep
  <2>2. Settled < Len(accepted) /\ Settled' = Settled + 1 /\ cur.ev = accepted[Settled + 1]
    BY <2>1
  <2>3. CASE jsonl' = Append(jsonl, cur)
    <3>1. Recorded' = Append(Recorded, cur.ev)
      BY <1>0, <2>1, <2>3, RecordedGrows DEF Recorded
    <3> QED BY <2>1, <2>2, <3>1 DEF Delivery!Next, Delivery!Record, Recorded
  <2>4. CASE jsonl' = jsonl
    BY <2>1, <2>2, <2>4 DEF Delivery!Next, Delivery!GiveUp
  <2> QED BY <1>2, <2>3, <2>4, Zenon DEF SinkPersist
<1>3. ASSUME UNCHANGED <<accepted, emitted, jsonl>>, Settled' = Settled
      PROVE  UNCHANGED Delivery!dvars
  BY <1>3
<1>4. CASE Take
  <2>1. bus = "select" /\ bus' = "score" /\ UNCHANGED <<accepted, emitted, jsonl>>
    BY <1>4 DEF Take
  <2>2. Settled' = Settled
    BY <1>0, <1>4, <2>1 DEF Settled, Past
  <2> QED BY <1>3, <2>1, <2>2
<1>5. CASE ~Take /\ (Score \/ Correlate \/ Playbook \/ SinkCount \/ SinkCapture \/ SinkFanOut \/ ExitBus)
  <2> DEFINE early == {"score", "correlate", "playbook", "count", "capture", "persist"}
  <2>1. (bus \in early <=> bus' \in early) /\ UNCHANGED <<accepted, emitted, jsonl>>
    BY <1>5 DEF Score, Correlate, Playbook, SinkCount, SinkCapture, SinkFanOut, ExitBus
  <2>2. Settled' = Settled
    BY <1>0, <1>5, <2>1 DEF Settled, Past
  <2> QED BY <1>3, <2>1, <2>2
<1>6. CASE ~Take /\ (TuiReceive \/ Cancel \/ UNCHANGED vars)
  <2>1. UNCHANGED <<bus, accepted, emitted, jsonl>>
    BY <1>6 DEF TuiReceive, Cancel, vars
  <2>2. Settled' = Settled
    BY <1>0, <1>6, <2>1 DEF Settled, Past
  <2> QED BY <1>3, <2>1, <2>2
<1> QED
  BY <1>1, <1>2, <1>4, <1>5, <1>6 DEF Next, RunChannel, Process

\* The pipeline implements the delivery contract, for any capacities, any
\* scores and any pattern of write failures.
THEOREM PipelineImplementsDelivery == Spec => DeliverySpec
<1>1. Init => Delivery!Init
  <2> SUFFICES ASSUME Init PROVE Delivery!Init
    OBVIOUS
  <2>1. /\ emitted = {} /\ accepted = <<>> /\ jsonl = <<>> /\ bus = "select"
        /\ Taken = 0
    BY EmptySeq DEF Init, Taken
  <2>2. bus \notin {"score", "correlate", "playbook", "count", "capture", "persist"}
    BY <2>1
  <2>3. Settled = Taken - 0
    BY <2>2, Zenon DEF Settled, Past
  <2>4. Recorded = <<>>
    BY <2>1 DEF Recorded
  <2> QED BY <2>1, <2>3, <2>4 DEF Delivery!Init, Recorded
<1>2. IInv /\ IInv' /\ [Next]_vars => [Delivery!Next]_(Delivery!dvars)
  BY DeliveryStep
<1> QED
  BY <1>1, <1>2, InductiveInvariant, PTL DEF Spec, DeliverySpec, Delivery!Spec

-----------------------------------------------------------------------------
(* Order of the lines of events.jsonl, from the refinement. *)

\* Where a step leaves the settled count and the record.
LEMMA SettleStep ==
  ASSUME IInv, IInv', [Next]_vars
  PROVE  /\ Settled \in 0..Len(accepted) /\ Settled' \in 0..Len(accepted')
         /\ \/ Settled' = Settled /\ Recorded' = Recorded
            \/ Settled' = Settled + 1 /\ Recorded' = Recorded
            \/ /\ Settled' = Settled + 1 /\ Settled < Len(accepted)
               /\ Recorded' = Append(Recorded, accepted[Settled + 1])
<1>1. Taken \in 0..Len(accepted) /\ Taken' \in 0..Len(accepted')
  BY TakenStep
<1>2. (Busy => Taken > 0) /\ (Busy' => Taken' > 0)
  BY DEF IInv, NoneLostOrOvertaken
<1>3. Len(accepted) \in Nat /\ Len(accepted') \in Nat
  <2>1. accepted \in Seq(Event) /\ accepted' \in Seq(Event)
    BY Zenon DEF IInv, TypeOK
  <2> QED BY <2>1, LenProperties, Zenon
<1>4. [Delivery!Next]_(Delivery!dvars)
  BY DeliveryStep
<1> HIDE DEF IInv
<1> DEFINE early == {"score", "correlate", "playbook", "count", "capture", "persist"}
<1>5. Settled \in 0..Len(accepted)
  <2>1. bus \in early => Taken > 0
    BY <1>2 DEF Busy
  <2>2. CASE bus \in early
    BY <1>1, <1>3, <2>1, <2>2 DEF Settled, Past
  <2>3. CASE bus \notin early
    BY <1>1, <1>3, <2>3 DEF Settled, Past
  <2> QED BY <2>2, <2>3
<1>6. Settled' \in 0..Len(accepted')
  <2> DEFINE n == Len(accepted')
             t == Taken'
             s == Settled'
  <2>1. bus' \in early => Taken' > 0
    BY <1>2 DEF Busy
  <2>2. CASE bus' \in early
    <3>1. Settled' = Taken' - 1
      BY <2>2, Zenon DEF Settled, Past
    <3>2. Taken' > 0
      BY <2>1, <2>2
    <3>3. n \in Nat /\ t \in 0..n /\ t > 0 /\ s = t - 1
      BY <1>1, <1>3, <3>1, <3>2, Zenon
    <3> HIDE DEF n, t, s
    <3>4. s \in 0..n
      BY <3>3
    <3> QED BY <3>4 DEF n, s
  <2>3. CASE bus' \notin early
    <3>1. Settled' = Taken' - 0
      BY <2>3, Zenon DEF Settled, Past
    <3>2. n \in Nat /\ t \in 0..n /\ s = t - 0
      BY <1>1, <1>3, <3>1, Zenon
    <3> HIDE DEF n, t, s
    <3>3. s \in 0..n
      BY <3>2
    <3> QED BY <3>3 DEF n, s
  <2> QED BY <2>2, <2>3
<1>7. \/ Settled' = Settled /\ Recorded' = Recorded
      \/ Settled' = Settled + 1 /\ Recorded' = Recorded
      \/ /\ Settled' = Settled + 1 /\ Settled < Len(accepted)
         /\ Recorded' = Append(Recorded, accepted[Settled + 1])
  <2> HIDE DEF Settled
  <2> QED BY <1>4 DEF Delivery!Next, Delivery!dvars, Delivery!Refuse, Delivery!Accept,
                      Delivery!Record, Delivery!GiveUp, Recorded
<1> QED BY <1>5, <1>6, <1>7

LEMMA JsonlStep ==
  ASSUME IInv, IInv', JsonlInOrder, [Next]_vars
  PROVE  JsonlInOrder'
<1>1. /\ Settled \in 0..Len(accepted) /\ Settled' \in 0..Len(accepted')
      /\ \/ Settled' = Settled /\ Recorded' = Recorded
         \/ Settled' = Settled + 1 /\ Recorded' = Recorded
         \/ /\ Settled' = Settled + 1 /\ Settled < Len(accepted)
            /\ Recorded' = Append(Recorded, accepted[Settled + 1])
  BY SettleStep
<1>2. \A k \in DOMAIN accepted : k \in DOMAIN accepted' /\ accepted'[k] = accepted[k]
  BY TakenStep
<1>3. \A k, l \in DOMAIN accepted' : accepted'[k] = accepted'[l] => k = l
  BY DEF IInv, NoneLostOrOvertaken
<1>4. /\ Recorded \in Seq(Event) /\ Recorded' \in Seq(Event)
      /\ DOMAIN Recorded = DOMAIN jsonl /\ DOMAIN Recorded' = DOMAIN jsonl'
      /\ DOMAIN Recorded = 1..Len(Recorded) /\ DOMAIN Recorded' = 1..Len(Recorded')
      /\ DOMAIN accepted = 1..Len(accepted) /\ DOMAIN accepted' = 1..Len(accepted')
      /\ Len(accepted) \in Nat /\ Len(accepted') \in Nat
      /\ Len(Recorded) \in Nat /\ accepted \in Seq(Event)
  <2>1. ASSUME NEW j \in Seq(Line)
        PROVE  [n \in DOMAIN j |-> j[n].ev] \in Seq(Event)
    <3>1. DOMAIN j = 1..Len(j) /\ Len(j) \in Nat /\ \A n \in 1..Len(j) : j[n] \in Line
      <4> HIDE DEF Line
      <4> QED BY <2>1, LenProperties
    <3>2. \A n \in 1..Len(j) : j[n].ev \in Event
      BY <3>1
    <3> QED BY <3>1, <3>2, IsASeq
  <2>2. Recorded \in Seq(Event) /\ Recorded' \in Seq(Event)
    BY <2>1 DEF IInv, TypeOK, Recorded
  <2>3. accepted \in Seq(Event) /\ accepted' \in Seq(Event)
    BY DEF IInv, TypeOK
  <2>4. DOMAIN Recorded = DOMAIN jsonl /\ DOMAIN Recorded' = DOMAIN jsonl'
    BY DEF Recorded
  <2> QED BY <2>2, <2>3, <2>4, LenProperties
<1>5. \A n \in DOMAIN Recorded : \E k \in 1..Settled : accepted[k] = Recorded[n]
  BY DEF JsonlInOrder, Recorded
<1>6. \A i, j \in DOMAIN Recorded : \A k, l \in DOMAIN accepted :
        (i < j /\ accepted[k] = Recorded[i] /\ accepted[l] = Recorded[j]) => k < l
  BY DEF JsonlInOrder, Recorded
<1> HIDE DEF IInv
<1> HIDE DEF Settled, Recorded
<1>a. /\ Settled \in Nat /\ Settled' \in Nat /\ Settled <= Settled'
      /\ Settled <= Len(accepted) /\ Settled' <= Len(accepted')
  <2>1. /\ Settled \in Nat /\ Settled' \in Nat
        /\ Settled <= Len(accepted) /\ Settled' <= Len(accepted')
    <3>1. ASSUME NEW n \in Nat, NEW x \in 0..n PROVE x \in Nat /\ x <= n
      OBVIOUS
    <3> QED BY <1>1, <1>4, <3>1, Zenon
  <2>2. Settled' = Settled \/ Settled' = Settled + 1
    BY <1>1
  <2> QED BY <2>1, <2>2
\* Every line keeps its place among the settled events; a line written in this
\* step gets the place Settled + 1.
<1> DEFINE Place(n, k) == /\ k \in 1..Settled' /\ accepted'[k] = Recorded'[n]
                          /\ n \in 1..Len(Recorded) =>
                               /\ k \in 1..Settled /\ accepted[k] = Recorded[n]
                          /\ n \notin 1..Len(Recorded) =>
                               k = Settled + 1 /\ n = Len(Recorded) + 1
<1>7. \A n \in DOMAIN Recorded' : \E k \in DOMAIN accepted' : Place(n, k)
  <2> SUFFICES ASSUME NEW n \in DOMAIN Recorded'
               PROVE  \E k \in DOMAIN accepted' : Place(n, k)
    OBVIOUS
  <2>1. CASE n \in DOMAIN Recorded /\ Recorded'[n] = Recorded[n]
    <3>1. PICK k \in 1..Settled : accepted[k] = Recorded[n]
      BY <1>5, <2>1
    <3>2. k \in DOMAIN accepted /\ k \in 1..Settled'
      BY <1>a, <1>4
    <3>3. accepted'[k] = Recorded'[n] /\ k \in DOMAIN accepted'
      BY <1>2, <2>1, <3>1, <3>2
    <3> QED BY <1>4, <2>1, <3>1, <3>2, <3>3
  <2>2. CASE /\ Settled' = Settled + 1 /\ Settled < Len(accepted)
             /\ Recorded' = Append(Recorded, accepted[Settled + 1])
    <3>1. Settled + 1 \in DOMAIN accepted /\ Settled + 1 \in 1..Settled'
      BY <1>a, <1>4, <2>2
    <3>2. accepted'[Settled + 1] = accepted[Settled + 1] /\ accepted[Settled + 1] \in Event
          /\ Settled + 1 \in DOMAIN accepted'
      BY <1>2, <1>4, <3>1
    <3>3. /\ Len(Recorded') = Len(Recorded) + 1
          /\ \A i \in 1..Len(Recorded) : Recorded'[i] = Recorded[i]
          /\ Recorded'[Len(Recorded) + 1] = accepted[Settled + 1]
      BY <1>4, <2>2, <3>2, AppendProperties
    <3>4. CASE n \in 1..Len(Recorded)
      BY <1>4, <2>1, <3>3, <3>4
    <3>5. CASE n = Len(Recorded) + 1
      <4>1. n \notin 1..Len(Recorded)
        BY <1>4, <3>5
      <4>2. Place(n, Settled + 1)
        BY <3>1, <3>2, <3>3, <3>5, <4>1
      <4> QED BY <3>2, <4>2
    <3>6. n \in 1..Len(Recorded) \/ n = Len(Recorded) + 1
      BY <1>4, <3>3
    <3> QED BY <3>4, <3>5, <3>6
  <2>3. CASE Recorded' = Recorded
    BY <1>4, <2>1, <2>3
  <2> QED BY <1>1, <2>2, <2>3
<1>8. \A i, j \in DOMAIN Recorded' : \A k, l \in DOMAIN accepted' :
        (i < j /\ accepted'[k] = Recorded'[i] /\ accepted'[l] = Recorded'[j]) => k < l
  <2> SUFFICES ASSUME NEW i \in DOMAIN Recorded', NEW j \in DOMAIN Recorded', i < j,
                      NEW k \in DOMAIN accepted', NEW l \in DOMAIN accepted',
                      accepted'[k] = Recorded'[i], accepted'[l] = Recorded'[j]
               PROVE  k < l
    OBVIOUS
  <2>1. Place(i, k) /\ Place(j, l)
    <3>1. PICK k2 \in DOMAIN accepted' : Place(i, k2)
      BY <1>7
    <3>2. PICK l2 \in DOMAIN accepted' : Place(j, l2)
      BY <1>7
    <3>3. k2 = k /\ l2 = l
      BY <1>3, <3>1, <3>2
    <3> QED BY <3>1, <3>2, <3>3
  <2>2. i \in 1..Len(Recorded)
    BY <1>4, <2>1
  <2>3. CASE j \in 1..Len(Recorded)
    <3>1. /\ k \in 1..Len(accepted) /\ l \in 1..Len(accepted)
          /\ accepted[k] = Recorded[i] /\ accepted[l] = Recorded[j]
      BY <1>a, <1>4, <2>1, <2>2, <2>3
    <3> QED BY <1>4, <1>6, <2>2, <2>3, <3>1
  <2>4. CASE j \notin 1..Len(Recorded)
    BY <1>a, <2>1, <2>2, <2>4
  <2> QED BY <2>3, <2>4
<1>9. \A n \in DOMAIN Recorded' : \E k \in 1..Settled' : accepted'[k] = Recorded'[n]
  BY <1>7
<1>10. \A n \in DOMAIN Recorded' : Recorded'[n] = jsonl'[n].ev
  BY <1>4 DEF Recorded
<1> QED BY <1>4, <1>8, <1>9, <1>10 DEF JsonlInOrder

\* events.jsonl lists events in the order of their acceptance, none twice.
THEOREM JsonlKeepsOrder == Spec => []JsonlInOrder
<1>1. Init => JsonlInOrder
  BY DEF Init, JsonlInOrder
<1>2. IInv /\ IInv' /\ JsonlInOrder /\ [Next]_vars => JsonlInOrder'
  BY JsonlStep
<1> QED
  BY <1>1, <1>2, InductiveInvariant, PTL DEF Spec

-----------------------------------------------------------------------------
(* What the lines carry, and what the screen shows. *)

\* How many of the received events the capture hook has answered for.
Judged == Past({"score", "correlate", "playbook", "count", "capture"})

\* What the stages have added to the event in hand, and the frames on disk: an event
\* has one only when it is past the hook, so that a line's pcap_path stays true.
CaptureInv ==
  /\ Busy /\ bus # "score" => cur.mitre
  /\ bus \in {"score", "correlate", "playbook", "count", "capture"} => ~cur.pcap
  /\ bus \in {"persist", "fanout"} => (cur.pcap <=> cur.ev \in captured)
  /\ \A e \in captured : \E k \in 1..Judged : accepted[k] = e
  /\ \A i \in DOMAIN jsonl : jsonl[i].mitre /\ (jsonl[i].pcap <=> jsonl[i].ev \in captured)

LEMMA CaptureStep ==
  ASSUME IInv, IInv', JsonlInOrder, CaptureInv, [Next]_vars
  PROVE  CaptureInv'
<1> DEFINE Before == {"score", "correlate", "playbook", "count", "capture"}
           Framed == \A e \in captured : \E k \in 1..Judged : accepted[k] = e
           Lines == \A i \in DOMAIN jsonl :
                      jsonl[i].mitre /\ (jsonl[i].pcap <=> jsonl[i].ev \in captured)
<1>1. /\ Taken \in Nat /\ Taken' \in Nat /\ Taken <= Len(accepted)
      /\ DOMAIN accepted = 1..Len(accepted) /\ Len(accepted) \in Nat
      /\ \A k \in DOMAIN accepted : k \in DOMAIN accepted' /\ accepted'[k] = accepted[k]
      /\ Taken' = IF Take THEN Taken + 1 ELSE Taken
      /\ \A k, l \in DOMAIN accepted : accepted[k] = accepted[l] => k = l
      /\ (Busy => Taken > 0 /\ cur.ev = accepted[Taken])
  <2>1. accepted \in Seq(Event) /\ accepted' \in Seq(Event) /\ NoneLostOrOvertaken
    BY Zenon DEF IInv, TypeOK
  <2>2. /\ DOMAIN accepted = 1..Len(accepted) /\ Len(accepted) \in Nat
        /\ Len(accepted') \in Nat
    BY <2>1
  <2>3. Taken \in 0..Len(accepted) /\ Taken' \in 0..Len(accepted')
    BY TakenStep
  <2>4. \A n \in Nat : \A x \in 0..n : x \in Nat /\ x <= n
    OBVIOUS
  <2>5. Taken \in Nat /\ Taken' \in Nat /\ Taken <= Len(accepted)
    BY <2>2, <2>3, <2>4, Zenon
  <2>6. /\ \A k, l \in DOMAIN accepted : accepted[k] = accepted[l] => k = l
        /\ (Busy => Taken > 0 /\ cur.ev = accepted[Taken])
    BY <2>1, Zenon DEF NoneLostOrOvertaken
  <2> HIDE DEF Taken, Busy
  <2> QED BY <2>2, <2>5, <2>6, TakenStep
<1>2. /\ jsonl \in Seq(Line) /\ DOMAIN jsonl = 1..Len(jsonl) /\ Len(jsonl) \in Nat
      /\ cur \in Line \cup {NoLine} /\ (Busy <=> cur # NoLine)
  BY LenProperties DEF IInv, TypeOK
<1>3. \A i \in DOMAIN jsonl : \E k \in 1..Settled : accepted[k] = jsonl[i].ev
  BY DEF JsonlInOrder
<1> HIDE DEF IInv, JsonlInOrder
<1>4. Judged = IF bus \in Before THEN Taken - 1 ELSE Taken
  BY <1>1 DEF Judged, Past
<1>5. Judged' = IF bus' \in Before THEN Taken' - 1 ELSE Taken'
  BY <1>1 DEF Judged, Past
<1>6. bus \in Before \cup {"persist"} => Taken > 0 /\ cur.ev = accepted[Taken] /\ cur \in Line
  BY <1>1, <1>2 DEF Busy
<1>7. Settled = IF bus \in Before \cup {"persist"} THEN Taken - 1 ELSE Taken
  BY <1>1 DEF Settled, Past
<1>8. /\ Busy /\ bus # "score" => cur.mitre
      /\ bus \in Before => ~cur.pcap
      /\ bus \in {"persist", "fanout"} => (cur.pcap <=> cur.ev \in captured)
      /\ Framed /\ Lines
  BY DEF CaptureInv
<1> HIDE DEF Taken, Judged, Settled, Framed, Lines
<1>9. ASSUME Framed', Lines',
             Busy' /\ bus' # "score" => cur'.mitre,
             bus' \in Before => ~cur'.pcap,
             bus' \in {"persist", "fanout"} => (cur'.pcap <=> cur'.ev \in captured')
      PROVE  CaptureInv'
  BY <1>9, Zenon DEF CaptureInv, Framed, Lines
\* Where no frame is written.
<1>10. ASSUME UNCHANGED captured, Judged' >= Judged PROVE Framed'
  <2>1. \A k \in 1..Judged : k \in DOMAIN accepted /\ k \in 1..Judged'
    BY <1>1, <1>4, <1>5, <1>6, <1>10
  <2> QED BY <1>1, <1>8, <1>10, <2>1 DEF Framed
<1>11. ASSUME UNCHANGED <<captured, jsonl>> PROVE Lines'
  BY <1>8, <1>11 DEF Lines
<1>12. ASSUME NEW e \in Event, Emit(e) PROVE CaptureInv'
  <2>1. ~Take /\ UNCHANGED <<bus, cur, captured, jsonl>>
    <3>1. e \in emitted' /\ e \notin emitted
      BY <1>12 DEF Emit
    <3>2. Take => emitted' = emitted
      BY DEF Take
    <3> QED BY <1>12, <3>1, <3>2 DEF Emit
  <2>2. Judged' >= Judged
    BY <1>1, <1>4, <1>5, <2>1
  <2> QED BY <1>8, <1>9, <1>10, <1>11, <2>1, <2>2 DEF Busy
<1>13. CASE Take
  <2>1. /\ bus = "select" /\ bus' = "score" /\ UNCHANGED <<captured, jsonl>> /\ ~cur'.pcap
    BY <1>13 DEF Take
  <2>2. Judged' >= Judged
    BY <1>1, <1>4, <1>5, <1>13, <2>1
  <2> QED BY <1>9, <1>10, <1>11, <2>1, <2>2
<1>14. CASE ~Take /\ Score
  <2>1. /\ bus = "score" /\ bus' = "correlate" /\ UNCHANGED <<captured, jsonl>>
        /\ cur'.mitre /\ cur'.pcap = cur.pcap
    BY <1>6, <1>14 DEF Score
  <2>2. Judged' >= Judged
    BY <1>1, <1>4, <1>5, <1>14, <2>1
  <2> QED BY <1>8, <1>9, <1>10, <1>11, <2>1, <2>2
<1>15. CASE ~Take /\ (Correlate \/ Playbook \/ SinkCount)
  <2>1. /\ bus \in Before \ {"score"} /\ bus' \in Before \ {"score"}
        /\ UNCHANGED <<cur, captured, jsonl>>
    BY <1>15 DEF Correlate, Playbook, SinkCount
  <2>2. Judged' >= Judged
    BY <1>1, <1>4, <1>5, <1>15, <2>1
  <2> QED BY <1>8, <1>9, <1>10, <1>11, <2>1, <2>2 DEF Busy
<1>16. CASE ~Take /\ SinkCapture
  <2>1. /\ bus = "capture" /\ bus' = "persist" /\ UNCHANGED jsonl
        /\ \/ captured' = captured \cup {cur.ev} /\ cur' = [cur EXCEPT !.pcap = TRUE]
           \/ captured' = captured /\ cur' = cur
    BY <1>16 DEF SinkCapture
  <2>2. Taken > 0 /\ cur.ev = accepted[Taken] /\ cur \in Line /\ cur.mitre /\ ~cur.pcap
    BY <1>6, <1>8, <2>1 DEF Busy
  <2>3. Judged = Taken - 1 /\ Judged' = Taken /\ Settled = Taken - 1 /\ Taken \in DOMAIN accepted
    BY <1>1, <1>4, <1>5, <1>7, <1>16, <2>1, <2>2
  <2>4. cur.ev \notin captured /\ \A i \in DOMAIN jsonl : jsonl[i].ev # cur.ev
    <3>1. \A k \in 1..(Taken - 1) : accepted[k] # cur.ev
      BY <1>1, <2>2, <2>3
    <3> QED BY <1>3, <1>8, <2>3, <3>1 DEF Framed
  <2>5. cur'.ev = cur.ev /\ cur'.mitre /\ (cur'.pcap <=> cur'.ev \in captured')
    BY <2>1, <2>2, <2>4
  <2>6. Framed'
    <3> SUFFICES ASSUME NEW e \in captured' PROVE \E k \in 1..Judged' : accepted'[k] = e
      BY DEF Framed
    <3>1. CASE e \in captured
      <4>1. PICK k \in 1..Judged : accepted[k] = e
        BY <1>8, <3>1 DEF Framed
      <4>2. k \in DOMAIN accepted /\ k \in 1..Judged'
        BY <1>1, <2>3, <4>1
      <4> QED BY <1>1, <4>1, <4>2
    <3>2. CASE e = cur.ev
      <4>1. Taken \in 1..Judged' /\ accepted'[Taken] = e
        BY <1>1, <2>2, <2>3, <3>2
      <4> QED BY <4>1
    <3> QED BY <2>1, <3>1, <3>2
  <2>7. Lines'
    BY <1>8, <2>1, <2>4 DEF Lines
  <2> QED BY <1>9, <2>1, <2>5, <2>6, <2>7
<1>17. CASE ~Take /\ SinkPersist
  <2>1. /\ bus = "persist" /\ bus' \in {"fanout", "select"} /\ UNCHANGED captured
        /\ bus' = "fanout" => cur' = cur
        /\ jsonl' = jsonl \/ jsonl' = Append(jsonl, cur)
    BY <1>17 DEF SinkPersist
  <2>2. Judged' >= Judged
    BY <1>1, <1>4, <1>5, <1>17, <2>1
  <2>3. cur \in Line /\ cur.mitre /\ (cur.pcap <=> cur.ev \in captured)
    BY <1>6, <1>8, <2>1 DEF Busy
  <2>4. Lines'
    <3>1. CASE jsonl' = Append(jsonl, cur)
      <4>1. /\ DOMAIN jsonl' = 1..(Len(jsonl) + 1) /\ jsonl'[Len(jsonl) + 1] = cur
            /\ \A i \in 1..Len(jsonl) : jsonl'[i] = jsonl[i]
        BY <1>2, <2>3, <3>1, AppendProperties
      <4>2. \A i \in DOMAIN jsonl' : i \in DOMAIN jsonl \/ i = Len(jsonl) + 1
        BY <1>2, <4>1
      <4> QED BY <1>2, <1>8, <2>1, <2>3, <4>1, <4>2 DEF Lines
    <3> QED BY <1>11, <2>1, <3>1
  <2> QED BY <1>9, <1>10, <2>1, <2>2, <2>3, <2>4 DEF Busy
<1>18. CASE ~Take /\ (SinkFanOut \/ ExitBus)
  <2>1. /\ bus \notin Before /\ bus' \in {"select", "exited"} /\ UNCHANGED <<captured, jsonl>>
    BY <1>18 DEF SinkFanOut, ExitBus
  <2>2. Judged' >= Judged
    BY <1>1, <1>4, <1>5, <1>18, <2>1
  <2> QED BY <1>9, <1>10, <1>11, <2>1, <2>2 DEF Busy
<1>19. CASE ~Take /\ (TuiReceive \/ Cancel \/ UNCHANGED vars)
  <2>1. UNCHANGED <<bus, cur, captured, jsonl>>
    BY <1>19 DEF TuiReceive, Cancel, vars
  <2>2. Judged' >= Judged
    BY <1>1, <1>4, <1>5, <1>19, <2>1
  <2> QED BY <1>8, <1>9, <1>10, <1>11, <2>1, <2>2 DEF Busy
<1> QED
  BY <1>12, <1>13, <1>14, <1>15, <1>16, <1>17, <1>18, <1>19 DEF Next, RunChannel, Process

\* A line of events.jsonl is written once and never mended: it is complete when it is
\* written, and names a capture for good exactly when the frame is on disk
\* (up.go:139-201).
THEOREM LinesAreComplete == Spec => []JsonlIsComplete
<1>1. Init => CaptureInv
  BY DEF Init, CaptureInv, Busy
<1>2. IInv /\ IInv' /\ JsonlInOrder /\ CaptureInv /\ [Next]_vars => CaptureInv'
  BY CaptureStep
<1>3. IInv /\ StagesInStep /\ JsonlInOrder /\ CaptureInv => JsonlIsComplete
  <2> SUFFICES ASSUME IInv, StagesInStep, JsonlInOrder, CaptureInv, NEW i \in DOMAIN jsonl
               PROVE  /\ jsonl[i].mitre
                      /\ \E k \in DOMAIN ingested : ingested[k] = jsonl[i].ev
                      /\ \E k \in DOMAIN ruled : ruled[k] = jsonl[i].ev
                      /\ jsonl[i].pcap <=> jsonl[i].ev \in captured
    BY DEF JsonlIsComplete
  <2>1. PICK k \in 1..Settled : accepted[k] = jsonl[i].ev
    BY DEF JsonlInOrder
  <2>2. k \in DOMAIN ingested /\ k \in DOMAIN ruled
    <3>1. /\ ingested \in Seq(Event) /\ ruled \in Seq(Event) /\ Taken \in Nat
      <4>1. events \in Seq(Event) /\ accepted \in Seq(Event) /\ Len(events) <= Len(accepted)
        BY DEF IInv, TypeOK, NoneLostOrOvertaken
      <4>2. Len(events) \in Nat /\ Len(accepted) \in Nat
        BY <4>1
      <4> QED BY <4>1, <4>2 DEF IInv, TypeOK, Taken
    <3>2. DOMAIN ingested = 1..Len(ingested) /\ DOMAIN ruled = 1..Len(ruled)
      BY <3>1
    <3>3. Settled <= Correlated /\ Settled <= Ruled /\ Settled \in Int
          /\ Correlated \in Int /\ Ruled \in Int
      <4> HIDE DEF Taken
      <4> QED BY <3>1 DEF Settled, Correlated, Ruled, Past
    <3>4. Len(ingested) = Correlated /\ Len(ruled) = Ruled
      BY DEF StagesInStep
    <3> HIDE DEF Settled, Correlated, Ruled, IInv
    <3> QED BY <2>1, <3>2, <3>3, <3>4
  <2>3. ingested[k] = accepted[k] /\ ruled[k] = accepted[k]
    BY <2>2 DEF StagesInStep
  <2> QED BY <2>1, <2>2, <2>3 DEF CaptureInv
<1> QED
  BY <1>1, <1>2, <1>3, InductiveInvariant, StagesKeepStep, JsonlKeepsOrder, PTL DEF Spec

\* How many of the received events the fan-out is done with, and what it has sent.
Offered == Past({"score", "correlate", "playbook", "count", "capture", "persist", "fanout"})
Shown == tuiSeen \o tuiEvents

\* The screen has none of the events the bus still works on, and the event that goes
\* to the screen is that of the last line.
ShownInv ==
  /\ ScreenFollowsJsonl
  /\ \A i \in DOMAIN Shown : \E k \in 1..Offered : accepted[k] = Shown[i]
  /\ bus = "fanout" => jsonl # <<>> /\ jsonl[Len(jsonl)] = cur

LEMMA ShownStep ==
  ASSUME IInv, IInv', JsonlInOrder, ShownInv, [Next]_vars
  PROVE  ShownInv'
<1> DEFINE Late == {"score", "correlate", "playbook", "count", "capture", "persist", "fanout"}
           At(i, k) == jsonl[k].ev = Shown[i]
           OnDisk == \A i \in DOMAIN Shown : \E k \in DOMAIN jsonl : At(i, k)
           Ordered == \A i, j \in DOMAIN Shown : \A k, l \in DOMAIN jsonl :
                        (i < j /\ At(i, k) /\ At(j, l)) => k < l
           Done == \A i \in DOMAIN Shown : \E k \in 1..Offered : accepted[k] = Shown[i]
           LastLine == bus = "fanout" => jsonl # <<>> /\ jsonl[Len(jsonl)] = cur
<1>1. /\ Taken \in Nat /\ Taken' \in Nat /\ Taken <= Len(accepted)
      /\ DOMAIN accepted = 1..Len(accepted) /\ Len(accepted) \in Nat
      /\ \A k \in DOMAIN accepted : k \in DOMAIN accepted' /\ accepted'[k] = accepted[k]
      /\ Taken' = IF Take THEN Taken + 1 ELSE Taken
      /\ \A k, l \in DOMAIN accepted : accepted[k] = accepted[l] => k = l
      /\ (Busy => Taken > 0 /\ cur.ev = accepted[Taken])
  <2>1. accepted \in Seq(Event) /\ accepted' \in Seq(Event) /\ NoneLostOrOvertaken
    BY Zenon DEF IInv, TypeOK
  <2>2. /\ DOMAIN accepted = 1..Len(accepted) /\ Len(accepted) \in Nat
        /\ Len(accepted') \in Nat
    BY <2>1
  <2>3. Taken \in 0..Len(accepted) /\ Taken' \in 0..Len(accepted')
    BY TakenStep
  <2>4. \A n \in Nat : \A x \in 0..n : x \in Nat /\ x <= n
    OBVIOUS
  <2>5. Taken \in Nat /\ Taken' \in Nat /\ Taken <= Len(accepted)
    BY <2>2, <2>3, <2>4, Zenon
  <2>6. /\ \A k, l \in DOMAIN accepted : accepted[k] = accepted[l] => k = l
        /\ (Busy => Taken > 0 /\ cur.ev = accepted[Taken])
    BY <2>1, Zenon DEF NoneLostOrOvertaken
  <2> HIDE DEF Taken, Busy
  <2> QED BY <2>2, <2>5, <2>6, TakenStep
<1>2. /\ jsonl \in Seq(Line) /\ DOMAIN jsonl = 1..Len(jsonl) /\ Len(jsonl) \in Nat
      /\ cur \in Line \cup {NoLine} /\ (Busy <=> cur # NoLine)
      /\ tuiSeen \in Seq(Event) /\ tuiEvents \in Seq(Event)
  BY LenProperties DEF IInv, TypeOK
<1>3. \A k, l \in DOMAIN jsonl : jsonl[k].ev = jsonl[l].ev => k = l
  <2> SUFFICES ASSUME NEW k \in DOMAIN jsonl, NEW l \in DOMAIN jsonl,
                      jsonl[k].ev = jsonl[l].ev, k < l
               PROVE  FALSE
    BY <1>2
  <2>1. PICK n \in 1..Settled : accepted[n] = jsonl[k].ev
    BY DEF JsonlInOrder
  <2>2. Settled \in Nat /\ Settled <= Len(accepted)
    <3>1. Settled \in 0..Len(accepted)
      BY SettleStep
    <3>2. \A m \in Nat : \A x \in 0..m : x \in Nat /\ x <= m
      OBVIOUS
    <3> QED BY <1>1, <3>1, <3>2, Zenon
  <2>3. n \in DOMAIN accepted /\ ~(n < n)
    <3> HIDE DEF Settled
    <3> QED BY <1>1, <2>2
  <2> QED BY <2>1, <2>3 DEF JsonlInOrder
<1> HIDE DEF IInv
<1>4. Offered = IF bus \in Late THEN Taken - 1 ELSE Taken
  BY <1>1 DEF Offered, Past
<1>5. Offered' = IF bus' \in Late THEN Taken' - 1 ELSE Taken'
  BY <1>1 DEF Offered, Past
<1>6. bus \in Late => Taken > 0 /\ cur.ev = accepted[Taken] /\ cur \in Line
  BY <1>1, <1>2 DEF Busy
<1>7. OnDisk /\ Ordered /\ Done /\ LastLine
  BY DEF ShownInv, ScreenFollowsJsonl, Shown
<1>8. Shown \in Seq(Event) /\ DOMAIN Shown = 1..Len(Shown) /\ Len(Shown) \in Nat
  BY <1>2, ConcatProperties DEF Shown
<1>9. ASSUME OnDisk', Ordered', Done', LastLine' PROVE ShownInv'
  BY <1>9 DEF ShownInv, ScreenFollowsJsonl, Shown
<1> HIDE DEF Taken, Offered, Shown
<1>10. bus \in Late => \A i \in DOMAIN Shown : Shown[i] # cur.ev
  <2> SUFFICES ASSUME bus \in Late, NEW i \in DOMAIN Shown PROVE Shown[i] # cur.ev
    OBVIOUS
  <2>1. PICK k \in 1..Offered : accepted[k] = Shown[i]
    BY <1>7
  <2>2. /\ Taken \in DOMAIN accepted /\ cur.ev = accepted[Taken]
        /\ k \in DOMAIN accepted /\ k # Taken
    BY <1>1, <1>4, <1>6
  <2> QED BY <1>1, <2>1, <2>2
\* Where nothing goes to the screen.
<1>11. ASSUME Shown' = Shown, Offered' >= Offered PROVE Done'
  <2>1. \A k \in 1..Offered : k \in DOMAIN accepted /\ k \in 1..Offered'
    BY <1>1, <1>4, <1>5, <1>6, <1>11
  <2> QED BY <1>1, <1>7, <1>11, <2>1
<1>12. ASSUME Shown' = Shown, Offered' >= Offered, UNCHANGED jsonl,
              bus' = "fanout" => bus = "fanout" /\ cur' = cur
       PROVE  ShownInv'
  <2>1. OnDisk' /\ Ordered'
    BY <1>7, <1>12
  <2>2. LastLine'
    BY <1>7, <1>12
  <2> QED BY <1>9, <1>11, <1>12, <2>1, <2>2
<1>13. ASSUME NEW e \in Event, Emit(e) PROVE ShownInv'
  <2>1. ~Take /\ UNCHANGED <<bus, cur, tuiSeen, tuiEvents, jsonl>>
    <3>1. e \in emitted' /\ e \notin emitted
      BY <1>13 DEF Emit
    <3>2. Take => emitted' = emitted
      BY DEF Take
    <3> QED BY <1>13, <3>1, <3>2 DEF Emit
  <2>2. Offered' >= Offered
    BY <1>1, <1>4, <1>5, <2>1
  <2> QED BY <1>12, <2>1, <2>2 DEF Shown
<1>14. CASE Take
  <2>1. /\ bus = "select" /\ bus' = "score" /\ UNCHANGED <<tuiSeen, tuiEvents, jsonl>>
    BY <1>14 DEF Take
  <2>2. Offered' >= Offered
    BY <1>1, <1>4, <1>5, <1>14, <2>1
  <2> QED BY <1>12, <2>1, <2>2 DEF Shown
<1>15. CASE ~Take /\ (Score \/ Correlate \/ Playbook \/ SinkCount \/ SinkCapture)
  <2>1. /\ bus \in Late /\ bus' \in Late \ {"fanout"} /\ UNCHANGED <<tuiSeen, tuiEvents, jsonl>>
    BY <1>15 DEF Score, Correlate, Playbook, SinkCount, SinkCapture
  <2>2. Offered' >= Offered
    BY <1>1, <1>4, <1>5, <1>15, <2>1
  <2> QED BY <1>12, <2>1, <2>2 DEF Shown
<1>16. CASE ~Take /\ SinkPersist
  <2>1. /\ bus = "persist" /\ UNCHANGED <<tuiSeen, tuiEvents>>
        /\ \/ bus' = "select" /\ UNCHANGED jsonl
           \/ bus' = "fanout" /\ jsonl' = Append(jsonl, cur) /\ UNCHANGED cur
    BY <1>16 DEF SinkPersist
  <2>2. Offered' >= Offered
    BY <1>1, <1>4, <1>5, <1>16, <2>1
  <2>3. CASE bus' = "select" /\ UNCHANGED jsonl
    BY <1>12, <2>1, <2>2, <2>3 DEF Shown
  <2>4. CASE bus' = "fanout" /\ jsonl' = Append(jsonl, cur) /\ UNCHANGED cur
    <3>1. /\ DOMAIN jsonl' = 1..(Len(jsonl) + 1) /\ jsonl'[Len(jsonl) + 1] = cur
          /\ Len(jsonl') = Len(jsonl) + 1 /\ jsonl' # <<>>
          /\ \A i \in 1..Len(jsonl) : jsonl'[i] = jsonl[i]
      <4>1. cur \in Line
        BY <1>6, <2>1
      <4>2. /\ DOMAIN jsonl' = 1..(Len(jsonl) + 1) /\ jsonl'[Len(jsonl) + 1] = cur
            /\ Len(jsonl') = Len(jsonl) + 1
            /\ \A i \in 1..Len(jsonl) : jsonl'[i] = jsonl[i]
        BY <1>2, <2>4, <4>1, AppendProperties
      <4>3. Len(jsonl) + 1 \in DOMAIN jsonl' /\ DOMAIN <<>> = {}
        BY <1>2, <4>2
      <4> QED BY <4>2, <4>3, Zenon
    <3>2. \A i \in DOMAIN jsonl' : i \in DOMAIN jsonl \/ i = Len(jsonl) + 1
      BY <1>2, <3>1
    <3>3. Shown' = Shown /\ \A i \in DOMAIN Shown : Shown[i] # cur.ev
      BY <1>10, <2>1 DEF Shown
    <3>4. \A i \in DOMAIN Shown : \A k \in DOMAIN jsonl' :
            At(i, k)' => k \in DOMAIN jsonl /\ At(i, k)
      BY <1>2, <3>1, <3>2, <3>3
    <3>5. \A i \in DOMAIN Shown : \A k \in DOMAIN jsonl :
            k \in DOMAIN jsonl' /\ (At(i, k) => At(i, k)')
      BY <1>2, <3>1, <3>3
    <3>6. OnDisk'
      BY <1>7, <3>3, <3>5
    <3>7. Ordered'
      <4> HIDE DEF At
      <4> QED BY <1>7, <3>3, <3>4
    <3>8. LastLine'
      BY <2>4, <3>1
    <3> QED BY <1>9, <1>11, <2>2, <3>3, <3>6, <3>7, <3>8
  <2> QED BY <2>1, <2>3, <2>4
<1>17. CASE ~Take /\ SinkFanOut
  <2>1. /\ bus = "fanout" /\ bus' = "select" /\ UNCHANGED <<tuiSeen, jsonl>>
        /\ tuiEvents' = tuiEvents \/ tuiEvents' = Append(tuiEvents, cur.ev)
    BY <1>17 DEF SinkFanOut
  <2>2. Offered = Taken - 1 /\ Offered' = Taken /\ Offered' >= Offered
    BY <1>1, <1>4, <1>5, <1>17, <2>1
  <2>3. CASE tuiEvents' = tuiEvents
    BY <1>12, <2>1, <2>2, <2>3 DEF Shown
  <2>4. CASE tuiEvents' = Append(tuiEvents, cur.ev)
    <3>1. cur.ev \in Event /\ cur.ev = accepted[Taken] /\ Taken > 0
      BY <1>6, <2>1
    <3>2. Shown' = Append(Shown, cur.ev)
      BY <1>2, <2>1, <2>4, <3>1 DEF Shown
    <3>3. /\ DOMAIN Shown' = 1..(Len(Shown) + 1) /\ Shown'[Len(Shown) + 1] = cur.ev
          /\ \A i \in 1..Len(Shown) : Shown'[i] = Shown[i]
      BY <1>8, <3>1, <3>2, AppendProperties
    <3>4. \A i \in DOMAIN Shown' : i \in DOMAIN Shown \/ i = Len(Shown) + 1
      BY <1>8, <3>3
    <3>5. Len(jsonl) \in DOMAIN jsonl /\ jsonl[Len(jsonl)].ev = cur.ev
      BY <1>2, <1>7, <2>1
    <3>6. \A i \in DOMAIN Shown : Shown'[i] = Shown[i] /\ Shown[i] # cur.ev
      BY <1>8, <1>10, <2>1, <3>3
    <3>7. OnDisk'
      BY <1>7, <2>1, <3>3, <3>4, <3>5, <3>6
    <3>8. Ordered'
      <4> SUFFICES ASSUME NEW i \in DOMAIN Shown', NEW j \in DOMAIN Shown',
                          NEW k \in DOMAIN jsonl, NEW l \in DOMAIN jsonl, i < j,
                          jsonl[k].ev = Shown'[i], jsonl[l].ev = Shown'[j]
                   PROVE  k < l
        BY <2>1
      <4>1. i \in DOMAIN Shown
        BY <1>8, <3>3, <3>4
      <4>2. CASE j \in DOMAIN Shown
        BY <1>7, <3>6, <4>1, <4>2
      <4>3. CASE j = Len(Shown) + 1
        <5>1. l = Len(jsonl) /\ k # Len(jsonl)
          BY <1>3, <3>3, <3>5, <3>6, <4>1, <4>3
        <5> QED BY <1>2, <5>1
      <4> QED BY <3>4, <4>2, <4>3
    <3>9. Done'
      <4> SUFFICES ASSUME NEW i \in DOMAIN Shown'
                   PROVE  \E k \in 1..Offered' : accepted'[k] = Shown'[i]
        OBVIOUS
      <4>1. CASE i \in DOMAIN Shown
        <5>1. PICK k \in 1..Offered : accepted[k] = Shown[i]
          BY <1>7, <4>1
        <5>2. k \in DOMAIN accepted /\ k \in 1..Offered'
          BY <1>1, <2>2
        <5> QED BY <1>1, <3>6, <4>1, <5>1, <5>2
      <4>2. CASE i = Len(Shown) + 1
        <5>1. Taken \in 1..Offered' /\ Taken \in DOMAIN accepted
          BY <1>1, <2>2, <3>1
        <5> QED BY <1>1, <3>1, <3>3, <4>2, <5>1
      <4> QED BY <3>4, <4>1, <4>2
    <3> QED BY <1>9, <2>1, <3>7, <3>8, <3>9
  <2> QED BY <2>1, <2>3, <2>4
<1>18. CASE ~Take /\ TuiReceive
  <2>1. UNCHANGED <<bus, cur, jsonl>>
    BY <1>18 DEF TuiReceive
  <2>2. Offered' >= Offered
    BY <1>1, <1>4, <1>5, <1>18, <2>1
  <2>3. Shown' = Shown
    <3>1. ASSUME NEW s \in Seq(Event), NEW t \in Seq(Event), t # <<>>
          PROVE  Append(s, Head(t)) \o Tail(t) = s \o t
      <4>1. t = <<Head(t)>> \o Tail(t) /\ Head(t) \in Event /\ Tail(t) \in Seq(Event)
        BY <3>1
      <4>2. Append(s, Head(t)) = s \o <<Head(t)>>
        BY <3>1, <4>1
      <4> QED BY <3>1, <4>1, <4>2, ConcatAssociative
    <3> QED BY <1>2, <1>18, <3>1 DEF TuiReceive, Shown
  <2> QED BY <1>12, <2>1, <2>2, <2>3
<1>19. CASE ~Take /\ ExitBus
  <2>1. bus = "select" /\ bus' = "exited" /\ UNCHANGED <<tuiSeen, tuiEvents, jsonl>>
    BY <1>19 DEF ExitBus
  <2>2. Offered' >= Offered
    BY <1>1, <1>4, <1>5, <1>19, <2>1
  <2> QED BY <1>12, <2>1, <2>2 DEF Shown
<1>20. CASE ~Take /\ (Cancel \/ UNCHANGED vars)
  <2>1. UNCHANGED <<bus, cur, jsonl, tuiSeen, tuiEvents>>
    BY <1>20 DEF Cancel, vars
  <2>2. Offered' >= Offered
    BY <1>1, <1>4, <1>5, <1>20, <2>1
  <2> QED BY <1>12, <2>1, <2>2 DEF Shown
<1> QED
  BY <1>13, <1>14, <1>15, <1>16, <1>17, <1>18, <1>19, <1>20
     DEF Next, RunChannel, Process

\* The screen, and the channel to it, hold events that are on disk, in the order of
\* their lines, whatever the fan-out drops (up.go:199-207).
THEOREM ScreenShowsJsonl == Spec => []ScreenFollowsJsonl
<1>1. Init => ShownInv
  <2> SUFFICES ASSUME Init PROVE ShownInv
    OBVIOUS
  <2>1. tuiSeen = <<>> /\ tuiEvents = <<>> /\ bus = "select"
    BY DEF Init
  <2>2. DOMAIN (tuiSeen \o tuiEvents) = {}
    BY <2>1
  <2> QED BY <2>1, <2>2 DEF ShownInv, ScreenFollowsJsonl, Shown
<1>2. IInv /\ IInv' /\ JsonlInOrder /\ ShownInv /\ [Next]_vars => ShownInv'
  BY ShownStep
<1>3. ShownInv => ScreenFollowsJsonl
  BY DEF ShownInv
<1> QED
  BY <1>1, <1>2, <1>3, InductiveInvariant, JsonlKeepsOrder, PTL DEF Spec
=============================================================================
