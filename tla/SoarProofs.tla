----------------------------- MODULE SoarProofs -----------------------------
(***************************************************************************)
(* Proofs about Soar for any playbook, any addresses and events, dry run   *)
(* or live, any format of the firewall's commands.                         *)
(***************************************************************************)
EXTENDS Soar, SequenceTheorems, FiniteSetTheorems, TLAPS

Evaluation == [rule : DOMAIN Rules, ev : Events, time : Nat, fired : BOOLEAN]

Typed == TypeOK /\ evals \in Seq(Evaluation)

\* No event is evaluated at an earlier time than this.
Latest == IF bus = Idle THEN now ELSE bus.time

\* Evaluation n noted its time under the name and the address.
NotedUnder(es, name, ip, n) ==
  /\ n \in DOMAIN es
  /\ Limited(Rules[es[n].rule]) /\ Matches(Rules[es[n].rule], es[n].ev)
  /\ Rules[es[n].rule].name = name /\ es[n].ev.ip = ip

\* And no evaluation since has forgotten it.
StillNoted(es, name, ip, n) ==
  /\ NotedUnder(es, name, ip, n)
  /\ \A k \in DOMAIN es :
       k > n /\ NotedUnder(es, name, ip, k) =>
         es[k].time - es[n].time < Rules[es[k].rule].window

EvalsInOrder ==
  /\ \A n \in DOMAIN evals : evals[n].time <= Latest
  /\ \A n, m \in DOMAIN evals : n <= m => evals[n].time <= evals[m].time

\* The engine's memory is this much of what happened.
NotesAreStillNoted ==
  \A name \in Names : \A ip \in IP : \A n :
    /\ n \in DOMAIN history[name][ip] <=> StillNoted(evals, name, ip, n)
    /\ n \in DOMAIN history[name][ip] => history[name][ip][n] = evals[n].time

-----------------------------------------------------------------------------
\* The types, and with them: an evaluation's rule, event and time are what they seem.
LEMMA Typing == Spec => []Typed
<1>0. /\ Len(Rules) \in Nat /\ DOMAIN Rules = 1..Len(Rules)
      /\ \A r \in DOMAIN Rules : Rules[r] \in Rule /\ Len(Rules[r].then) \in Nat
  <2>1. Len(Rules) \in Nat /\ DOMAIN Rules = 1..Len(Rules)
        /\ \A r \in DOMAIN Rules : Rules[r] \in Rule
    BY SoarAssumption, LenProperties
  <2>2. ASSUME NEW r \in DOMAIN Rules PROVE Len(Rules[r].then) \in Nat
    <3>1. Rules[r].then \in Seq({"block_ip", "alert", "tag"})
      BY <2>1 DEF Rule
    <3> QED BY <3>1, LenProperties
  <2> QED BY <2>1, <2>2
<1>1. Init => Typed
  <2> SUFFICES ASSUME Init PROVE Typed
    OBVIOUS
  <2> USE DEF Init
  <2>1. BusOK /\ CallsOK
    BY DEF BusOK, CallsOK, Callers
  <2>2. history \in [Names -> [IP -> Notes]]
    <3>1. <<>> \in [{} -> 0..now]
      OBVIOUS
    <3>2. <<>> \in Notes
      BY <3>1 DEF Notes
    <3> QED BY <3>2
  <2> QED BY <2>1, <2>2, SoarAssumption DEF Typed, TypeOK
<1>2. ASSUME Typed, [Next]_vars PROVE Typed'
  <2> USE DEF Typed
  <2>0. /\ now \in Nat /\ now \in 0..MaxTime /\ BusOK /\ CallsOK
        /\ history \in [Names -> [IP -> Notes]]
        /\ blockedIPs \subseteq IP
        /\ firewall \in [IP -> Nat] /\ posted \in Nat
        /\ last \in Seq([ip : IP, applied : BOOLEAN])
        /\ presses \in 0..MaxPresses
    BY <1>2, SoarAssumption DEF TypeOK
  \* What is at work on an event has one.
  <2>1. ASSUME bus # Idle
        PROVE  /\ bus.ev \in Events /\ bus.ev.ip \in IP /\ bus.time \in 0..now
               /\ bus.rule \in 1..(Len(Rules) + 1) /\ bus.act \in Nat \ {0}
               /\ bus.at \in {"rule", "act"}
               /\ bus = [at |-> bus.at, ev |-> bus.ev, time |-> bus.time, rule |-> bus.rule,
                         act |-> bus.act]
    BY <2>0, <2>1 DEF BusOK, Events
  <2>2. \A x : x.at = "rule" \/ x.at = "act" => x # Idle
    BY DEF Idle
  \* BlockIP begins.
  <2>3. ASSUME NEW p \in Callers, NEW ip \in IP, Begin(p, ip), p = "bus" => bus'.at = "act",
               bus.at = "act" => bus'.at = "act", UNCHANGED call \/ UNCHANGED last
        PROVE  CallsOK' /\ last' \in Seq([ip : IP, applied : BOOLEAN])
    <3>1. CASE Live
      <4>1. call' = [call EXCEPT ![p] = [stage |-> "exec", ip |-> ip]] /\ last' = last
        BY <2>3, <3>1 DEF Begin
      <4> QED BY <2>0, <2>3, <3>1, <4>1 DEF CallsOK, Callers, NoCall
    <3>2. CASE ~Live
      <4>1. last' = Append(last, [ip |-> ip, applied |-> FALSE]) /\ call' = call
        BY <2>3, <3>2 DEF Begin
      <4> QED BY <2>0, <2>3, <4>1, AppendProperties DEF CallsOK
    <3> QED BY <3>1, <3>2
  <2>4. CASE Tick
    <3>1. UNCHANGED <<bus, call, history, blockedIPs, firewall, posted, last, evals, presses>>
          /\ now' = now + 1 /\ now < MaxTime
      BY <2>4 DEF Tick, applier
    <3>2. now' \in 0..MaxTime /\ 0..now \subseteq 0..now'
      BY <2>0, <3>1, SoarAssumption
    <3>3. BusOK'
      BY <2>0, <3>1, <3>2 DEF BusOK
    <3>4. history' \in [Names -> [IP -> Notes']]
      <4>1. Notes \subseteq Notes'
        <5> SUFFICES ASSUME NEW D \in SUBSET DOMAIN evals, NEW f \in [D -> 0..now]
                     PROVE  f \in Notes'
          BY DEF Notes
        <5>1. f \in [D -> 0..now'] /\ D \in SUBSET DOMAIN evals'
          BY <3>1, <3>2
        <5> QED BY <5>1 DEF Notes
      <4> HIDE DEF Notes
      <4> QED BY <2>0, <3>1, <4>1
    <3> QED BY <1>2, <2>0, <3>1, <3>2, <3>3, <3>4 DEF TypeOK, CallsOK
  <2>5. ASSUME NEW e \in Events, Process(e) PROVE Typed'
    <3>1. UNCHANGED <<now, call, history, blockedIPs, firewall, posted, last, evals, presses>>
          /\ bus = Idle /\ bus' = [at |-> "rule", ev |-> e, time |-> now, rule |-> 1, act |-> 1]
      BY <2>5 DEF Process, applier
    <3>2. BusOK' /\ bus' # Idle
      BY <1>0, <2>0, <2>2, <3>1 DEF BusOK
    <3>3. call["bus"] = NoCall
      BY <2>0, <3>1 DEF CallsOK, Idle
    <3> QED BY <1>2, <2>0, <3>1, <3>2, <3>3 DEF TypeOK, CallsOK, Notes
  <2>6. CASE EvalRule
    <3> DEFINE r == Rules[bus.rule]
               gated == Limited(r)
               kept == Recent(history[r.name][bus.ev.ip], bus.time, r.window)
               recent == Noted(kept, Len(evals) + 1, bus.time)
               matches == Matches(r, bus.ev)
               fires == matches /\ (gated => Cardinality(DOMAIN recent) >= r.threshold)
               v == [rule |-> bus.rule, ev |-> bus.ev, time |-> bus.time, fired |-> fires]
    <3>1. /\ UNCHANGED <<now, call, blockedIPs, firewall, posted, last, presses>>
          /\ bus.at = "rule" /\ bus.rule <= Len(Rules)
          /\ history' = IF matches /\ gated
                          THEN [history EXCEPT ![r.name][bus.ev.ip] = recent]
                          ELSE history
          /\ evals' = Append(evals, v)
          /\ bus' = IF fires THEN [bus EXCEPT !.at = "act", !.act = 1]
                             ELSE [bus EXCEPT !.rule = @ + 1]
      BY <2>6 DEF EvalRule, applier
    <3>2. bus # Idle /\ bus.rule \in DOMAIN Rules /\ bus.ev.ip \in IP /\ bus.time \in 0..now
          /\ r.name \in Names
      <4>1. bus # Idle
        BY <2>2, <3>1
      <4>2. bus.rule \in DOMAIN Rules
        BY <1>0, <2>1, <3>1, <4>1
      <4> QED BY <2>1, <4>1, <4>2 DEF Names
    <3>3. fires \in BOOLEAN
      BY DEF Matches
    <3>4. v \in Evaluation
      <4> HIDE DEF fires
      <4> QED BY <2>0, <2>1, <3>2, <3>3 DEF Evaluation
    <3> HIDE DEF v
    <3>5. /\ evals' \in Seq(Evaluation) /\ Len(evals') = Len(evals) + 1 /\ Len(evals) \in Nat
          /\ DOMAIN evals' = 1..(Len(evals) + 1) /\ DOMAIN evals = 1..Len(evals)
      BY <1>2, <3>1, <3>4, AppendProperties, LenProperties
    <3>6. history' \in [Names -> [IP -> Notes']]
      <4>1. Notes \subseteq Notes'
        <5>1. DOMAIN evals \subseteq DOMAIN evals' /\ now' = now
          BY <3>1, <3>5
        <5> QED BY <5>1 DEF Notes
      <4>2. recent \in Notes'
        <5>1. history[r.name][bus.ev.ip] \in Notes
          BY <2>0, <3>2
        <5>2. PICK D \in SUBSET DOMAIN evals : history[r.name][bus.ev.ip] \in [D -> 0..now]
          BY <5>1 DEF Notes
        <5>3. PICK K \in SUBSET D : kept \in [K -> 0..now]
          <6> DEFINE K == {n \in D : history[r.name][bus.ev.ip][n] > bus.time - r.window}
          <6>1. kept \in [K -> 0..now]
            BY <5>2 DEF Recent, Restrict
          <6> QED BY <6>1
        <5> HIDE DEF kept
        <5>4. recent \in [K \cup {Len(evals) + 1} -> 0..now]
          BY <3>2, <5>3 DEF Noted
        <5>5. K \cup {Len(evals) + 1} \in SUBSET DOMAIN evals'
          BY <3>5, <5>3
        <5> HIDE DEF recent
        <5> QED BY <3>1, <5>4, <5>5 DEF Notes
      <4> HIDE DEF recent, matches, gated, Notes, r
      <4>3. history \in [Names -> [IP -> Notes']]
        BY <2>0, <4>1
      <4> QED BY <3>1, <3>2, <4>2, <4>3
    <3> HIDE DEF fires
    <3>7. BusOK'
      <4>1. CASE fires
        <5>1. bus' = [at |-> "act", ev |-> bus.ev, time |-> bus.time, rule |-> bus.rule, act |-> 1]
          BY <2>1, <3>1, <3>2, <4>1
        <5>2. 1 <= 1 + Len(Rules[bus.rule].then)
          BY <1>0, <3>2
        <5> QED BY <2>0, <2>1, <3>1, <3>2, <5>1, <5>2 DEF BusOK
      <4>2. CASE ~fires
        <5>1. bus' = [at |-> "rule", ev |-> bus.ev, time |-> bus.time, rule |-> bus.rule + 1,
                      act |-> bus.act]
          BY <2>1, <3>1, <3>2, <4>2
        <5>2. bus.rule + 1 \in 1..(Len(Rules) + 1)
          BY <1>0, <3>2
        <5>3. now' = now /\ bus.ev \in Events /\ bus.time \in 0..now /\ bus.act \in Nat \ {0}
          BY <2>1, <3>1, <3>2
        <5> QED BY <5>1, <5>2, <5>3 DEF BusOK
      <4> QED BY <4>1, <4>2
    <3>8. call["bus"] = NoCall
      BY <2>0, <3>1 DEF CallsOK
    <3> HIDE DEF matches, gated, recent, r
    <3> QED BY <2>0, <3>1, <3>5, <3>6, <3>7, <3>8 DEF TypeOK, CallsOK
  <2>7. CASE ProcessReturns
    <3>1. UNCHANGED <<now, call, history, blockedIPs, firewall, posted, last, evals, presses>>
          /\ bus' = Idle /\ bus.at = "rule"
      BY <2>7 DEF ProcessReturns, applier
    <3>2. call["bus"] = NoCall
      BY <2>0, <3>1 DEF CallsOK
    <3> QED BY <1>2, <2>0, <3>1, <3>2 DEF TypeOK, CallsOK, BusOK, Notes
  <2>8. CASE Act
    <3> DEFINE acts == Rules[bus.rule].then
    <3>1. UNCHANGED <<now, history, firewall, posted, evals, presses>> /\ bus.at = "act"
      BY <2>8 DEF Act
    <3>2. /\ bus # Idle /\ bus.rule \in DOMAIN Rules /\ bus.act <= 1 + Len(acts)
          /\ bus.ev.ip \in IP
      <4>1. bus # Idle
        BY <2>2, <3>1
      <4> QED BY <1>0, <2>0, <2>1, <3>1, <4>1 DEF BusOK
    <3>3. CASE bus.act > Len(acts)
      <4>1. bus' = [bus EXCEPT !.at = "rule", !.rule = @ + 1] /\ UNCHANGED <<call, last, blockedIPs>>
        BY <2>8, <3>3 DEF Act
      <4>2. BusOK' /\ call["bus"] = NoCall
        <5>1. bus' = [at |-> "rule", ev |-> bus.ev, time |-> bus.time, rule |-> bus.rule + 1,
                      act |-> bus.act]
          BY <2>1, <3>2, <4>1
        <5>2. bus.rule + 1 \in 1..(Len(Rules) + 1)
          BY <1>0, <3>2
        <5>3. BusOK'
          BY <2>0, <2>1, <3>1, <3>2, <5>1, <5>2 DEF BusOK
        <5> QED BY <2>8, <5>3 DEF Act
      <4> QED BY <1>2, <2>0, <3>1, <4>1, <4>2 DEF TypeOK, CallsOK, Notes
    <3>4. CASE ~(bus.act > Len(acts))
      <4>1. bus' = [bus EXCEPT !.act = @ + 1]
        BY <2>8, <3>4 DEF Act
      <4>2. BusOK' /\ bus'.at = "act"
        <5>1. bus'.at = "act"
          BY <2>1, <3>1, <3>2, <4>1
        <5>2. BusOK'
          <6>1. Len(acts) \in Nat
            BY <1>0, <3>2
          <6> HIDE DEF acts
          <6>2. bus.act + 1 \in Nat \ {0} /\ bus.act + 1 <= 1 + Len(acts)
            BY <2>1, <3>2, <3>4, <6>1
          <6> QED BY <2>0, <2>1, <3>1, <3>2, <4>1, <6>2 DEF BusOK, acts
        <5> QED BY <5>1, <5>2
      <4>3. CallsOK' /\ last' \in Seq([ip : IP, applied : BOOLEAN]) /\ blockedIPs' \subseteq IP
        <5>1. CASE acts[bus.act] = "block_ip"
          <6>1. blockedIPs' = blockedIPs \cup {bus.ev.ip} /\ Begin("bus", bus.ev.ip)
            BY <2>8, <3>4, <5>1 DEF Act
          <6>2. CallsOK' /\ last' \in Seq([ip : IP, applied : BOOLEAN])
            BY <2>3, <3>2, <4>2, <6>1 DEF Callers, Begin
          <6> QED BY <2>0, <3>2, <6>1, <6>2
        <5>2. CASE acts[bus.act] # "block_ip"
          <6>1. UNCHANGED <<call, last, blockedIPs>>
            BY <2>8, <3>4, <5>2 DEF Act
          <6> QED BY <2>0, <4>2, <6>1 DEF CallsOK
        <5> QED BY <5>1, <5>2
      <4> QED BY <1>2, <2>0, <3>1, <4>2, <4>3 DEF TypeOK, Notes
    <3> QED BY <3>3, <3>4
  <2>9. ASSUME NEW ip \in IP, Press(ip) PROVE Typed'
    <3>1. UNCHANGED <<now, bus, history, blockedIPs, firewall, posted, evals>>
          /\ presses' \in 0..MaxPresses /\ Begin("operator", ip)
      BY <2>0, <2>9, SoarAssumption DEF Press
    <3>2. CallsOK' /\ last' \in Seq([ip : IP, applied : BOOLEAN])
      BY <2>3, <3>1 DEF Callers, Begin
    <3>3. BusOK'
      BY <2>0, <3>1 DEF BusOK
    <3> QED BY <1>2, <2>0, <3>1, <3>2, <3>3 DEF TypeOK, Notes
  <2>10. ASSUME NEW p \in Callers, Exec(p) PROVE Typed'
    <3>1. UNCHANGED <<now, bus, history, blockedIPs, posted, last, evals, presses>>
          /\ call[p].stage = "exec"
      BY <2>10 DEF Exec
    <3>2. call[p] # NoCall /\ call[p].ip \in IP
      BY <2>0, <3>1 DEF CallsOK, NoCall
    <3>3. PICK stage \in {"applied", "failed"} : call' = [call EXCEPT ![p].stage = stage]
      BY <2>10 DEF Exec
    <3>4. CallsOK'
      <4>1. [call[p] EXCEPT !.stage = stage] \in [stage : {"exec", "applied", "failed"}, ip : IP]
        BY <2>0, <3>2 DEF CallsOK
      <4> QED BY <2>0, <3>1, <3>2, <3>3, <4>1 DEF CallsOK
    <3>5. firewall' \in [IP -> Nat]
      BY <2>0, <2>10, <3>2 DEF Exec
    <3>6. BusOK'
      BY <2>0, <3>1 DEF BusOK
    <3> QED BY <1>2, <2>0, <3>1, <3>4, <3>5, <3>6 DEF TypeOK, Notes
  <2>11. ASSUME NEW p \in Callers, Finish(p) PROVE Typed'
    <3>1. UNCHANGED <<now, bus, history, blockedIPs, firewall, evals, presses>>
          /\ call' = [call EXCEPT ![p] = NoCall] /\ call[p].stage \in {"applied", "failed"}
          /\ last' = Append(last, [ip |-> call[p].ip, applied |-> call[p].stage = "applied"])
          /\ posted' \in {posted, posted + 1}
      BY <2>11 DEF Finish
    <3>2. call[p].ip \in IP
      BY <2>0, <3>1 DEF CallsOK, NoCall
    <3>3. last' \in Seq([ip : IP, applied : BOOLEAN])
      BY <2>0, <3>1, <3>2, AppendProperties
    <3>4. CallsOK' /\ BusOK'
      BY <2>0, <3>1 DEF CallsOK, BusOK
    <3> QED BY <1>2, <2>0, <3>1, <3>3, <3>4 DEF TypeOK, Notes
  <2>12. CASE UNCHANGED vars
    BY <1>2, <2>0, <2>12 DEF vars, TypeOK, CallsOK, BusOK, Notes
  <2> QED BY <1>2, <2>4, <2>5, <2>6, <2>7, <2>8, <2>9, <2>10, <2>11, <2>12
          DEF Next, Bus, BlockIP, Callers
<1> QED BY <1>1, <1>2, PTL DEF Spec

\* Above all, Process does not return, and takes no other event, while its call of
\* BlockIP is under way.
THEOREM TypeCorrect == Spec => []TypeOK
<1>1. Typed => TypeOK
  BY DEF Typed
<1> QED BY <1>1, Typing, PTL
-----------------------------------------------------------------------------
\* All the rules of the name of rule r that note anything have its window.
OneWindow(r) ==
  \A q \in DOMAIN Rules : Rules[q].name = r.name /\ Limited(Rules[q]) => Rules[q].window = r.window

\* What FiresExactlyInWindow says of evaluation i.
FiredRight(i) ==
  LET r == Rules[evals[i].rule]
  IN  /\ evals[i].fired <=> /\ Matches(r, evals[i].ev)
                            /\ Limited(r) => Cardinality(InWindows(i)) >= r.threshold
      /\ Matches(r, evals[i].ev) /\ Limited(r) /\ OneWindow(r) =>
           InWindows(i) = {j \in 1..i : NotedAlike(j, i)
                                        /\ evals[i].time - evals[j].time < r.window}

\* A rate-limited rule fires when threshold of the address's matches are in its window,
\* and only then.  Rules may share a name, and then they share what they note: the
\* engine's memory under a name and an address is at every moment the matches that were
\* in the window of each one noted after them.  Where the rules of a name have one
\* window, these are the matches of the last window seconds, since times are in order.
THEOREM FiresInWindow == Spec => []FiresExactlyInWindow
<1> DEFINE W == EvalsInOrder /\ NotesAreStillNoted /\ FiresExactlyInWindow
<1>0. \A r \in DOMAIN Rules : Rules[r] \in Rule
  BY SoarAssumption, LenProperties
<1>1. Init => W
  <2> SUFFICES ASSUME Init PROVE W
    OBVIOUS
  <2>1. evals = <<>> /\ \A name \in Names, ip \in IP : history[name][ip] = <<>>
    BY DEF Init
  <2> QED BY <2>1 DEF EvalsInOrder, NotesAreStillNoted, StillNoted, NotedUnder, FiresExactlyInWindow
<1>2. ASSUME Typed, Typed', W, [Next]_vars PROVE W'
  <2>0. /\ evals \in Seq(Evaluation) /\ Len(evals) \in Nat /\ DOMAIN evals = 1..Len(evals)
        /\ \A n \in DOMAIN evals : evals[n] \in Evaluation /\ evals[n].time \in Nat
        /\ history \in [Names -> [IP -> Notes]]
        /\ now \in Nat /\ now' \in Nat /\ Latest \in Nat /\ Latest' \in Nat
    <3>1. evals \in Seq(Evaluation) /\ history \in [Names -> [IP -> Notes]]
          /\ now \in 0..MaxTime /\ now' \in 0..MaxTime /\ BusOK /\ BusOK'
      BY <1>2 DEF Typed, TypeOK
    <3>2. Len(evals) \in Nat /\ DOMAIN evals = 1..Len(evals)
          /\ \A n \in DOMAIN evals : evals[n] \in Evaluation
      BY <3>1, LenProperties
    <3>3. \A n \in DOMAIN evals : evals[n].time \in Nat
      BY <3>2 DEF Evaluation
    <3>4. now \in Nat /\ now' \in Nat
      BY <3>1, SoarAssumption
    <3>5. Latest \in Nat
      BY <3>1, <3>4 DEF Latest, BusOK
    <3>6. Latest' \in Nat
      BY <3>1, <3>4 DEF Latest, BusOK
    <3> QED BY <3>1, <3>2, <3>3, <3>4, <3>5, <3>6
  \* Time passes, and no rule is evaluated.
  <2>1. ASSUME UNCHANGED <<evals, history>>, Latest <= Latest' PROVE W'
    <3>1. EvalsInOrder'
      BY <1>2, <2>0, <2>1 DEF EvalsInOrder
    <3>2. NotesAreStillNoted'
      BY <1>2, <2>1 DEF NotesAreStillNoted
    <3>3. FiresExactlyInWindow'
      <4>1. \A i, j : NotedAlike(j, i)' <=> NotedAlike(j, i)
        BY <2>1 DEF NotedAlike
      <4>2. \A i : InWindows(i)' = InWindows(i)
        BY <2>1, <4>1 DEF InWindows
      <4> QED BY <1>2, <2>1, <4>1, <4>2 DEF FiresExactlyInWindow
    <3> QED BY <3>1, <3>2, <3>3
  <2>2. CASE EvalRule
    <3> DEFINE b == bus.rule
               a == bus.ev.ip
               r == Rules[b]
               n0 == Len(evals) + 1
               times == history[r.name][a]
               kept == Recent(times, bus.time, r.window)
               recent == Noted(kept, n0, bus.time)
               matches == Matches(r, bus.ev)
               notes == matches /\ Limited(r)
               fires == matches /\ (Limited(r) => Cardinality(DOMAIN recent) >= r.threshold)
               v == [rule |-> b, ev |-> bus.ev, time |-> bus.time, fired |-> fires]
    <3>1. /\ bus.at = "rule" /\ bus.rule <= Len(Rules)
          /\ history' = IF notes THEN [history EXCEPT ![r.name][a] = recent] ELSE history
          /\ evals' = Append(evals, v)
          /\ bus' = IF fires THEN [bus EXCEPT !.at = "act", !.act = 1]
                             ELSE [bus EXCEPT !.rule = @ + 1]
      BY <2>2 DEF EvalRule
    <3>2. /\ bus # Idle /\ b \in DOMAIN Rules /\ a \in IP /\ bus.time \in Nat
          /\ bus.ev \in Events /\ r \in Rule /\ r.window \in Nat /\ r.name \in Names
          /\ bus' # Idle /\ bus'.time = bus.time
      <4>1. bus # Idle
        BY <3>1 DEF Idle
      <4>2. BusOK /\ now \in 0..MaxTime
        BY <1>2 DEF Typed, TypeOK
      <4>3. /\ b \in 1..(Len(Rules) + 1) /\ bus.ev \in Events /\ bus.time \in 0..now
            /\ bus = [at |-> bus.at, ev |-> bus.ev, time |-> bus.time, rule |-> bus.rule,
                      act |-> bus.act]
        BY <4>1, <4>2 DEF BusOK
      <4>4. b \in DOMAIN Rules
        BY <3>1, <4>3, SoarAssumption, LenProperties
      <4>5. a \in IP /\ bus.time \in Nat
        BY <2>0, <4>3 DEF Events
      <4>6. r \in Rule /\ r.window \in Nat /\ r.name \in Names
        BY <1>0, <4>4 DEF Rule, Names
      <4> HIDE DEF fires
      <4>7. bus'.time = bus.time /\ bus'.at \in {"act", "rule"}
        BY <3>1, <4>3
      <4>8. bus' # Idle
        BY <4>7 DEF Idle
      <4> QED BY <4>1, <4>3, <4>4, <4>5, <4>6, <4>7, <4>8
    <3>3. Latest = bus.time /\ Latest' = bus.time
      BY <3>2 DEF Latest
    <3> HIDE DEF fires, recent, notes, matches, v
    <3>4. /\ DOMAIN evals' = 1..n0 /\ evals'[n0] = v
          /\ \A n \in DOMAIN evals : n \in DOMAIN evals' /\ evals'[n] = evals[n] /\ n < n0
          /\ \A n \in DOMAIN evals' : n \in DOMAIN evals \/ n = n0
          /\ n0 \notin DOMAIN evals /\ n0 \in DOMAIN evals'
      <4>1. evals' = Append(evals, v) /\ v \in Evaluation
        <5>1. fires \in BOOLEAN
          BY DEF fires, matches, Matches
        <5> QED BY <3>1, <3>2, <5>1 DEF v, Evaluation
      <4>2. /\ evals' \in Seq(Evaluation) /\ Len(evals') = n0 /\ evals'[n0] = v
            /\ \A n \in 1..Len(evals) : evals'[n] = evals[n]
        BY <2>0, <4>1, AppendProperties
      <4>3. DOMAIN evals' = 1..n0
        BY <4>2, LenProperties
      <4> QED BY <2>0, <4>2, <4>3
    <3>5. v.rule = b /\ v.ev = bus.ev /\ v.time = bus.time /\ v.fired = fires
      BY DEF v
    \* What was noted so far is the same, and the new one is of this name and address.
    <3>6. \A name \in Names : \A ip \in IP :
            /\ \A n \in DOMAIN evals : NotedUnder(evals', name, ip, n) <=> NotedUnder(evals, name, ip, n)
            /\ NotedUnder(evals', name, ip, n0) <=> name = r.name /\ ip = a /\ notes
      BY <3>4, <3>5 DEF NotedUnder, notes, matches
    <3>7. /\ DOMAIN times \subseteq DOMAIN evals
          /\ DOMAIN kept = {n \in DOMAIN times : times[n] > bus.time - r.window}
          /\ DOMAIN recent = DOMAIN kept \cup {n0} /\ recent[n0] = bus.time
          /\ \A n \in DOMAIN kept : recent[n] = times[n]
      <4>1. times \in Notes
        BY <2>0, <3>2
      <4>2. DOMAIN times \subseteq DOMAIN evals
        BY <4>1 DEF Notes
      <4>3. DOMAIN kept = {n \in DOMAIN times : times[n] > bus.time - r.window}
            /\ \A n \in DOMAIN kept : kept[n] = times[n]
        BY DEF Recent, Restrict
      <4>4. n0 \notin DOMAIN kept
        BY <3>4, <4>2, <4>3
      <4> HIDE DEF kept
      <4>5. DOMAIN recent = DOMAIN kept \cup {n0} /\ recent[n0] = bus.time
            /\ \A n \in DOMAIN kept : recent[n] = kept[n]
        BY <4>4 DEF recent, Noted
      <4> QED BY <4>2, <4>3, <4>5 DEF kept
    <3> HIDE DEF kept
    \* Every other name's and address's notes stay.
    <3>8. \A name \in Names : \A ip \in IP :
            history'[name][ip] = IF name = r.name /\ ip = a /\ notes THEN recent ELSE history[name][ip]
      BY <2>0, <3>1, <3>2
    <3>9. EvalsInOrder'
      <4>1. \A n \in DOMAIN evals : evals[n].time <= bus.time /\ evals[n].time \in Nat
        BY <1>2, <2>0, <3>3 DEF EvalsInOrder
      <4>2. \A n \in DOMAIN evals' : evals'[n].time <= Latest' /\ evals'[n].time \in Nat
        BY <3>2, <3>3, <3>4, <3>5, <4>1
      <4>3. ASSUME NEW n \in DOMAIN evals', NEW m \in DOMAIN evals', n <= m
            PROVE  evals'[n].time <= evals'[m].time
        <5>1. CASE m = n0
          BY <3>3, <3>4, <3>5, <4>2, <5>1
        <5>2. CASE m # n0
          <6>1. m \in DOMAIN evals /\ n \in DOMAIN evals
            BY <2>0, <3>4, <4>3, <5>2
          <6> QED BY <1>2, <3>4, <4>3, <6>1 DEF EvalsInOrder
        <5> QED BY <5>1, <5>2
      <4> QED BY <4>2, <4>3 DEF EvalsInOrder
    \* An evaluation forgets only under its own name and address.
    <3>10. ASSUME NEW name \in Names, NEW ip \in IP, NEW n \in DOMAIN evals
           PROVE  StillNoted(evals', name, ip, n) <=>
                    /\ StillNoted(evals, name, ip, n)
                    /\ name = r.name /\ ip = a /\ notes => bus.time - evals[n].time < r.window
      <4>1. \A k \in DOMAIN evals : /\ evals'[k] = evals[k] /\ k \in DOMAIN evals'
                                    /\ NotedUnder(evals', name, ip, k) <=> NotedUnder(evals, name, ip, k)
        BY <3>4, <3>6
      <4>2. /\ evals'[n0].rule = b /\ evals'[n0].time = bus.time /\ n0 > n /\ n0 \in DOMAIN evals'
            /\ NotedUnder(evals', name, ip, n0) <=> name = r.name /\ ip = a /\ notes
        BY <2>0, <3>4, <3>5, <3>6
      <4>3. \A k \in DOMAIN evals' : k \in DOMAIN evals \/ k = n0
        BY <3>4
      <4> HIDE DEF b, a, r, n0
      <4> QED BY <4>1, <4>2, <4>3 DEF StillNoted, r
    <3>11. NotesAreStillNoted'
      <4> SUFFICES ASSUME NEW name \in Names, NEW ip \in IP, NEW n
                   PROVE  /\ n \in DOMAIN history'[name][ip] <=> StillNoted(evals', name, ip, n)
                          /\ n \in DOMAIN history'[name][ip] => history'[name][ip][n] = evals'[n].time
        BY DEF NotesAreStillNoted
      <4> DEFINE here == name = r.name /\ ip = a /\ notes
      <4>0. /\ n \in DOMAIN history[name][ip] <=> StillNoted(evals, name, ip, n)
            /\ n \in DOMAIN history[name][ip] => history[name][ip][n] = evals[n].time
        BY <1>2 DEF NotesAreStillNoted
      <4>1. CASE n \in DOMAIN evals
        <5>1. evals'[n] = evals[n] /\ n # n0 /\ evals[n].time \in Nat
          BY <2>0, <3>4, <4>1
        <5>2. StillNoted(evals', name, ip, n) <=>
                StillNoted(evals, name, ip, n) /\ (here => bus.time - evals[n].time < r.window)
          BY <3>10, <4>1
        <5>3. CASE here
          <6>1. history'[name][ip] = recent /\ history[name][ip] = times
            BY <3>8, <5>3
          <6>2. n \in DOMAIN recent <=> n \in DOMAIN times /\ times[n] > bus.time - r.window
            BY <3>7, <5>1
          <6>3. n \in DOMAIN times => (times[n] > bus.time - r.window
                                         <=> bus.time - evals[n].time < r.window)
            BY <3>2, <4>0, <5>1, <6>1
          <6>4. n \in DOMAIN recent => recent[n] = times[n]
            BY <3>7, <5>1
          <6> QED BY <4>0, <5>1, <5>2, <5>3, <6>1, <6>2, <6>3, <6>4
        <5>4. CASE ~here
          BY <3>8, <4>0, <5>1, <5>2, <5>4
        <5> QED BY <5>3, <5>4
      <4>2. CASE n = n0
        <5>1. StillNoted(evals', name, ip, n) <=> here
          <6>1. \A k \in DOMAIN evals' : ~(k > n0)
            BY <2>0, <3>4
          <6> QED BY <3>6, <4>2, <6>1 DEF StillNoted
        <5>2. n \notin DOMAIN history[name][ip]
          BY <3>4, <4>0, <4>2 DEF StillNoted, NotedUnder
        <5> QED BY <3>4, <3>5, <3>7, <3>8, <4>2, <5>1, <5>2
      <4>3. CASE n \notin DOMAIN evals /\ n # n0
        <5>1. ~StillNoted(evals', name, ip, n) /\ n \notin DOMAIN history[name][ip]
          BY <3>4, <4>0, <4>3 DEF StillNoted, NotedUnder
        <5>2. n \notin DOMAIN recent
          BY <3>7, <4>3
        <5> QED BY <3>8, <5>1, <5>2
      <4> QED BY <4>1, <4>2, <4>3
    <3>12. FiresExactlyInWindow'
      <4> SUFFICES ASSUME NEW i \in DOMAIN evals' PROVE FiredRight(i)'
        BY DEF FiresExactlyInWindow, FiredRight, OneWindow
      <4>1. CASE i \in DOMAIN evals
        <5>1. FiredRight(i)
          BY <1>2, <4>1 DEF FiresExactlyInWindow, FiredRight, OneWindow
        <5>2. evals'[i] = evals[i] /\ \A j \in 1..i : evals'[j] = evals[j]
          BY <2>0, <3>4, <4>1
        <5>3. \A j \in 1..i : NotedAlike(j, i)' <=> NotedAlike(j, i)
          BY <5>2 DEF NotedAlike
        <5>4. InWindows(i)' = InWindows(i)
          <6>1. \A j \in 1..i : \A k \in (j + 1)..i : k \in 1..i
            BY <2>0, <4>1
          <6> HIDE DEF W
          <6> QED BY <5>2, <5>3, <6>1 DEF InWindows
        <5> QED BY <5>1, <5>2, <5>3, <5>4 DEF FiredRight
      <4>2. CASE i = n0
        <5>1. /\ evals'[i].rule = b /\ evals'[i].ev = bus.ev /\ evals'[i].time = bus.time
              /\ evals'[i].fired = fires /\ DOMAIN evals' = 1..i /\ i \in Nat
          BY <2>0, <3>4, <3>5, <4>2
        <5>2. \A j \in 1..i : NotedAlike(j, i)' <=> NotedUnder(evals', r.name, a, j)
          BY <5>1 DEF NotedAlike, NotedUnder
        <5>3. InWindows(i)' = {j \in 1..i : StillNoted(evals', r.name, a, j)}
          <6>1. \A j \in 1..i : \A k : k \in (j + 1)..i <=> k \in 1..i /\ k > j
            BY <5>1
          <6> QED BY <5>1, <5>2, <6>1 DEF InWindows, StillNoted
        <5>4. notes => InWindows(i)' = DOMAIN recent
          <6> SUFFICES ASSUME notes PROVE InWindows(i)' = DOMAIN recent
            OBVIOUS
          <6>1. history'[r.name][a] = recent
            BY <3>2, <3>8
          <6>2. \A j : j \in DOMAIN recent <=> StillNoted(evals', r.name, a, j)
            BY <3>2, <3>11, <6>1 DEF NotesAreStillNoted
          <6>3. \A j : StillNoted(evals', r.name, a, j) => j \in 1..i
            BY <5>1 DEF StillNoted, NotedUnder
          <6> QED BY <5>3, <6>2, <6>3
        <5>5. fires <=> matches /\ (Limited(r) => Cardinality(InWindows(i)') >= r.threshold)
          BY <5>4 DEF fires, notes
        <5>6. ASSUME notes, OneWindow(r)
              PROVE  InWindows(i)' = {j \in 1..i : NotedAlike(j, i)'
                                                   /\ evals'[i].time - evals'[j].time < r.window}
          <6>1. \A j \in 1..i : evals'[j].time \in Nat /\ evals'[j].time <= bus.time
            <7>1. \A j \in 1..i : evals'[j].time <= Latest'
              BY <3>9, <5>1 DEF EvalsInOrder
            <7>2. \A j \in 1..i : evals'[j].time \in Nat
              BY <2>0, <3>2, <3>4, <3>5, <5>1
            <7> QED BY <3>3, <7>1, <7>2
          <6>2. ASSUME NEW j \in 1..i, NotedUnder(evals', r.name, a, j)
                PROVE  StillNoted(evals', r.name, a, j) <=> bus.time - evals'[j].time < r.window
            <7>1. ASSUME StillNoted(evals', r.name, a, j)
                  PROVE  bus.time - evals'[j].time < r.window
              <8>1. CASE j = i
                BY <3>2, <5>1, <5>6, <8>1 DEF notes, Limited, Rule
              <8>2. CASE j # i
                <9>1. i > j /\ i \in DOMAIN evals' /\ NotedUnder(evals', r.name, a, i)
                  BY <3>2, <3>6, <4>2, <5>1, <5>6, <8>2
                <9> QED BY <5>1, <7>1, <9>1 DEF StillNoted
              <8> QED BY <8>1, <8>2
            <7>2. ASSUME bus.time - evals'[j].time < r.window,
                         NEW k \in DOMAIN evals', k > j, NotedUnder(evals', r.name, a, k)
                  PROVE  evals'[k].time - evals'[j].time < Rules[evals'[k].rule].window
              <8>1. evals'[k].rule \in DOMAIN Rules
                <9>1. evals' \in Seq(Evaluation)
                  BY <1>2 DEF Typed
                <9>2. evals'[k] \in Evaluation
                  BY <7>2, <9>1, LenProperties
                <9> QED BY <9>2 DEF Evaluation
              <8>2. Rules[evals'[k].rule].window = r.window
                BY <5>6, <7>2, <8>1 DEF OneWindow, NotedUnder
              <8> QED BY <3>2, <5>1, <6>1, <7>2, <8>2
            <7> QED BY <6>2, <7>1, <7>2 DEF StillNoted
          <6>3. \A j \in 1..i : StillNoted(evals', r.name, a, j) => NotedUnder(evals', r.name, a, j)
            BY DEF StillNoted
          <6> QED BY <5>1, <5>2, <5>3, <6>2, <6>3
        <5>7. fires \in BOOLEAN
          BY DEF fires, matches, Matches
        <5> QED BY <5>1, <5>5, <5>6, <5>7 DEF FiredRight, matches, notes, OneWindow
      <4> QED BY <3>4, <4>1, <4>2
    <3> QED BY <3>9, <3>11, <3>12
  <2>3. CASE Tick
    <3>1. UNCHANGED <<evals, history, bus>> /\ now' = now + 1
      BY <2>3 DEF Tick
    <3>2. Latest <= Latest'
      BY <2>0, <3>1 DEF Latest
    <3> QED BY <2>1, <3>1, <3>2
  <2>4. ASSUME NEW e \in Events, Process(e) PROVE W'
    <3>1. UNCHANGED <<evals, history>> /\ Latest = now /\ Latest' = now
      BY <2>4 DEF Process, Latest, Idle
    <3> QED BY <2>0, <2>1, <3>1
  <2>5. CASE ProcessReturns
    <3>1. UNCHANGED <<evals, history>> /\ Latest' = now
      BY <2>5 DEF ProcessReturns, Latest
    <3>2. Latest <= now
      BY <1>2, <2>0 DEF Typed, TypeOK, BusOK, Latest
    <3> QED BY <2>1, <3>1, <3>2
  <2>6. CASE Act
    <3>1. UNCHANGED <<evals, history, now>>
      BY <2>6 DEF Act
    <3>2. Latest' = Latest
      <4>1. bus # Idle /\ bus.at = "act"
        BY <2>6 DEF Act, Idle
      <4>2. bus = [at |-> bus.at, ev |-> bus.ev, time |-> bus.time, rule |-> bus.rule,
                   act |-> bus.act]
        BY <1>2, <4>1 DEF Typed, TypeOK, BusOK
      <4>3. bus'.time = bus.time /\ bus'.at \in {"act", "rule"}
        <5>1. bus' = [bus EXCEPT !.at = "rule", !.rule = @ + 1] \/ bus' = [bus EXCEPT !.act = @ + 1]
          BY <2>6 DEF Act
        <5> QED BY <4>1, <4>2, <5>1
      <4> QED BY <4>1, <4>3 DEF Latest, Idle
    <3> QED BY <2>0, <2>1, <3>1, <3>2
  <2>7. CASE \/ \E ip \in IP : Press(ip)
             \/ \E p \in Callers : Exec(p) \/ Finish(p)
             \/ UNCHANGED vars
    <3>1. UNCHANGED <<evals, history, now, bus>>
      BY <2>7 DEF Press, Exec, Finish, vars
    <3>2. Latest' = Latest
      BY <3>1 DEF Latest
    <3> QED BY <2>0, <2>1, <3>1, <3>2
  <2> QED BY <1>2, <2>2, <2>3, <2>4, <2>5, <2>6, <2>7 DEF Next, Bus, BlockIP, Callers
<1> QED BY <1>1, <1>2, Typing, PTL DEF Spec
-----------------------------------------------------------------------------
\* The two sets ResultsAccountForFirewall counts.
Successes(results, ip) ==
  {i \in DOMAIN results : results[i] = [ip |-> ip, applied |-> TRUE]}
Unrecorded(calls, ip) == {p \in Callers : calls[p] = [stage |-> "applied", ip |-> ip]}

\* What was executed is recorded, or is about to be, once each, whoever called: a call
\* moves from the one set to the other in the step that records it.
THEOREM ResultsAreAnAccount == Spec => []ResultsAccountForFirewall
<1>1. Init => ResultsAccountForFirewall
  <2> SUFFICES ASSUME Init, NEW ip \in IP
               PROVE  firewall[ip] = Cardinality(Successes(last, ip))
                                       + Cardinality(Unrecorded(call, ip))
    BY DEF ResultsAccountForFirewall, Successes, Unrecorded
  <2>1. Successes(last, ip) = {} /\ Unrecorded(call, ip) = {} /\ firewall[ip] = 0
    BY DEF Init, Successes, Unrecorded, NoCall
  <2> QED BY <2>1, FS_EmptySet
<1>2. ASSUME Typed, ResultsAccountForFirewall, [Next]_vars PROVE ResultsAccountForFirewall'
  <2> SUFFICES ASSUME NEW ip \in IP, Format # "cidr"
               PROVE  firewall'[ip] = Cardinality(Successes(last', ip))
                                        + Cardinality(Unrecorded(call', ip))
    BY DEF ResultsAccountForFirewall, Successes, Unrecorded
  <2> DEFINE S == Successes(last, ip)
             U == Unrecorded(call, ip)
  <2>0. /\ last \in Seq([ip : IP, applied : BOOLEAN]) /\ Len(last) \in Nat
        /\ DOMAIN last = 1..Len(last)
        /\ firewall \in [IP -> Nat] /\ firewall[ip] = Cardinality(S) + Cardinality(U)
        /\ IsFiniteSet(S) /\ IsFiniteSet(U) /\ Cardinality(S) \in Nat /\ Cardinality(U) \in Nat
        /\ call \in [Callers -> {NoCall} \union [stage : {"exec", "applied", "failed"}, ip : IP]]
    <3>1. /\ last \in Seq([ip : IP, applied : BOOLEAN]) /\ firewall \in [IP -> Nat]
          /\ call \in [Callers -> {NoCall} \union [stage : {"exec", "applied", "failed"}, ip : IP]]
      BY <1>2 DEF Typed, TypeOK, CallsOK
    <3>2. Len(last) \in Nat /\ DOMAIN last = 1..Len(last)
      BY <3>1, LenProperties
    <3>3. IsFiniteSet(S)
      <4>1. S \in SUBSET (1..Len(last)) /\ IsFiniteSet(1..Len(last))
        BY <3>2, FS_Interval DEF Successes
      <4> QED BY <4>1, FS_Subset
    <3>4. IsFiniteSet(U)
      <4>1. U \in SUBSET Callers /\ IsFiniteSet(Callers)
        <5>1. Callers = ({} \cup {"bus"}) \cup {"operator"}
          BY DEF Callers
        <5>2. IsFiniteSet({} \cup {"bus"})
          BY FS_EmptySet, FS_AddElement
        <5> QED BY <5>1, <5>2, FS_AddElement DEF Unrecorded
      <4> QED BY <4>1, FS_Subset
    <3>5. firewall[ip] = Cardinality(S) + Cardinality(U)
      BY <1>2 DEF ResultsAccountForFirewall, Successes, Unrecorded
    <3> QED BY <3>1, <3>2, <3>3, <3>4, <3>5, FS_CardinalityType
  \* One more result.
  <2>1. ASSUME NEW x \in [ip : IP, applied : BOOLEAN], last' = Append(last, x)
        PROVE  /\ Successes(last', ip) = IF x = [ip |-> ip, applied |-> TRUE]
                                           THEN S \cup {Len(last) + 1} ELSE S
               /\ Len(last) + 1 \notin S
    <3>1. /\ DOMAIN last' = 1..(Len(last) + 1) /\ last'[Len(last) + 1] = x
          /\ \A i \in 1..Len(last) : last'[i] = last[i]
      <4>1. /\ last' \in Seq([ip : IP, applied : BOOLEAN]) /\ Len(last') = Len(last) + 1
            /\ last'[Len(last) + 1] = x /\ \A i \in 1..Len(last) : last'[i] = last[i]
        BY <2>0, <2>1, AppendProperties
      <4> QED BY <4>1, LenProperties
    <3>2. \A i : i \in DOMAIN last' <=> i \in DOMAIN last \/ i = Len(last) + 1
      BY <2>0, <3>1
    <3>3. Len(last) + 1 \notin DOMAIN last
      BY <2>0
    <3>4. \A i \in DOMAIN last : last'[i] = last[i]
      BY <2>0, <3>1
    <3> QED BY <3>1, <3>2, <3>3, <3>4 DEF Successes
  <2>2. CASE UNCHANGED <<firewall, call, last>>
    BY <2>0, <2>2
  \* BlockIP begins, dry or live: nothing is executed and nothing recorded as applied.
  <2>3. ASSUME NEW p \in Callers, NEW to \in IP, call[p] = NoCall, Begin(p, to),
               UNCHANGED firewall
        PROVE  firewall'[ip] = Cardinality(Successes(last', ip)) + Cardinality(Unrecorded(call', ip))
    <3>1. CASE Live
      <4>1. last' = last /\ call' = [call EXCEPT ![p] = [stage |-> "exec", ip |-> to]]
        BY <2>3, <3>1 DEF Begin
      <4>2. Unrecorded(call', ip) = U
        <5>1. [stage |-> "exec", ip |-> to] # [stage |-> "applied", ip |-> ip]
              /\ NoCall # [stage |-> "applied", ip |-> ip]
          BY DEF NoCall
        <5> QED BY <2>0, <2>3, <4>1, <5>1 DEF Unrecorded
      <4> QED BY <2>0, <2>3, <4>1, <4>2
    <3>2. CASE ~Live
      <4>1. call' = call /\ last' = Append(last, [ip |-> to, applied |-> FALSE])
        BY <2>3, <3>2 DEF Begin
      <4>2. Successes(last', ip) = S
        <5>1. [ip |-> to, applied |-> FALSE] \in [ip : IP, applied : BOOLEAN]
              /\ [ip |-> to, applied |-> FALSE] # [ip |-> ip, applied |-> TRUE]
          OBVIOUS
        <5> QED BY <2>1, <4>1, <5>1
      <4> QED BY <2>0, <2>3, <4>1, <4>2
    <3> QED BY <3>1, <3>2
  <2>4. CASE Act
    <3>1. call["bus"] = NoCall /\ UNCHANGED firewall
      BY <2>4 DEF Act
    <3>2. CASE Begin("bus", bus.ev.ip)
      <4>1. bus.ev.ip \in IP
        <5>1. bus # Idle
          BY <2>4 DEF Act, Idle
        <5> QED BY <1>2, <5>1 DEF Typed, TypeOK, BusOK, Events
      <4> QED BY <2>3, <3>1, <3>2, <4>1 DEF Callers
    <3>3. CASE UNCHANGED <<call, last>>
      BY <2>2, <3>1, <3>3
    <3> QED BY <2>4, <3>2, <3>3 DEF Act
  <2>5. ASSUME NEW to \in IP, Press(to)
        PROVE  firewall'[ip] = Cardinality(Successes(last', ip)) + Cardinality(Unrecorded(call', ip))
    BY <2>3, <2>5 DEF Press, Callers
  <2>6. ASSUME NEW p \in Callers, Exec(p)
        PROVE  firewall'[ip] = Cardinality(Successes(last', ip)) + Cardinality(Unrecorded(call', ip))
    <3>1. last' = last /\ call[p].stage = "exec"
      BY <2>6 DEF Exec
    <3>2. call[p] = [stage |-> "exec", ip |-> call[p].ip] /\ call[p].ip \in IP
      BY <2>0, <3>1 DEF NoCall
    <3>3. p \notin U
      BY <3>1 DEF Unrecorded
    <3>4. CASE call' = [call EXCEPT ![p].stage = "applied"]
               /\ firewall' = [firewall EXCEPT ![call[p].ip] = @ + 1]
      <4>1. call'[p] = [stage |-> "applied", ip |-> call[p].ip]
            /\ \A o \in Callers : o # p => call'[o] = call[o]
        BY <2>0, <3>2, <3>4
      <4>2. CASE call[p].ip = ip
        <5>1. Unrecorded(call', ip) = U \cup {p}
          BY <3>3, <4>1, <4>2 DEF Unrecorded
        <5>2. Cardinality(U \cup {p}) = Cardinality(U) + 1
          BY <2>0, <3>3, FS_AddElement
        <5>3. firewall'[ip] = firewall[ip] + 1
          BY <2>0, <3>4, <4>2
        <5> HIDE DEF S, U
        <5> QED BY <2>0, <3>1, <5>1, <5>2, <5>3 DEF S
      <4>3. CASE call[p].ip # ip
        <5>1. Unrecorded(call', ip) = U
          BY <3>3, <4>1, <4>3 DEF Unrecorded
        <5>2. firewall'[ip] = firewall[ip]
          BY <2>0, <3>2, <3>4, <4>3
        <5> QED BY <2>0, <3>1, <5>1, <5>2
      <4> QED BY <4>2, <4>3
    <3>5. CASE call' = [call EXCEPT ![p].stage = "failed"] /\ firewall' = firewall
      <4>1. call'[p] = [stage |-> "failed", ip |-> call[p].ip]
            /\ \A o \in Callers : o # p => call'[o] = call[o]
        BY <2>0, <3>2, <3>5
      <4>2. Unrecorded(call', ip) = U
        BY <3>3, <4>1 DEF Unrecorded
      <4> QED BY <2>0, <3>1, <3>5, <4>2
    <3> QED BY <2>6, <3>4, <3>5 DEF Exec
  <2>7. ASSUME NEW p \in Callers, Finish(p)
        PROVE  firewall'[ip] = Cardinality(Successes(last', ip)) + Cardinality(Unrecorded(call', ip))
    <3> DEFINE applied == call[p].stage = "applied"
               x == [ip |-> call[p].ip, applied |-> applied]
    <3>1. /\ firewall' = firewall /\ last' = Append(last, x)
          /\ call' = [call EXCEPT ![p] = NoCall] /\ call[p].stage \in {"applied", "failed"}
      BY <2>7 DEF Finish
    <3>2. call[p] = [stage |-> call[p].stage, ip |-> call[p].ip] /\ call[p].ip \in IP
      BY <2>0, <3>1 DEF NoCall
    <3>3. x \in [ip : IP, applied : BOOLEAN]
      BY <3>2
    <3>4. Unrecorded(call', ip) = U \ {p}
      <4>1. NoCall # [stage |-> "applied", ip |-> ip]
        BY DEF NoCall
      <4> QED BY <2>0, <3>1, <4>1 DEF Unrecorded
    <3>5. p \in U <=> applied /\ call[p].ip = ip
      BY <3>1, <3>2 DEF Unrecorded
    <3>6. x = [ip |-> ip, applied |-> TRUE] <=> applied /\ call[p].ip = ip
      OBVIOUS
    <3> HIDE DEF x, applied
    <3>7. CASE applied /\ call[p].ip = ip
      <4>1. Successes(last', ip) = S \cup {Len(last) + 1} /\ Len(last) + 1 \notin S
        BY <2>1, <3>1, <3>3, <3>6, <3>7
      <4>2. Cardinality(S \cup {Len(last) + 1}) = Cardinality(S) + 1
        BY <2>0, <4>1, FS_AddElement
      <4>3. Cardinality(U \ {p}) = Cardinality(U) - 1
        BY <2>0, <3>5, <3>7, FS_RemoveElement
      <4> HIDE DEF S, U
      <4>4. /\ firewall'[ip] = Cardinality(S) + Cardinality(U)
            /\ Cardinality(S) \in Nat /\ Cardinality(U) \in Nat
        BY <2>0, <3>1
      <4>5. /\ Cardinality(Successes(last', ip)) = Cardinality(S) + 1
            /\ Cardinality(Unrecorded(call', ip)) = Cardinality(U) - 1
        BY <3>4, <4>1, <4>2, <4>3
      <4> QED BY <4>4, <4>5
    <3>8. CASE ~(applied /\ call[p].ip = ip)
      <4>1. Successes(last', ip) = S
        BY <2>1, <3>1, <3>3, <3>6, <3>8
      <4>2. U \ {p} = U
        BY <3>5, <3>8
      <4> QED BY <2>0, <3>1, <3>4, <4>1, <4>2
    <3> QED BY <3>7, <3>8
  <2>8. CASE Tick \/ EvalRule \/ ProcessReturns \/ (\E e \in Events : Process(e)) \/ UNCHANGED vars
    BY <2>2, <2>8 DEF Tick, EvalRule, ProcessReturns, Process, vars, applier
  <2> QED BY <1>2, <2>4, <2>5, <2>6, <2>7, <2>8 DEF Next, Bus, BlockIP, Callers
<1> QED BY <1>1, <1>2, Typing, PTL DEF Spec
=============================================================================
