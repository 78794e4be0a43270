-------------------------- MODULE ClusterHubProofs --------------------------
(***************************************************************************)
(* Proofs about ClusterHub for any sensors, visitors, tokens and capacity, *)
(* any number of calls and restarts, and a network that loses what it will.*)
(***************************************************************************)
EXTENDS ClusterHub, SequenceTheorems, FiniteSetTheorems, TLAPS

CallType ==
  [by : Agent \union Visitor, path : {"join", "ingest", "nodes"}, method : {"GET", "POST"},
   headers : Headers, body : Address \union Event \union {Malformed},
   at : {"request", "joining", "queued", "listing", "reply", "gone"}, status : Nat,
   verdict : {"waiting", "ok", "refused", "failed"}]

In(s, i) == \E k \in DOMAIN s : s[k] = i
Distinct(s) == \A k, l \in DOMAIN s : s[k] = s[l] => k = l
Apart(s, t) == \A i \in Nat : ~(In(s, i) /\ In(t, i))

\* What the hub has taken of call i is in one of the four, or went with a process.
Held(i) == In(drained, i) \/ In(buffer, i) \/ In(lost, i) \/ In(registered, i)

Typed ==
  /\ calls \in Seq(CallType) /\ nodes \in [Agent -> Address \union {NoAddress}]
  /\ buffer \in Seq(Nat) /\ drained \in Seq(Nat)
  /\ lost \in Seq(Nat) /\ registered \in Seq(Nat)
  /\ restarts \in Nat

\* The hub takes a call's event or join once.
HeldOnce ==
  /\ Distinct(drained) /\ Distinct(buffer) /\ Distinct(lost) /\ Distinct(registered)
  /\ Apart(drained, buffer) /\ Apart(drained, lost) /\ Apart(drained, registered)
  /\ Apart(buffer, lost) /\ Apart(buffer, registered) /\ Apart(lost, registered)

\* Only a sensor sends a join that can be decoded.
JoinsAreSensors ==
  \A i \in DOMAIN calls :
    calls[i].path = "join" => \/ calls[i].body = Malformed
                              \/ calls[i].by \in Agent /\ calls[i].body \in Address

\* What has passed the checks of its handler, and what its answer says.
Served(c) == Refusal(c) = 0 /\ c.path \in {"join", "ingest"}
Matches(c, held) ==
  /\ c.at = "joining" => Served(c) /\ c.path = "join"
  /\ c.at \in {"queued", "listing"} => c.path = "nodes"
  /\ c.at = "reply" /\ c.status \in 200..299 => held \/ c.path = "nodes"
  /\ c.at = "reply" /\ c.status \notin 200..299 => ~held
  /\ c.verdict = "ok" => c.at = "gone" /\ (held \/ c.path = "nodes")
  /\ c.verdict = "refused" => c.at = "gone" /\ ~held
AnswersMatch == \A i \in DOMAIN calls : Matches(calls[i], Held(i))

HeldWasServed ==
  \A i \in Nat :
    /\ Held(i) => /\ i \in DOMAIN calls /\ Served(calls[i])
                  /\ calls[i].at \in {"reply", "gone"}
    /\ In(registered, i) => calls[i].path = "join"
    /\ In(drained, i) \/ In(buffer, i) => calls[i].path = "ingest"

\* A sensor makes one call after the other.
OneAtATime ==
  \A i, j \in DOMAIN calls :
    j < i /\ calls[j].by = calls[i].by => calls[j].verdict # "waiting"

\* The map of nodes holds each sensor's last join of this process.
NodesHoldTheLast ==
  \A a \in Agent :
    \/ nodes[a] = NoAddress /\ \A n \in DOMAIN registered : calls[registered[n]].by # a
    \/ \E n \in DOMAIN registered :
         /\ calls[registered[n]].by = a /\ nodes[a] = calls[registered[n]].body
         /\ \A m \in DOMAIN registered : m > n => calls[registered[m]].by # a

\* Only a join its sensor has given up runs after a later one of the same sensor.
OvertakenWasGivenUp ==
  \A m, n \in DOMAIN registered :
    LET i == registered[m]
        j == registered[n]
    IN  m < n /\ calls[i].by = calls[j].by /\ j < i => calls[j].verdict = "failed"

Inv ==
  /\ Typed /\ HeldOnce /\ JoinsAreSensors /\ AnswersMatch /\ HeldWasServed
  /\ OneAtATime /\ NodesHoldTheLast /\ OvertakenWasGivenUp

\* What the three operations on the hub's sequences do to what is in them.
LEMMA Contents ==
  ASSUME NEW s \in Seq(Nat)
  PROVE  /\ \A x \in Nat : /\ Append(s, x) \in Seq(Nat)
                           /\ \A i \in Nat : In(Append(s, x), i) <=> In(s, i) \/ i = x
                           /\ Distinct(s) /\ ~In(s, x) => Distinct(Append(s, x))
         /\ s # <<>> => /\ Head(s) \in Nat /\ Tail(s) \in Seq(Nat)
                        /\ \A i \in Nat : In(s, i) <=> i = Head(s) \/ In(Tail(s), i)
                        /\ Distinct(s) => Distinct(Tail(s)) /\ ~In(Tail(s), Head(s))
         /\ \A t \in Seq(Nat) : /\ s \o t \in Seq(Nat)
                                /\ \A i \in Nat : In(s \o t, i) <=> In(s, i) \/ In(t, i)
                                /\ Distinct(s) /\ Distinct(t) /\ Apart(s, t) => Distinct(s \o t)
<1>0. Len(s) \in Nat /\ DOMAIN s = 1..Len(s) /\ \A i \in DOMAIN s : s[i] \in Nat
  OBVIOUS
<1>1. ASSUME NEW x \in Nat
      PROVE  /\ Append(s, x) \in Seq(Nat)
             /\ \A i \in Nat : In(Append(s, x), i) <=> In(s, i) \/ i = x
             /\ Distinct(s) /\ ~In(s, x) => Distinct(Append(s, x))
  <2> DEFINE a == Append(s, x)
  <2>1. /\ a \in Seq(Nat) /\ DOMAIN a = 1..(Len(s) + 1)
        /\ \A i \in 1..Len(s) : a[i] = s[i]
        /\ a[Len(s) + 1] = x
    BY AppendProperties
  <2> HIDE DEF a
  <2>2. \A i \in DOMAIN a : i \in DOMAIN s \/ i = Len(s) + 1
    BY <1>0, <2>1
  <2>3. DOMAIN s \subseteq DOMAIN a /\ Len(s) + 1 \in DOMAIN a
    BY <1>0, <2>1
  <2>4. \A i \in Nat : In(a, i) <=> In(s, i) \/ i = x
    BY <1>0, <2>1, <2>2, <2>3 DEF In
  <2>5. Distinct(s) /\ ~In(s, x) => Distinct(a)
    BY <1>0, <2>1, <2>2, <2>3 DEF In, Distinct
  <2> QED BY <2>1, <2>4, <2>5 DEF a
<1>2. ASSUME s # <<>>
      PROVE  /\ Head(s) \in Nat /\ Tail(s) \in Seq(Nat)
             /\ \A i \in Nat : In(s, i) <=> i = Head(s) \/ In(Tail(s), i)
             /\ Distinct(s) => Distinct(Tail(s)) /\ ~In(Tail(s), Head(s))
  <2> DEFINE r == Tail(s)
  <2>1. /\ Head(s) = s[1] /\ r \in Seq(Nat) /\ Len(s) >= 1
        /\ DOMAIN r = 1..(Len(s) - 1) /\ \A i \in 1..(Len(s) - 1) : r[i] = s[i + 1]
    BY <1>0, <1>2, HeadTailProperties
  <2> HIDE DEF r
  <2>2. 1 \in DOMAIN s /\ \A i \in DOMAIN r : i + 1 \in DOMAIN s /\ i + 1 # 1
    BY <1>0, <2>1
  <2>3. \A i \in DOMAIN s : i = 1 \/ (i - 1 \in DOMAIN r /\ r[i - 1] = s[i])
    BY <1>0, <2>1
  <2>4. \A i \in Nat : In(s, i) <=> i = Head(s) \/ In(r, i)
    BY <2>1, <2>2, <2>3 DEF In
  <2>5. Distinct(s) => Distinct(r) /\ ~In(r, Head(s))
    <3> SUFFICES ASSUME Distinct(s) PROVE Distinct(r) /\ ~In(r, Head(s))
      OBVIOUS
    <3>1. Distinct(r)
      BY <1>0, <2>1, <2>2 DEF Distinct
    <3>2. ~In(r, Head(s))
      BY <1>0, <2>1, <2>2 DEF Distinct, In
    <3> QED BY <3>1, <3>2
  <2> QED BY <1>0, <2>1, <2>2, <2>4, <2>5 DEF r
<1>3. ASSUME NEW t \in Seq(Nat)
      PROVE  /\ s \o t \in Seq(Nat)
             /\ \A i \in Nat : In(s \o t, i) <=> In(s, i) \/ In(t, i)
             /\ Distinct(s) /\ Distinct(t) /\ Apart(s, t) => Distinct(s \o t)
  <2> DEFINE c == s \o t
  <2>1. /\ c \in Seq(Nat) /\ Len(t) \in Nat /\ DOMAIN t = 1..Len(t)
        /\ DOMAIN c = 1..(Len(s) + Len(t))
        /\ \A i \in 1..(Len(s) + Len(t)) : c[i] = IF i <= Len(s) THEN s[i] ELSE t[i - Len(s)]
        /\ \A i \in DOMAIN t : t[i] \in Nat
    BY <1>0, ConcatProperties
  <2> HIDE DEF c
  <2>2. \A i \in DOMAIN c : \/ i \in DOMAIN s /\ c[i] = s[i]
                            \/ i - Len(s) \in DOMAIN t /\ c[i] = t[i - Len(s)]
    BY <1>0, <2>1
  <2>3. /\ \A i \in DOMAIN s : i \in DOMAIN c /\ c[i] = s[i]
        /\ \A i \in DOMAIN t : i + Len(s) \in DOMAIN c /\ c[i + Len(s)] = t[i]
    <3>1. \A i \in DOMAIN s : i \in DOMAIN c /\ c[i] = s[i]
      BY <1>0, <2>1
    <3>2. ASSUME NEW i \in DOMAIN t PROVE i + Len(s) \in DOMAIN c /\ c[i + Len(s)] = t[i]
      <4>1. /\ i + Len(s) \in 1..(Len(s) + Len(t)) /\ ~(i + Len(s) <= Len(s))
            /\ (i + Len(s)) - Len(s) = i
        BY <1>0, <2>1
      <4> QED BY <2>1, <4>1
    <3> QED BY <3>1, <3>2
  <2>4. \A i \in Nat : In(c, i) <=> In(s, i) \/ In(t, i)
    BY <2>2, <2>3 DEF In
  <2>5. Distinct(s) /\ Distinct(t) /\ Apart(s, t) => Distinct(c)
    <3> SUFFICES ASSUME Distinct(s), Distinct(t), Apart(s, t),
                        NEW k \in DOMAIN c, NEW l \in DOMAIN c, c[k] = c[l]
                 PROVE  k = l
      BY DEF Distinct
    <3>1. k \in Nat /\ l \in Nat /\ c[k] \in Nat
      BY <1>0, <2>1
    <3>2. ~(\E i \in DOMAIN s, j \in DOMAIN t : s[i] = t[j])
      BY <1>0 DEF Apart, In
    <3> QED BY <1>0, <2>2, <3>1, <3>2 DEF Distinct
  <2> QED BY <2>1, <2>4, <2>5 DEF c
<1> QED BY <1>1, <1>2, <1>3

Same(c, d) ==
  /\ d.by = c.by /\ d.path = c.path /\ d.method = c.method
  /\ d.headers = c.headers /\ d.body = c.body

\* Call i, and no other, is somewhere else or has got its answer.
Changed(i, place, status, verdict) ==
  /\ calls' \in Seq(CallType) /\ DOMAIN calls' = DOMAIN calls
  /\ \A j \in DOMAIN calls : j # i => calls'[j] = calls[j]
  /\ Same(calls[i], calls'[i])
  /\ calls'[i].at = place /\ calls'[i].status = status /\ calls'[i].verdict = verdict

\* Every call stays what it was, and a verdict is final.
Kept ==
  /\ DOMAIN calls \subseteq DOMAIN calls'
  /\ \A i \in DOMAIN calls :
       /\ Same(calls[i], calls'[i])
       /\ calls'[i].verdict = calls[i].verdict
            \/ (calls[i].verdict = "waiting" /\ calls'[i].verdict # "waiting")

\* A step that moves call i, tells its caller, or both.
LEMMA ChangeFacts ==
  ASSUME Typed, NEW i \in DOMAIN calls
  PROVE  /\ \A place \in {"request", "joining", "queued", "listing", "reply", "gone"} :
              \A status \in Nat : Move(i, place, status)
                => Changed(i, place, status, calls[i].verdict)
         /\ Return(i) => Changed(i, "gone", 0, IF calls[i].status \in 200..299
                                               THEN "ok" ELSE "refused")
         /\ GiveUp(i) => Changed(i, calls[i].at, calls[i].status, "failed")
<1>0. calls \in Seq(CallType) /\ DOMAIN calls = 1..Len(calls) /\ calls[i] \in CallType
      /\ i \in 1..Len(calls)
  BY DEF Typed
<1>1. ASSUME NEW place \in {"request", "joining", "queued", "listing", "reply", "gone"},
             NEW status \in Nat,
             NEW verdict \in {"waiting", "ok", "refused", "failed"},
             calls' = [calls EXCEPT ![i] = [calls[i] EXCEPT !.at = place, !.status = status,
                                                            !.verdict = verdict]]
      PROVE  Changed(i, place, status, verdict)
  <2> DEFINE d == [calls[i] EXCEPT !.at = place, !.status = status, !.verdict = verdict]
  <2>1. /\ d \in CallType /\ Same(calls[i], d)
        /\ d.at = place /\ d.status = status /\ d.verdict = verdict
    <3>1. d \in CallType
      BY <1>0 DEF CallType
    <3>2. d.at = place /\ d.status = status /\ d.verdict = verdict
      BY <1>0 DEF CallType
    <3>3. Same(calls[i], d)
      BY <1>0 DEF CallType, Same
    <3> QED BY <3>1, <3>2, <3>3
  <2> HIDE DEF d
  <2>2. /\ calls' \in Seq(CallType) /\ Len(calls') = Len(calls)
        /\ \A j \in 1..Len(calls) : calls'[j] = IF j = i THEN d ELSE calls[j]
    BY <1>0, <1>1, <2>1, ExceptSeq DEF d
  <2>3. DOMAIN calls' = DOMAIN calls
    BY <1>0, <2>2
  <2> QED BY <1>0, <2>1, <2>2, <2>3 DEF Changed
<1>2. ASSUME NEW place \in {"request", "joining", "queued", "listing", "reply", "gone"},
             NEW status \in Nat, Move(i, place, status)
      PROVE  Changed(i, place, status, calls[i].verdict)
  <2>1. calls' = [calls EXCEPT ![i] = [calls[i] EXCEPT !.at = place, !.status = status,
                                                       !.verdict = calls[i].verdict]]
    <3>1. [calls[i] EXCEPT !.at = place, !.status = status, !.verdict = calls[i].verdict]
            = [calls[i] EXCEPT !.at = place, !.status = status]
      BY <1>0 DEF CallType
    <3>2. calls' = [calls EXCEPT ![i] = [calls[i] EXCEPT !.at = place, !.status = status]]
      BY <1>0, <1>2 DEF Move
    <3> QED BY <3>1, <3>2
  <2>2. calls[i].verdict \in {"waiting", "ok", "refused", "failed"}
    BY <1>0 DEF CallType
  <2> QED BY <1>1, <2>1, <2>2
<1>3. ASSUME Return(i)
      PROVE  Changed(i, "gone", 0, IF calls[i].status \in 200..299 THEN "ok" ELSE "refused")
  <2> DEFINE v == IF calls[i].status \in 200..299 THEN "ok" ELSE "refused"
  <2>1. calls' = [calls EXCEPT ![i] = [calls[i] EXCEPT !.at = "gone", !.status = 0,
                                                       !.verdict = v]]
    BY <1>0, <1>3 DEF Return
  <2>2. v \in {"waiting", "ok", "refused", "failed"}
    OBVIOUS
  <2> HIDE DEF v
  <2>3. Changed(i, "gone", 0, v)
    BY <1>1, <2>1, <2>2
  <2> QED BY <2>3 DEF v
<1>4. ASSUME GiveUp(i) PROVE Changed(i, calls[i].at, calls[i].status, "failed")
  <2>1. calls' = [calls EXCEPT ![i] = [calls[i] EXCEPT !.at = calls[i].at,
                                         !.status = calls[i].status, !.verdict = "failed"]]
    <3>1. [calls[i] EXCEPT !.at = calls[i].at, !.status = calls[i].status,
                           !.verdict = "failed"] = [calls[i] EXCEPT !.verdict = "failed"]
      BY <1>0 DEF CallType
    <3>2. calls' = [calls EXCEPT ![i] = [calls[i] EXCEPT !.verdict = "failed"]]
      BY <1>0, <1>4 DEF GiveUp
    <3> QED BY <3>1, <3>2
  <2>2. /\ calls[i].at \in {"request", "joining", "queued", "listing", "reply", "gone"}
        /\ calls[i].status \in Nat
    BY <1>0 DEF CallType
  <2> QED BY <1>1, <2>1, <2>2
<1> QED BY <1>2, <1>3, <1>4

\* What a client sends.
Sent(c) ==
  /\ c \in CallType /\ c.at = "request" /\ c.verdict = "waiting"
  /\ c.path = "join" => c.body = Malformed \/ (c.by \in Agent /\ c.body \in Address)
  /\ ~Waiting(c.by)

Sends ==
  /\ UNCHANGED <<nodes, buffer, drained, registered, process>>
  /\ \E c : Sent(c) /\ calls' = Append(calls, c)

\* What becomes of call i where the hub's state stays as it is ...
Passes(i) ==
  LET c == calls[i] IN
    /\ UNCHANGED <<nodes, buffer, drained, registered, process>>
    /\ \/ /\ c.at = "request"
          /\ \/ \E s \in Nat \ (200..299) : Changed(i, "reply", s, c.verdict)
             \/ Served(c) /\ c.path = "join" /\ Changed(i, "joining", 0, c.verdict)
             \/ c.path = "nodes" /\ Changed(i, "queued", 0, c.verdict)
       \/ c.at = "queued" /\ Changed(i, "listing", 0, c.verdict)
       \/ c.at = "listing" /\ Changed(i, "reply", 200, c.verdict)
       \/ c.at \in {"listing", "request", "reply"} /\ Changed(i, "gone", 0, c.verdict)
       \/ /\ c.at = "reply" /\ c.verdict = "waiting"
          /\ Changed(i, "gone", 0, IF c.status \in 200..299 THEN "ok" ELSE "refused")
       \/ c.verdict = "waiting" /\ Changed(i, c.at, c.status, "failed")

\* ... and where its event or its join is taken.
Taken(i) ==
  LET c == calls[i] IN
    /\ Served(c) /\ UNCHANGED <<drained, process>>
    /\ \/ /\ c.at = "request" /\ c.path = "ingest" /\ Changed(i, "reply", 202, c.verdict)
          /\ buffer' = Append(buffer, i) /\ UNCHANGED <<nodes, registered>>
       \/ /\ c.at = "joining" /\ c.path = "join" /\ Changed(i, "reply", 200, c.verdict)
          /\ nodes' = [nodes EXCEPT ![c.by] = c.body]
          /\ registered' = Append(registered, i) /\ UNCHANGED buffer

LEMMA CallsStep ==
  ASSUME Inv, [Next]_vars
  PROVE  \/ Sends \/ Drain \/ Restart \/ UNCHANGED vars
         \/ \E i \in DOMAIN calls : Taken(i) \/ Passes(i)
<1> USE DEF process
<1>1. ASSUME NEW c \in Agent \union Visitor, NEW path \in {"join", "ingest", "nodes"},
             NEW method \in {"GET", "POST"}, NEW headers \in Headers,
             NEW body \in Address \union Event \union {Malformed},
             Call(c, path, method, headers, body),
             path = "join" => body = Malformed \/ (c \in Agent /\ body \in Address)
      PROVE  Sends
  <2> DEFINE d == [by |-> c, path |-> path, method |-> method, headers |-> headers,
                   body |-> body, at |-> "request", status |-> 0, verdict |-> "waiting"]
  <2>1. d \in CallType
    BY DEF CallType
  <2>2. Sent(d)
    BY <1>1, <2>1 DEF Sent, Call
  <2>3. calls' = Append(calls, d) /\ UNCHANGED <<nodes, buffer, drained, registered, process>>
    BY <1>1 DEF Call
  <2> HIDE DEF d
  <2> QED BY <2>2, <2>3 DEF Sends
<1>2. \A token \in Token : AuthOf(token) \in Headers
  <2> SUFFICES ASSUME NEW token \in Token PROVE AuthOf(token) \in Headers
    OBVIOUS
  <2>1. (IF token = NoToken THEN Absent ELSE token) \in Token \union {Absent} /\ NoToken \in Token
    BY DEF Token
  <2> QED BY <2>1 DEF AuthOf, Headers
<1>3. ASSUME NEW a \in Agent, NEW address \in Address, Join(a, address) PROVE Sends
  <2>1. AuthOf(AgentToken[a]) \in Headers
    BY <1>2, HubAssumption
  <2> QED BY <1>1, <1>3, <2>1 DEF Join
<1>4. ASSUME NEW a \in Agent, NEW event \in Event, Ingest(a, event) PROVE Sends
  <2>1. AuthOf(AgentToken[a]) \in Headers
    BY <1>2, HubAssumption
  <2> QED BY <1>1, <1>4, <2>1 DEF Ingest
<1>5. ASSUME NEW v \in Visitor, Visit(v) PROVE Sends
  <2>1. PICK visit \in Visits : Call(v, visit[1], visit[2], visit[3], Malformed)
    BY <1>5 DEF Visit
  <2>2. visit[1] \in {"join", "ingest", "nodes"} /\ visit[2] \in {"GET", "POST"}
        /\ visit[3] \in Headers
    BY HubAssumption
  <2>3. v \in Agent \union Visitor /\ Malformed \in Address \union Event \union {Malformed}
    OBVIOUS
  <2>4. PICK path \in {"join", "ingest", "nodes"}, method \in {"GET", "POST"},
             headers \in Headers : Call(v, path, method, headers, Malformed)
    BY <2>1, <2>2
  <2> QED BY <1>1, <2>3, <2>4, Zenon
<1>6. ASSUME NEW i \in 1..MaxCalls, Handle(i) \/ Lose(i) \/ Return(i) \/ GiveUp(i)
      PROVE  i \in DOMAIN calls /\ (Taken(i) \/ Passes(i))
  <2>1. i \in DOMAIN calls
    BY <1>6 DEF Handle, Serve, RegisterNode, StartListing, FinishListing, Lose, Return, GiveUp, At
  <2>2. /\ Typed
        /\ \A place \in {"request", "joining", "queued", "listing", "reply", "gone"} :
              \A status \in Nat : Move(i, place, status)
                => Changed(i, place, status, calls[i].verdict)
    BY <2>1, ChangeFacts DEF Inv
  <2> SUFFICES Taken(i) \/ Passes(i)
    BY <2>1
  <2>3. CASE Serve(i)
    <3> DEFINE c == calls[i]
               refusal == Refusal(c)
    <3>1. c.at = "request" /\ UNCHANGED <<nodes, drained, registered, process>>
      BY <2>3 DEF Serve, At
    <3>2. refusal \in Nat /\ (refusal # 0 => refusal \notin 200..299)
      BY DEF Refusal
    <3> HIDE DEF refusal, c
    <3>3. CASE refusal # 0 /\ Move(i, "reply", refusal) /\ UNCHANGED buffer
      <4>1. Changed(i, "reply", refusal, c.verdict)
        BY <2>2, <3>2, <3>3 DEF c
      <4> QED BY <3>1, <3>2, <3>3, <4>1 DEF Passes, c
    <3>4. CASE /\ refusal = 0 /\ c.path = "ingest"
               /\ Move(i, "reply", 202) /\ buffer' = Append(buffer, i)
      <4>1. Changed(i, "reply", 202, c.verdict)
        BY <2>2, <3>4 DEF c
      <4> QED BY <3>1, <3>4, <4>1 DEF Taken, Served, refusal, c
    <3>5. CASE Move(i, "reply", 503) /\ UNCHANGED buffer
      <4>1. Changed(i, "reply", 503, c.verdict) /\ 503 \in Nat \ (200..299)
        BY <2>2, <3>5 DEF c
      <4> QED BY <3>1, <3>5, <4>1 DEF Passes, c
    <3>6. CASE refusal = 0 /\ c.path = "join" /\ Move(i, "joining", 0) /\ UNCHANGED buffer
      <4>1. Changed(i, "joining", 0, c.verdict)
        BY <2>2, <3>6 DEF c
      <4> QED BY <3>1, <3>6, <4>1 DEF Passes, Served, refusal, c
    <3>7. CASE c.path = "nodes" /\ Move(i, "queued", 0) /\ UNCHANGED buffer
      <4>1. Changed(i, "queued", 0, c.verdict)
        BY <2>2, <3>7 DEF c
      <4> QED BY <3>1, <3>7, <4>1 DEF Passes, c
    <3> QED BY <2>3, <3>3, <3>4, <3>5, <3>6, <3>7 DEF Serve, refusal, c
  <2>4. CASE RegisterNode(i)
    <3>1. Changed(i, "reply", 200, calls[i].verdict)
      BY <2>2, <2>4 DEF RegisterNode
    <3>2. Served(calls[i]) /\ calls[i].path = "join"
      BY <2>1, <2>4 DEF RegisterNode, At, Inv, AnswersMatch, Matches
    <3> QED BY <2>4, <3>1, <3>2 DEF RegisterNode, At, Taken
  <2>5. CASE StartListing(i)
    <3>1. Changed(i, "listing", 0, calls[i].verdict)
      BY <2>2, <2>5 DEF StartListing
    <3> QED BY <2>5, <3>1 DEF StartListing, At, Passes
  <2>6. CASE FinishListing(i)
    <3>1. \/ Changed(i, "reply", 200, calls[i].verdict)
          \/ Changed(i, "gone", 0, calls[i].verdict)
      BY <2>2, <2>6 DEF FinishListing
    <3> QED BY <2>6, <3>1 DEF FinishListing, At, Passes
  <2>7. CASE Lose(i)
    <3>1. Changed(i, "gone", 0, calls[i].verdict)
      BY <2>2, <2>7 DEF Lose
    <3> QED BY <2>7, <3>1 DEF Lose, At, Passes
  <2>8. CASE Return(i)
    <3>1. Changed(i, "gone", 0, IF calls[i].status \in 200..299 THEN "ok" ELSE "refused")
      BY <2>1, <2>2, <2>8, ChangeFacts
    <3> QED BY <2>8, <3>1 DEF Return, At, Passes
  <2>9. CASE GiveUp(i)
    <3>1. Changed(i, calls[i].at, calls[i].status, "failed")
      BY <2>1, <2>2, <2>9, ChangeFacts
    <3> QED BY <2>9, <3>1 DEF GiveUp, Passes
  <2> QED BY <1>6, <2>3, <2>4, <2>5, <2>6, <2>7, <2>8, <2>9 DEF Handle
<1> QED BY <1>3, <1>4, <1>5, <1>6 DEF Next

\* Types, what a call keeps for good, and who may be waiting.
LEMMA KeptStep ==
  ASSUME Inv, [Next]_vars
  PROVE  Typed' /\ Kept /\ JoinsAreSensors' /\ OneAtATime'
<1> DEFINE Goal == Typed' /\ Kept /\ JoinsAreSensors' /\ OneAtATime'
<1>0. /\ Typed /\ JoinsAreSensors /\ OneAtATime
      /\ Len(calls) \in Nat /\ DOMAIN calls = 1..Len(calls)
      /\ \A i \in DOMAIN calls : calls[i] \in CallType
  BY DEF Inv, Typed
<1>1. ASSUME calls' \in Seq(CallType), DOMAIN calls' = DOMAIN calls,
             \A i \in DOMAIN calls :
               /\ Same(calls[i], calls'[i])
               /\ calls'[i].verdict = calls[i].verdict
                    \/ (calls[i].verdict = "waiting" /\ calls'[i].verdict # "waiting")
      PROVE  Kept /\ JoinsAreSensors' /\ OneAtATime'
  BY <1>0, <1>1 DEF Kept, Same, JoinsAreSensors, OneAtATime
<1>2. ASSUME NEW i \in DOMAIN calls, NEW place, NEW status, NEW verdict,
             Changed(i, place, status, verdict),
             verdict = calls[i].verdict \/ (calls[i].verdict = "waiting" /\ verdict # "waiting")
      PROVE  calls' \in Seq(CallType) /\ Kept /\ JoinsAreSensors' /\ OneAtATime'
  <2>1. \A j \in DOMAIN calls :
          /\ Same(calls[j], calls'[j])
          /\ calls'[j].verdict = calls[j].verdict
               \/ (calls[j].verdict = "waiting" /\ calls'[j].verdict # "waiting")
    BY <1>2 DEF Changed, Same
  <2>2. calls' \in Seq(CallType) /\ DOMAIN calls' = DOMAIN calls
    BY <1>2 DEF Changed
  <2> QED BY <1>1, <2>1, <2>2
<1>3. CASE Sends
  <2>1. PICK c : Sent(c) /\ calls' = Append(calls, c)
    BY <1>3 DEF Sends
  <2>2. /\ calls' \in Seq(CallType) /\ DOMAIN calls' = 1..(Len(calls) + 1)
        /\ \A i \in 1..Len(calls) : calls'[i] = calls[i]
        /\ calls'[Len(calls) + 1] = c
    BY <1>0, <2>1, AppendProperties DEF Sent, Typed
  <2>3. \A i \in DOMAIN calls' : i \in DOMAIN calls \/ i = Len(calls) + 1
    BY <1>0, <2>2
  <2>4. Kept
    BY <1>0, <2>2 DEF Kept, Same
  <2>5. JoinsAreSensors'
    BY <1>0, <2>1, <2>2, <2>3 DEF JoinsAreSensors, Sent
  <2>6. OneAtATime'
    BY <1>0, <2>1, <2>2, <2>3 DEF OneAtATime, Sent, Waiting
  <2>7. Typed'
    BY <1>0, <1>3, <2>2 DEF Typed, Sends, process
  <2> QED BY <2>4, <2>5, <2>6, <2>7
<1>4. ASSUME NEW i \in DOMAIN calls, Passes(i) PROVE Goal
  <2>1. PICK place, status, verdict :
          /\ Changed(i, place, status, verdict)
          /\ verdict = calls[i].verdict \/ (calls[i].verdict = "waiting" /\ verdict # "waiting")
    BY <1>4 DEF Passes
  <2> QED BY <1>0, <1>2, <1>4, <2>1 DEF Passes, Typed, process
<1>5. ASSUME NEW i \in DOMAIN calls, Taken(i) PROVE Goal
  <2>1. \/ Changed(i, "reply", 202, calls[i].verdict)
        \/ Changed(i, "reply", 200, calls[i].verdict)
    BY <1>5 DEF Taken
  <2>2. calls' \in Seq(CallType) /\ Kept /\ JoinsAreSensors' /\ OneAtATime'
    BY <1>2, <2>1
  <2>3. /\ buffer' \in Seq(Nat) /\ registered' \in Seq(Nat)
        /\ UNCHANGED <<drained, lost, restarts>>
    <3>1. /\ i \in Nat /\ Append(buffer, i) \in Seq(Nat) /\ Append(registered, i) \in Seq(Nat)
          /\ buffer \in Seq(Nat) /\ registered \in Seq(Nat)
      BY <1>0, Contents DEF Typed
    <3> QED BY <1>5, <3>1 DEF Taken, process
  <2>4. nodes' \in [Agent -> Address \union {NoAddress}]
    <3>1. calls[i].path = "join" => calls[i].by \in Agent /\ calls[i].body \in Address
      BY <1>0, <1>5 DEF Taken, JoinsAreSensors, Served, Refusal
    <3> QED BY <1>0, <1>5, <3>1 DEF Taken, Typed
  <2> QED BY <1>0, <2>2, <2>3, <2>4 DEF Typed
<1>6. CASE Drain
  <2>1. calls' = calls /\ drained' \in Seq(Nat) /\ buffer' \in Seq(Nat)
    BY <1>0, <1>6, Contents DEF Drain, Typed
  <2>2. \A j \in DOMAIN calls : Same(calls[j], calls'[j]) /\ calls'[j].verdict = calls[j].verdict
    BY <2>1 DEF Same
  <2>3. Kept /\ JoinsAreSensors' /\ OneAtATime'
    BY <1>0, <1>1, <2>1, <2>2 DEF Typed
  <2> QED BY <1>0, <1>6, <2>1, <2>3 DEF Drain, Typed, process
<1>7. CASE Restart
  <2> DEFINE Ended(c) == IF c.at \in {"joining", "queued", "listing"}
                         THEN [c EXCEPT !.at = "gone"] ELSE c
  <2>1. \A i \in DOMAIN calls : /\ Ended(calls[i]) \in CallType
                                /\ Same(calls[i], Ended(calls[i]))
                                /\ Ended(calls[i]).verdict = calls[i].verdict
    BY <1>0 DEF CallType, Same
  <2>2. calls' = [i \in 1..Len(calls) |-> Ended(calls[i])]
    BY <1>0, <1>7 DEF Restart
  <2> HIDE DEF Ended
  <2>3. /\ calls' \in Seq(CallType) /\ DOMAIN calls' = DOMAIN calls
        /\ \A i \in DOMAIN calls : calls'[i] = Ended(calls[i])
    BY <1>0, <2>1, <2>2
  <2>4. Kept /\ JoinsAreSensors' /\ OneAtATime'
    <3>1. \A i \in DOMAIN calls : Same(calls[i], calls'[i])
                                  /\ calls'[i].verdict = calls[i].verdict
      BY <2>1, <2>3
    <3> QED BY <1>1, <2>3, <3>1
  <2>5. lost \o buffer \in Seq(Nat) /\ (lost \o buffer) \o registered \in Seq(Nat)
    BY <1>0, Contents DEF Typed
  <2>6. lost' \in Seq(Nat) /\ buffer' = <<>> /\ registered' = <<>>
        /\ nodes' \in [Agent -> Address \union {NoAddress}] /\ drained' = drained
        /\ restarts' \in Nat
    BY <1>0, <1>7, <2>5 DEF Restart, Typed
  <2> QED BY <1>0, <2>3, <2>4, <2>6 DEF Typed
<1>8. CASE UNCHANGED vars
  <2>1. calls' = calls /\ Typed'
    BY <1>0, <1>8 DEF vars, Typed, process
  <2>2. \A j \in DOMAIN calls : Same(calls[j], calls'[j]) /\ calls'[j].verdict = calls[j].verdict
    BY <2>1 DEF Same
  <2> QED BY <1>0, <1>1, <2>1, <2>2 DEF Typed
<1> QED BY <1>3, <1>4, <1>5, <1>6, <1>7, <1>8, CallsStep

\* What the hub holds of the calls, and what it tells their callers.
LEMMA HeldStep ==
  ASSUME Inv, [Next]_vars
  PROVE  HeldOnce' /\ AnswersMatch' /\ HeldWasServed'
<1> DEFINE Goal == HeldOnce' /\ AnswersMatch' /\ HeldWasServed'
<1>0. /\ Typed /\ HeldOnce /\ AnswersMatch /\ HeldWasServed
      /\ Typed' /\ Kept
      /\ DOMAIN calls \subseteq Nat /\ DOMAIN calls' \subseteq Nat
      /\ \A i \in Nat : Held(i) \in BOOLEAN
  <2>1. Typed /\ Typed' /\ Kept
    BY KeptStep DEF Inv
  <2> QED BY <2>1 DEF Inv, Typed, Held, In
\* Where a step touches none of the four sequences, or only moves what is in them.
<1>1. ASSUME \A i \in Nat : Held(i)' <=> Held(i),
             \A i \in Nat : /\ In(registered, i)' => In(registered, i)
                            /\ (In(drained, i) \/ In(buffer, i))' => In(drained, i) \/ In(buffer, i),
             HeldOnce',
             \A i \in DOMAIN calls : Held(i) => calls'[i].at \in {"reply", "gone"}
      PROVE  HeldOnce' /\ HeldWasServed'
  <2> SUFFICES ASSUME NEW i \in Nat
               PROVE  /\ Held(i)' => /\ i \in DOMAIN calls' /\ Served(calls'[i])
                                     /\ calls'[i].at \in {"reply", "gone"}
                      /\ In(registered, i)' => calls'[i].path = "join"
                      /\ (In(drained, i) \/ In(buffer, i))' => calls'[i].path = "ingest"
    BY <1>1 DEF HeldWasServed
  <2>1. Held(i) => i \in DOMAIN calls /\ Served(calls[i])
    BY <1>0 DEF HeldWasServed
  <2>2. i \in DOMAIN calls => /\ i \in DOMAIN calls' /\ Same(calls[i], calls'[i])
                              /\ Served(calls[i]) => Served(calls'[i])
    BY <1>0 DEF Kept, Same, Served, Refusal
  <2>3. In(registered, i) \/ In(drained, i) \/ In(buffer, i) => Held(i)
    BY DEF Held
  <2> QED BY <1>0, <1>1, <2>1, <2>2, <2>3 DEF HeldWasServed, Same
<1>2. ASSUME UNCHANGED <<buffer, drained, registered, process>>
      PROVE  /\ HeldOnce'
             /\ \A i \in Nat : /\ Held(i)' <=> Held(i)
                               /\ In(registered, i)' => In(registered, i)
                               /\ (In(drained, i) \/ In(buffer, i))' => In(drained, i) \/ In(buffer, i)
  BY <1>0, <1>2 DEF HeldOnce, Held, process, In, Distinct, Apart
<1>3. CASE Sends
  <2>1. PICK c : Sent(c) /\ calls' = Append(calls, c)
    BY <1>3 DEF Sends
  <2>2. /\ DOMAIN calls' = 1..(Len(calls) + 1) /\ DOMAIN calls = 1..Len(calls) /\ Len(calls) \in Nat
        /\ \A i \in 1..Len(calls) : calls'[i] = calls[i]
        /\ calls'[Len(calls) + 1] = c
    BY <1>0, <2>1, AppendProperties DEF Sent, Typed
  <2>3. \A i \in Nat : Held(i)' <=> Held(i)
    BY <1>2, <1>3 DEF Sends
  <2>4. \A i \in DOMAIN calls : calls'[i] = calls[i]
    BY <2>2
  <2>5. HeldOnce' /\ HeldWasServed'
    BY <1>0, <1>1, <1>2, <1>3, <2>4 DEF Sends, HeldWasServed
  <2>6. AnswersMatch'
    <3> SUFFICES ASSUME NEW i \in DOMAIN calls' PROVE Matches(calls'[i], Held(i)')
      BY DEF AnswersMatch, Matches, Served, Refusal, Allowed
    <3>1. CASE i = Len(calls) + 1
      BY <2>1, <2>2, <3>1 DEF Sent, Matches
    <3>2. CASE i \in DOMAIN calls
      BY <1>0, <2>3, <2>4, <3>2 DEF AnswersMatch, Matches
    <3> QED BY <2>2, <3>1, <3>2
  <2> QED BY <2>5, <2>6
<1>4. ASSUME NEW i \in DOMAIN calls, Passes(i) PROVE Goal
  <2>1. /\ HeldOnce'
        /\ \A j \in Nat : /\ Held(j)' <=> Held(j)
                          /\ In(registered, j)' => In(registered, j)
                          /\ (In(drained, j) \/ In(buffer, j))' => In(drained, j) \/ In(buffer, j)
    BY <1>2, <1>4 DEF Passes
  <2>2. /\ DOMAIN calls' = DOMAIN calls /\ Same(calls[i], calls'[i])
        /\ \A j \in DOMAIN calls : j # i => calls'[j] = calls[j]
    BY <1>4 DEF Passes, Changed
  <2>3. Held(i) => calls[i].at \in {"reply", "gone"}
    BY <1>0 DEF HeldWasServed
  <2>4. Matches(calls[i], Held(i))
    BY <1>0 DEF AnswersMatch
  <2>5. (Held(i) => calls'[i].at \in {"reply", "gone"}) /\ Matches(calls'[i], Held(i))
    <3>1. Served(calls[i]) => Served(calls'[i])
      BY <2>2 DEF Served, Refusal, Same
    <3>2. calls[i].path = calls'[i].path
      BY <2>2 DEF Same
    <3>3. LET c == calls[i]
              d == calls'[i]
          IN  \/ /\ c.at = "request" /\ d.verdict = c.verdict
                 /\ \/ d.at = "reply" /\ d.status \notin 200..299
                    \/ Served(c) /\ c.path = "join" /\ d.at = "joining"
                    \/ c.path = "nodes" /\ d.at = "queued"
              \/ c.at = "queued" /\ d.at = "listing" /\ d.verdict = c.verdict
              \/ c.at = "listing" /\ d.at = "reply" /\ d.status = 200 /\ d.verdict = c.verdict
              \/ c.at \in {"listing", "request", "reply"} /\ d.at = "gone" /\ d.verdict = c.verdict
              \/ /\ c.at = "reply" /\ d.at = "gone"
                 /\ d.verdict = IF c.status \in 200..299 THEN "ok" ELSE "refused"
              \/ /\ c.verdict = "waiting" /\ d.verdict = "failed"
                 /\ d.at = c.at /\ d.status = c.status
      <4>1. \A place, status, verdict : Changed(i, place, status, verdict) =>
              calls'[i].at = place /\ calls'[i].status = status /\ calls'[i].verdict = verdict
        BY DEF Changed
      <4>2. (\E s \in Nat \ (200..299) : Changed(i, "reply", s, calls[i].verdict)) =>
              /\ calls'[i].at = "reply" /\ calls'[i].status \notin 200..299
              /\ calls'[i].verdict = calls[i].verdict
        BY <4>1
      <4> QED BY <1>4, <4>1, <4>2 DEF Passes
    <3> QED BY <2>3, <2>4, <3>1, <3>2, <3>3 DEF Matches
  <2>6. \A j \in DOMAIN calls : Held(j) => calls'[j].at \in {"reply", "gone"}
    BY <1>0, <2>2, <2>5 DEF HeldWasServed
  <2>7. HeldOnce' /\ HeldWasServed'
    BY <1>1, <2>1, <2>6
  <2>8. AnswersMatch'
    <3> SUFFICES ASSUME NEW j \in DOMAIN calls' PROVE Matches(calls'[j], Held(j)')
      BY DEF AnswersMatch, Matches, Served, Refusal, Allowed
    <3>1. CASE j = i
      BY <1>0, <2>1, <2>5, <3>1 DEF Matches
    <3>2. CASE j # i
      BY <1>0, <2>1, <2>2, <3>2 DEF AnswersMatch, Matches
    <3> QED BY <3>1, <3>2
  <2> QED BY <2>7, <2>8
<1>5. ASSUME NEW i \in DOMAIN calls, Taken(i) PROVE Goal
  <2>0. /\ i \in Nat /\ ~Held(i)
        /\ calls[i].at \in {"request", "joining"} /\ Served(calls[i])
    BY <1>0, <1>5 DEF Taken, HeldWasServed
  <2>1. /\ HeldOnce'
        /\ \A j \in Nat : Held(j)' <=> Held(j) \/ j = i
        /\ \A j \in Nat : In(registered, j)' =>
             In(registered, j) \/ (j = i /\ calls[i].path = "join")
        /\ \A j \in Nat : (In(drained, j) \/ In(buffer, j))' =>
             In(drained, j) \/ In(buffer, j) \/ (j = i /\ calls[i].path = "ingest")
    <3>1. UNCHANGED <<drained, lost>>
      BY <1>5 DEF Taken, process
    <3>2. CASE /\ calls[i].path = "ingest" /\ buffer' = Append(buffer, i)
               /\ UNCHANGED registered
      <4>1. /\ \A j \in Nat : In(buffer, j)' <=> In(buffer, j) \/ j = i
            /\ ~In(buffer, i) /\ Distinct(buffer) => Distinct(buffer')
        <5>1. /\ \A j \in Nat : In(buffer', j) <=> In(buffer, j) \/ j = i
              /\ ~In(buffer, i) /\ Distinct(buffer) => Distinct(buffer')
          BY <1>0, <2>0, <3>2, Contents DEF Typed
        <5> QED BY <5>1 DEF In
      <4>2. \A j \in Nat : /\ In(drained, j)' <=> In(drained, j)
                           /\ In(lost, j)' <=> In(lost, j)
                           /\ In(registered, j)' <=> In(registered, j)
        BY <3>1, <3>2 DEF In
      <4>3. HeldOnce'
        BY <1>0, <2>0, <3>1, <3>2, <4>1, <4>2 DEF HeldOnce, Apart, Held, Distinct
      <4> QED BY <3>2, <4>1, <4>2, <4>3 DEF Held
    <3>3. CASE /\ calls[i].path = "join" /\ registered' = Append(registered, i)
               /\ UNCHANGED buffer
      <4>1. /\ \A j \in Nat : In(registered, j)' <=> In(registered, j) \/ j = i
            /\ ~In(registered, i) /\ Distinct(registered) => Distinct(registered')
        <5>1. /\ \A j \in Nat : In(registered', j) <=> In(registered, j) \/ j = i
              /\ ~In(registered, i) /\ Distinct(registered) => Distinct(registered')
          BY <1>0, <2>0, <3>3, Contents DEF Typed
        <5> QED BY <5>1 DEF In
      <4>2. \A j \in Nat : /\ In(drained, j)' <=> In(drained, j)
                           /\ In(lost, j)' <=> In(lost, j)
                           /\ In(buffer, j)' <=> In(buffer, j)
        BY <3>1, <3>3 DEF In
      <4>3. HeldOnce'
        BY <1>0, <2>0, <3>1, <3>3, <4>1, <4>2 DEF HeldOnce, Apart, Held, Distinct
      <4> QED BY <3>3, <4>1, <4>2, <4>3 DEF Held
    <3> QED BY <1>5, <3>2, <3>3 DEF Taken
  <2>2. /\ DOMAIN calls' = DOMAIN calls /\ Same(calls[i], calls'[i])
        /\ \A j \in DOMAIN calls : j # i => calls'[j] = calls[j]
        /\ calls'[i].at = "reply" /\ calls'[i].status \in 200..299
        /\ calls'[i].verdict = calls[i].verdict
    BY <1>5 DEF Taken, Changed
  <2>3. Served(calls'[i])
    BY <2>0, <2>2 DEF Served, Refusal, Same
  <2>4. HeldWasServed'
    <3> SUFFICES ASSUME NEW j \in Nat
                 PROVE  /\ Held(j)' => /\ j \in DOMAIN calls' /\ Served(calls'[j])
                                       /\ calls'[j].at \in {"reply", "gone"}
                        /\ In(registered, j)' => calls'[j].path = "join"
                        /\ (In(drained, j) \/ In(buffer, j))' => calls'[j].path = "ingest"
      BY DEF HeldWasServed, Served, Refusal, Allowed
    <3>1. CASE j = i
      BY <2>0, <2>1, <2>2, <2>3, <3>1 DEF Same, Held
    <3>2. CASE j # i
      <4>1. In(registered, j) \/ In(drained, j) \/ In(buffer, j) => Held(j)
        BY DEF Held
      <4> QED BY <1>0, <2>1, <2>2, <3>2, <4>1 DEF HeldWasServed
    <3> QED BY <3>1, <3>2
  <2>5. AnswersMatch'
    <3> SUFFICES ASSUME NEW j \in DOMAIN calls' PROVE Matches(calls'[j], Held(j)')
      BY DEF AnswersMatch, Matches, Served, Refusal, Allowed
    <3>1. CASE j = i
      <4>1. Matches(calls[i], Held(i)) /\ Held(i)'
        BY <1>0, <2>0, <2>1 DEF AnswersMatch
      <4> QED BY <2>0, <2>2, <3>1, <4>1 DEF Matches
    <3>2. CASE j # i
      BY <1>0, <2>1, <2>2, <3>2 DEF AnswersMatch, Matches
    <3> QED BY <3>1, <3>2
  <2> QED BY <2>1, <2>4, <2>5
<1>6. CASE Drain
  <2> DEFINE h == Head(buffer)
  <2>1. UNCHANGED <<calls, registered, lost>> /\ drained' = Append(drained, h) /\ buffer' = Tail(buffer)
    BY <1>6 DEF Drain, process
  <2>2. /\ h \in Nat
        /\ \A j \in Nat : In(buffer, j) <=> j = h \/ In(buffer', j)
        /\ Distinct(buffer) => Distinct(buffer') /\ ~In(buffer', h)
    BY <1>0, <1>6, <2>1, Contents DEF Drain, Typed
  <2> HIDE DEF h
  <2>3. /\ \A j \in Nat : In(drained', j) <=> In(drained, j) \/ j = h
        /\ ~In(drained, h) /\ Distinct(drained) => Distinct(drained')
    BY <1>0, <2>1, <2>2, Contents DEF Typed
  <2>4. \A j \in Nat : (In(buffer, j)' <=> In(buffer', j)) /\ (In(drained, j)' <=> In(drained', j))
    BY DEF In
  <2>5. \A j \in Nat : (In(lost, j)' <=> In(lost, j)) /\ (In(registered, j)' <=> In(registered, j))
    BY <2>1 DEF In
  <2>6. HeldOnce'
    BY <1>0, <2>1, <2>2, <2>3, <2>5, <2>4 DEF HeldOnce, Apart, Distinct
  <2>7. \A j \in Nat : /\ Held(j)' <=> Held(j)
                       /\ In(registered, j)' => In(registered, j)
                       /\ (In(drained, j) \/ In(buffer, j))' => In(drained, j) \/ In(buffer, j)
    BY <2>2, <2>3, <2>5, <2>4 DEF Held
  <2>8. HeldOnce' /\ HeldWasServed'
    BY <1>0, <1>1, <2>1, <2>6, <2>7 DEF HeldWasServed
  <2>9. AnswersMatch'
    BY <1>0, <2>1, <2>7 DEF AnswersMatch, Matches
  <2> QED BY <2>8, <2>9
<1>7. CASE Restart
  <2>1. /\ lost' = (lost \o buffer) \o registered /\ buffer' = <<>> /\ registered' = <<>>
        /\ drained' = drained
    BY <1>0, <1>7 DEF Restart, Typed
  <2>2. /\ lost \o buffer \in Seq(Nat)
        /\ \A j \in Nat : In(lost \o buffer, j) <=> In(lost, j) \/ In(buffer, j)
        /\ Distinct(lost \o buffer)
    <3>1. Apart(lost, buffer)
      BY <1>0 DEF HeldOnce, Apart
    <3> QED BY <1>0, <3>1, Contents DEF Typed, HeldOnce
  <2>3. /\ \A j \in Nat : In(lost', j) <=> In(lost, j) \/ In(buffer, j) \/ In(registered, j)
        /\ Distinct(lost')
    <3>1. Apart(lost \o buffer, registered)
      BY <1>0, <2>2 DEF HeldOnce, Apart
    <3> QED BY <1>0, <2>1, <2>2, <3>1, Contents DEF Typed, HeldOnce
  <2>4. \A j \in Nat : /\ In(drained, j)' <=> In(drained, j)
                       /\ In(lost, j)' <=> In(lost', j)
                       /\ ~In(buffer, j)' /\ ~In(registered, j)'
    BY <2>1 DEF In
  <2>5. HeldOnce'
    BY <1>0, <2>1, <2>3, <2>4 DEF HeldOnce, Apart, Distinct
  <2>6. \A j \in Nat : /\ Held(j)' <=> Held(j)
                       /\ In(registered, j)' => In(registered, j)
                       /\ (In(drained, j) \/ In(buffer, j))' => In(drained, j) \/ In(buffer, j)
    BY <2>3, <2>4 DEF Held
  <2>7. /\ DOMAIN calls' = DOMAIN calls
        /\ \A j \in DOMAIN calls :
             /\ calls'[j].status = calls[j].status /\ calls'[j].verdict = calls[j].verdict
             /\ Same(calls[j], calls'[j])
             /\ calls'[j].at = IF calls[j].at \in {"joining", "queued", "listing"}
                               THEN "gone" ELSE calls[j].at
    <3> SUFFICES ASSUME NEW j \in DOMAIN calls
                 PROVE  /\ calls'[j].status = calls[j].status
                        /\ calls'[j].verdict = calls[j].verdict
                        /\ Same(calls[j], calls'[j])
                        /\ calls'[j].at = IF calls[j].at \in {"joining", "queued", "listing"}
                                          THEN "gone" ELSE calls[j].at
      BY <1>7 DEF Restart
    <3>1. calls[j] \in CallType
      BY <1>0 DEF Typed
    <3>2. calls'[j] = IF calls[j].at \in {"joining", "queued", "listing"}
                      THEN [calls[j] EXCEPT !.at = "gone"] ELSE calls[j]
      BY <1>7 DEF Restart
    <3> QED BY <3>1, <3>2 DEF CallType, Same
  <2>8. HeldOnce' /\ HeldWasServed'
    BY <1>0, <1>1, <2>5, <2>6, <2>7 DEF HeldWasServed
  <2>9. AnswersMatch'
    <3> SUFFICES ASSUME NEW j \in DOMAIN calls' PROVE Matches(calls'[j], Held(j)')
      BY DEF AnswersMatch, Matches, Served, Refusal, Allowed
    <3>1. Matches(calls[j], Held(j)) /\ (Held(j)' <=> Held(j))
      BY <1>0, <2>6, <2>7 DEF AnswersMatch
    <3> QED BY <2>7, <3>1 DEF Matches, Same
  <2> QED BY <2>8, <2>9
<1>8. CASE UNCHANGED vars
  <2>1. UNCHANGED <<calls, buffer, drained, registered, process>>
    BY <1>8 DEF vars
  <2>2. /\ HeldOnce'
        /\ \A j \in Nat : /\ Held(j)' <=> Held(j)
                          /\ In(registered, j)' => In(registered, j)
                          /\ (In(drained, j) \/ In(buffer, j))' => In(drained, j) \/ In(buffer, j)
    BY <1>2, <2>1
  <2>3. HeldWasServed'
    BY <1>0, <1>1, <2>1, <2>2 DEF HeldWasServed
  <2>4. AnswersMatch'
    BY <1>0, <2>1, <2>2 DEF AnswersMatch, Matches
  <2> QED BY <2>2, <2>3, <2>4
<1> QED BY <1>3, <1>4, <1>5, <1>6, <1>7, <1>8, CallsStep

\* The map of nodes and the order of the joins.
LEMMA NodesStep ==
  ASSUME Inv, [Next]_vars
  PROVE  NodesHoldTheLast' /\ OvertakenWasGivenUp'
<1>0. /\ Typed /\ HeldWasServed /\ NodesHoldTheLast /\ OvertakenWasGivenUp
      /\ OneAtATime /\ AnswersMatch /\ JoinsAreSensors /\ Kept
      /\ registered \in Seq(Nat) /\ Len(registered) \in Nat
      /\ DOMAIN registered = 1..Len(registered)
      /\ DOMAIN calls \subseteq Nat
      /\ \A i \in DOMAIN calls : calls[i] \in CallType
  BY KeptStep DEF Inv, Typed
<1>1. \A n \in DOMAIN registered : registered[n] \in Nat /\ registered[n] \in DOMAIN calls
  BY <1>0 DEF HeldWasServed, Held, In
<1>2. \A n \in DOMAIN registered :
        /\ calls'[registered[n]].by = calls[registered[n]].by
        /\ calls'[registered[n]].body = calls[registered[n]].body
        /\ calls[registered[n]].verdict = "failed" => calls'[registered[n]].verdict = "failed"
  BY <1>0, <1>1 DEF Kept, Same
<1>3. ASSUME UNCHANGED <<nodes, registered>>
      PROVE  NodesHoldTheLast' /\ OvertakenWasGivenUp'
  <2>1. NodesHoldTheLast'
    BY <1>0, <1>2, <1>3 DEF NodesHoldTheLast
  <2>2. OvertakenWasGivenUp'
    BY <1>0, <1>2, <1>3 DEF OvertakenWasGivenUp
  <2> QED BY <2>1, <2>2
<1>4. ASSUME Restart PROVE NodesHoldTheLast' /\ OvertakenWasGivenUp'
  BY <1>4 DEF Restart, NodesHoldTheLast, OvertakenWasGivenUp
<1>5. ASSUME NEW i \in DOMAIN calls, Taken(i), registered' # registered
      PROVE  NodesHoldTheLast' /\ OvertakenWasGivenUp'
  <2> DEFINE new == Len(registered) + 1
  <2>1. /\ Served(calls[i]) /\ calls[i].path = "join" /\ calls[i].at = "joining"
        /\ registered' = Append(registered, i)
        /\ nodes' = [nodes EXCEPT ![calls[i].by] = calls[i].body]
    BY <1>5 DEF Taken
  <2>2. calls[i].by \in Agent /\ i \in Nat
    BY <1>0, <2>1 DEF JoinsAreSensors, Served, Refusal
  <2>3. /\ DOMAIN registered' = DOMAIN registered \union {new} /\ new \in Nat
        /\ registered'[new] = i
        /\ \A n \in DOMAIN registered : n < new /\ n \in Nat /\ registered'[n] = registered[n]
    BY <1>0, <2>1, <2>2, AppendProperties
  <2>4. calls'[i].by = calls[i].by /\ calls'[i].body = calls[i].body
    BY <1>0 DEF Kept, Same
  <2> HIDE DEF new
  <2>5. NodesHoldTheLast'
    <3> SUFFICES ASSUME NEW a \in Agent
                 PROVE  \/ /\ nodes'[a] = NoAddress
                           /\ \A n \in DOMAIN registered' : calls'[registered'[n]].by # a
                        \/ \E n \in DOMAIN registered' :
                             /\ calls'[registered'[n]].by = a
                             /\ nodes'[a] = calls'[registered'[n]].body
                             /\ \A k \in DOMAIN registered' :
                                  k > n => calls'[registered'[k]].by # a
      BY DEF NodesHoldTheLast
    <3>1. CASE a = calls[i].by
      <4>1. nodes'[a] = calls[i].body
        BY <1>0, <2>1, <2>2, <3>1 DEF Typed
      <4>2. \A k \in DOMAIN registered' : ~(k > new)
        BY <2>3
      <4> QED BY <2>3, <2>4, <3>1, <4>1, <4>2
    <3>2. CASE a # calls[i].by
      <4>1. nodes'[a] = nodes[a]
        BY <1>0, <2>1, <3>2 DEF Typed
      <4>2. CASE /\ nodes[a] = NoAddress
                 /\ \A n \in DOMAIN registered : calls[registered[n]].by # a
        BY <1>2, <2>3, <2>4, <3>2, <4>1, <4>2
      <4>3. ASSUME NEW n \in DOMAIN registered,
                   calls[registered[n]].by = a, nodes[a] = calls[registered[n]].body,
                   \A k \in DOMAIN registered : k > n => calls[registered[k]].by # a
            PROVE  /\ calls'[registered'[n]].by = a
                   /\ nodes'[a] = calls'[registered'[n]].body
                   /\ \A k \in DOMAIN registered' : k > n => calls'[registered'[k]].by # a
        BY <1>2, <2>3, <2>4, <3>2, <4>1, <4>3
      <4> QED BY <1>0, <2>3, <4>2, <4>3 DEF NodesHoldTheLast
    <3> QED BY <3>1, <3>2
  <2>6. OvertakenWasGivenUp'
    <3> SUFFICES ASSUME NEW k \in DOMAIN registered', NEW n \in DOMAIN registered', k < n,
                        calls'[registered'[k]].by = calls'[registered'[n]].by,
                        registered'[n] < registered'[k]
                 PROVE  calls'[registered'[n]].verdict = "failed"
      BY DEF OvertakenWasGivenUp
    <3>1. k \in DOMAIN registered
      BY <2>3
    <3>2. CASE n \in DOMAIN registered
      BY <1>0, <1>2, <2>3, <3>1, <3>2 DEF OvertakenWasGivenUp
    <3>3. CASE n = new
      <4>1. /\ registered[k] \in DOMAIN calls /\ i < registered[k]
            /\ calls[registered[k]].by = calls[i].by
        BY <1>1, <1>2, <2>3, <2>4, <3>1, <3>3
      <4>2. calls[i].verdict # "waiting"
        BY <1>0, <4>1 DEF OneAtATime
      <4>3. calls[i].verdict = "failed"
        <5>1. calls[i].verdict \in {"waiting", "ok", "refused", "failed"}
          BY <1>0 DEF CallType
        <5> QED BY <1>0, <2>1, <4>2, <5>1 DEF AnswersMatch, Matches
      <4> QED BY <1>0, <2>3, <3>3, <4>3 DEF Kept
    <3> QED BY <2>3, <3>2, <3>3
  <2> QED BY <2>5, <2>6
<1>6. CASE Sends \/ Drain \/ UNCHANGED vars
  BY <1>3, <1>6 DEF Sends, Drain, vars
<1>7. ASSUME NEW i \in DOMAIN calls, Passes(i) PROVE NodesHoldTheLast' /\ OvertakenWasGivenUp'
  BY <1>3, <1>7 DEF Passes
<1>8. ASSUME NEW i \in DOMAIN calls, Taken(i) PROVE NodesHoldTheLast' /\ OvertakenWasGivenUp'
  <2>1. CASE registered' # registered
    BY <1>5, <1>8, <2>1
  <2>2. CASE registered' = registered
    <3>1. registered # Append(registered, i)
      <4>1. i \in Nat
        BY <1>0
      <4>2. Len(Append(registered, i)) = Len(registered) + 1
        BY <1>0, <4>1, AppendProperties
      <4>3. Len(registered) + 1 # Len(registered)
        <5>1. \A n \in Nat : n + 1 # n
          OBVIOUS
        <5> QED BY <1>0, <5>1, Zenon
      <4> QED BY <4>2, <4>3, Zenon
    <3> QED BY <1>3, <1>8, <2>2, <3>1 DEF Taken
  <2> QED BY <2>1, <2>2
<1> QED BY <1>4, <1>6, <1>7, <1>8, CallsStep

LEMMA Inductive ==
  /\ Init => Inv
  /\ Inv /\ [Next]_vars => Inv'
<1>1. ASSUME Init PROVE Inv
  <2>1. calls \in Seq(CallType) /\ DOMAIN calls = {} /\ DOMAIN registered = {}
        /\ Distinct(<<>>) /\ <<>> \in Seq(Nat) /\ \A i \in Nat : ~In(<<>>, i)
    BY <1>1, EmptySeq DEF Init, Distinct, In
  <2>2. Typed
    BY <1>1, <2>1 DEF Init, Typed
  <2>3. HeldOnce /\ HeldWasServed
    BY <1>1, <2>1 DEF Init, process, HeldOnce, Apart, HeldWasServed, Held
  <2>4. JoinsAreSensors /\ AnswersMatch /\ OneAtATime /\ NodesHoldTheLast /\ OvertakenWasGivenUp
    BY <1>1, <2>1 DEF Init, JoinsAreSensors, AnswersMatch, OneAtATime, NodesHoldTheLast,
                      OvertakenWasGivenUp
  <2> QED BY <2>2, <2>3, <2>4 DEF Inv
<1>2. ASSUME Inv, [Next]_vars PROVE Inv'
  BY <1>2, KeptStep, HeldStep, NodesStep DEF Inv
<1> QED BY <1>1, <1>2

\* Whatever the network loses and however often the hub is replaced: an event whose
\* Ingest returned nil has reached the hub exactly once, a refused one never, and
\* nothing without the hub's token has (agent.go:80-88, node.go:201-231).
THEOREM IngestAnswersTrue == Spec => []IngestIsTruthful
<1>1. Inv => IngestIsTruthful
  <2> SUFFICES ASSUME Inv PROVE IngestIsTruthful
    OBVIOUS
  <2> DEFINE arrived == drained \o buffer \o lost
             places(i) == {k \in DOMAIN arrived : arrived[k] = i}
             times(i) == Cardinality(places(i))
  <2>1. Typed /\ HeldOnce /\ AnswersMatch /\ HeldWasServed /\ DOMAIN calls \subseteq Nat
    BY DEF Inv, Typed
  <2>2. /\ Distinct(arrived)
        /\ \A i \in Nat : In(arrived, i) <=> In(drained, i) \/ In(buffer, i) \/ In(lost, i)
    <3>1. /\ drained \o buffer \in Seq(Nat) /\ Distinct(drained \o buffer)
          /\ \A i \in Nat : In(drained \o buffer, i) <=> In(drained, i) \/ In(buffer, i)
      BY <2>1, Contents DEF Typed, HeldOnce
    <3>2. Apart(drained \o buffer, lost)
      BY <2>1, <3>1 DEF HeldOnce, Apart
    <3> QED BY <2>1, <3>1, <3>2, Contents DEF Typed, HeldOnce
  <2> HIDE DEF arrived
  <2>3. \A i \in Nat : times(i) = IF In(arrived, i) THEN 1 ELSE 0
    <3> SUFFICES ASSUME NEW i \in Nat PROVE times(i) = IF In(arrived, i) THEN 1 ELSE 0
      OBVIOUS
    <3>1. CASE In(arrived, i)
      <4>1. PICK k \in DOMAIN arrived : arrived[k] = i
        BY <3>1 DEF In
      <4>2. places(i) = {k}
        BY <2>2, <4>1 DEF Distinct
      <4> QED BY <3>1, <4>2, FS_Singleton
    <3>2. CASE ~In(arrived, i)
      <4>1. places(i) = {}
        BY <3>2 DEF In
      <4> QED BY <3>2, <4>1, FS_EmptySet
    <3> QED BY <3>1, <3>2
  <2>4. \A i \in DOMAIN calls :
          /\ calls[i].verdict = "ok" /\ calls[i].path = "ingest" => In(arrived, i)
          /\ calls[i].verdict = "refused" => ~In(arrived, i)
          /\ In(arrived, i) => HubToken \in {NoToken, ExtractToken(calls[i].headers)}
    <3> SUFFICES ASSUME NEW i \in DOMAIN calls
                 PROVE  /\ calls[i].verdict = "ok" /\ calls[i].path = "ingest" => In(arrived, i)
                        /\ calls[i].verdict = "refused" => ~In(arrived, i)
                        /\ In(arrived, i) => HubToken \in {NoToken, ExtractToken(calls[i].headers)}
      OBVIOUS
    <3>1. /\ Matches(calls[i], Held(i)) /\ i \in Nat
          /\ Held(i) <=> In(arrived, i) \/ In(registered, i)
          /\ In(registered, i) => calls[i].path = "join"
          /\ Held(i) => Served(calls[i])
      BY <2>1, <2>2 DEF AnswersMatch, HeldWasServed, Held
    <3>2. Served(calls[i]) => HubToken \in {NoToken, ExtractToken(calls[i].headers)}
      BY DEF Served, Refusal, Allowed
    <3> QED BY <3>1, <3>2 DEF Matches
  <2> HIDE DEF times
  <2>5. \A i \in DOMAIN calls :
          /\ calls[i].verdict = "ok" /\ calls[i].path = "ingest" => times(i) = 1
          /\ calls[i].verdict = "refused" => times(i) = 0
          /\ times(i) > 0 => HubToken \in {NoToken, ExtractToken(calls[i].headers)}
    BY <2>1, <2>3, <2>4
  <2> QED BY <2>5 DEF IngestIsTruthful, times, arrived
<1> QED BY <1>1, Inductive, PTL DEF Spec

\* However the hub's goroutines pass one another: the address listed for a sensor is
\* that of its last confirmed join or of a later one, unless a join it had given up
\* ran over it, or a new process has not heard of the sensor (node.go:161-171).
THEOREM JoinsStand == Spec => []JoinStands
<1>1. Inv => JoinStands
  <2> SUFFICES ASSUME Inv, NEW i \in DOMAIN calls,
                      calls[i].verdict = "ok", calls[i].path = "join"
               PROVE  \/ i \in Range(lost)
                         /\ nodes[calls[i].by] \in
                              {NoAddress} \union {calls[j].body : j \in Range(registered)}
                      \/ \E j \in DOMAIN calls :
                           /\ calls[j].by = calls[i].by /\ calls[j].path = "join"
                           /\ j >= i /\ nodes[calls[i].by] = calls[j].body
                      \/ \E j \in DOMAIN calls :
                           /\ calls[j].by = calls[i].by /\ calls[j].path = "join"
                           /\ calls[j].verdict = "failed" /\ nodes[calls[i].by] = calls[j].body
                           /\ \E m, n \in DOMAIN registered :
                                m < n /\ registered[m] = i /\ registered[n] = j
    BY DEF JoinStands
  <2> DEFINE a == calls[i].by
  <2>1. /\ Typed /\ JoinsAreSensors /\ AnswersMatch /\ HeldWasServed
        /\ NodesHoldTheLast /\ OvertakenWasGivenUp
        /\ DOMAIN calls \subseteq Nat /\ i \in Nat
        /\ DOMAIN registered \subseteq Nat
        /\ \A n \in DOMAIN registered : registered[n] \in Nat
    BY DEF Inv, Typed
  <2>2. Held(i) /\ Served(calls[i])
    <3>1. Matches(calls[i], Held(i))
      BY <2>1 DEF AnswersMatch
    <3>2. Held(i)
      BY <3>1 DEF Matches
    <3> QED BY <2>1, <3>2 DEF HeldWasServed
  <2>3. a \in Agent
    BY <2>1, <2>2 DEF JoinsAreSensors, Served, Refusal
  <2>4. In(lost, i) \/ In(registered, i)
    BY <2>1, <2>2 DEF HeldWasServed, Held
  <2>5. \A n \in DOMAIN registered :
          registered[n] \in DOMAIN calls /\ calls[registered[n]].path = "join"
    BY <2>1 DEF HeldWasServed, Held, In
  <2>6. CASE In(lost, i)
    <3>1. i \in Range(lost) /\ \A n \in DOMAIN registered : registered[n] \in Range(registered)
      BY <2>6 DEF In, Range
    <3>2. nodes[a] \in {NoAddress} \union {calls[j].body : j \in Range(registered)}
      BY <2>1, <2>3, <3>1 DEF NodesHoldTheLast
    <3> QED BY <3>1, <3>2
  <2>7. CASE In(registered, i)
    <3>1. PICK m \in DOMAIN registered : registered[m] = i
      BY <2>7 DEF In
    <3>2. PICK n \in DOMAIN registered :
            /\ calls[registered[n]].by = a /\ nodes[a] = calls[registered[n]].body
            /\ \A k \in DOMAIN registered : k > n => calls[registered[k]].by # a
      BY <2>1, <2>3, <3>1 DEF NodesHoldTheLast
    <3>3. m = n \/ m < n
      BY <2>1, <3>1, <3>2
    <3>4. CASE registered[n] >= i
      BY <2>5, <3>2, <3>4
    <3>5. CASE registered[n] < i
      <4>1. m < n
        BY <2>1, <3>1, <3>3, <3>5
      <4>2. calls[registered[n]].verdict = "failed"
        BY <2>1, <3>1, <3>2, <3>5, <4>1 DEF OvertakenWasGivenUp
      <4> QED BY <2>5, <3>1, <3>2, <4>1, <4>2
    <3> QED BY <2>1, <3>4, <3>5
  <2> QED BY <2>4, <2>6, <2>7
<1> QED BY <1>1, Inductive, PTL DEF Spec
=============================================================================
