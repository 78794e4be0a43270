----------------------------- MODULE ClusterHub -----------------------------
(***************************************************************************)
(* The cluster: sensors (internal/cluster/agent.go) that post to a central *)
(* hub (internal/cluster/node.go, cmd/shinkiro/cluster_kernel.go) over     *)
(* HTTP.  A call is one entry of `calls`, kept when it is over: `at` is    *)
(* where it is between sensor and hub, `verdict` what its caller was told. *)
(* A sensor makes one call after the other and tries nothing twice.        *)
(*                                                                         *)
(* The hub serves each request on a goroutine of its own.  Joins write the *)
(* map of nodes under a lock; a listing of the nodes keeps the lock while  *)
(* it writes its answer to the peer.  Nodes and events live in the memory  *)
(* of the hub's process, which may be replaced by a new one.  TLS, the wording of the answers and  *)
(* /healthz and /readyz, which read constants, are left out, as is what    *)
(* json.Decode makes of a body: it decodes, or it is Malformed.            *)
(***************************************************************************)
EXTENDS Integers, Sequences, FiniteSets, SequencesExt

CONSTANTS
  Agent, Visitor,     \* sensors; other HTTP clients
  Address, Event,
  Secret, NoToken,    \* tokens, and the empty one
  Absent,             \* no Authorization header with the Bearer scheme
  HubToken,           \* of the hub; NoToken: insecure lab mode
  AgentToken,         \* Agent -> token
  Visits,             \* what visitors send: path, method, headers
  Malformed,          \* a body the handler refuses
  NoAddress,          \* of a node that is not registered
  BufferCap,          \* capacity of the channel of events: 500
  Drained,            \* TRUE: something receives from it
  MaxCalls,           \* bound on the calls of a behaviour
  MaxRestarts         \* bound on the restarts of the hub

Token == Secret \union {NoToken}
Headers == [bearer : Token \union {Absent}, xToken : Token]

ASSUME HubAssumption ==
  /\ NoToken \notin Secret /\ Absent \notin Token
  /\ HubToken \in Token /\ AgentToken \in [Agent -> Token]
  /\ Visits \subseteq {"join", "ingest", "nodes"} \X {"GET", "POST"} \X Headers
  /\ Agent \intersect Visitor = {} /\ NoAddress \notin Address
  /\ BufferCap \in Nat /\ Drained \in BOOLEAN /\ MaxCalls \in Nat
  /\ MaxRestarts \in Nat

VARIABLES
  calls,      \* every call made, in the order they were made
  nodes,      \* Hub.nodes: Agent -> Address, or NoAddress
  buffer,     \* Hub.events: the calls whose events it holds
  drained,    \* history: the calls whose events were received from it
  restarts,   \* how often the hub's process was replaced
  registered, \* history: the joins in the order RegisterNode ran them in this process
  lost        \* history: the joins and events that went with a process

process == <<restarts, lost>>
vars == <<calls, nodes, buffer, drained, registered, process>>

Waiting(c) == \E i \in DOMAIN calls : calls[i].by = c /\ calls[i].verdict = "waiting"
At(i, place) == i \in DOMAIN calls /\ calls[i].at = place
Reading == {i \in DOMAIN calls : calls[i].at = "listing"}

-----------------------------------------------------------------------------
\* setAuth.
AuthOf(token) == [bearer |-> IF token = NoToken THEN Absent ELSE token, xToken |-> NoToken]

\* extractToken: a bearer token is preferred, be it an empty one.
ExtractToken(h) == IF h.bearer # Absent THEN h.bearer ELSE h.xToken

\* RequireToken.
Allowed(h) ==
  \/ HubToken = NoToken
  \/ ExtractToken(h) # NoToken /\ ExtractToken(h) = HubToken

Method(path) == IF path = "nodes" THEN "GET" ELSE "POST"

\* What a handler answers before it touches the hub, or 0.
Refusal(c) ==
  IF ~Allowed(c.headers) THEN 401
  ELSE IF c.method # Method(c.path) THEN 405
  ELSE IF c.path # "nodes" /\ c.body = Malformed THEN 400
  ELSE 0

-----------------------------------------------------------------------------
Init ==
  /\ calls = <<>>
  /\ nodes = [a \in Agent |-> NoAddress]
  /\ buffer = <<>> /\ drained = <<>> /\ registered = <<>>
  /\ restarts = 0 /\ lost = <<>>

Call(c, path, method, headers, body) ==
  /\ ~Waiting(c) /\ Len(calls) < MaxCalls
  /\ calls' = Append(calls, [by |-> c, path |-> path, method |-> method,
                             headers |-> headers, body |-> body, at |-> "request",
                             status |-> 0, verdict |-> "waiting"])
  /\ UNCHANGED <<nodes, buffer, drained, registered, process>>

\* AgentClient.Join, under the sensor's own name.
Join(a, address) == Call(a, "join", "POST", AuthOf(AgentToken[a]), address)

\* AgentClient.Ingest.
Ingest(a, event) == Call(a, "ingest", "POST", AuthOf(AgentToken[a]), event)

\* Any other client: lists the nodes, or gets method, body or token wrong.
Visit(v) ==
  \E visit \in Visits : Call(v, visit[1], visit[2], visit[3], Malformed)

\* What the hub makes of call i: where it goes next, with which answer.
Move(i, place, status) ==
  calls' = [calls EXCEPT ![i].at = place, ![i].status = status]

Serve_SendsAnyway(i) ==
  LET c == calls[i]
      refusal == Refusal(c)
  IN  /\ At(i, "request")
      /\ IF refusal # 0 THEN Move(i, "reply", refusal) /\ UNCHANGED buffer
         ELSE IF c.path = "ingest" THEN
           /\ Move(i, "reply", 202)
           /\ buffer' = IF Len(buffer) < BufferCap THEN Append(buffer, i) ELSE buffer
         ELSE Move(i, IF c.path = "join" THEN "joining" ELSE "queued", 0)
              /\ UNCHANGED buffer
      /\ UNCHANGED <<nodes, drained, registered, process>>

\* A handler up to the hub's state: the checks; then ingest puts the event into the
\* channel if there is room, join goes for the lock and nodes for the read lock.
Serve(i) ==
  LET c == calls[i]
      refusal == Refusal(c)
  IN  /\ At(i, "request")
      /\ \/ refusal # 0 /\ Move(i, "reply", refusal) /\ UNCHANGED buffer
         \/ /\ refusal = 0 /\ c.path = "ingest"
            /\ IF Len(buffer) < BufferCap
               THEN Move(i, "reply", 202) /\ buffer' = Append(buffer, i)
               ELSE Move(i, "reply", 503) /\ UNCHANGED buffer
         \/ refusal = 0 /\ c.path = "join" /\ Move(i, "joining", 0) /\ UNCHANGED buffer
         \/ refusal = 0 /\ c.path = "nodes" /\ Move(i, "queued", 0) /\ UNCHANGED buffer
      /\ UNCHANGED <<nodes, drained, registered, process>>

RegisterNode_FirstStands(i) ==
  /\ At(i, "joining") /\ Reading = {}
  /\ nodes' = IF nodes[calls[i].by] = NoAddress
              THEN [nodes EXCEPT ![calls[i].by] = calls[i].body] ELSE nodes
  /\ registered' = Append(registered, i)
  /\ Move(i, "reply", 200)
  /\ UNCHANGED <<buffer, drained, process>>

\* RegisterNode, which has the lock alone.
RegisterNode(i) ==
  /\ At(i, "joining") /\ Reading = {}
  /\ nodes' = [nodes EXCEPT ![calls[i].by] = calls[i].body]
  /\ registered' = Append(registered, i)
  /\ Move(i, "reply", 200)
  /\ UNCHANGED <<buffer, drained, process>>

\* NodesHandler gets the read lock.  (Go lets no new reader pass a waiting writer;
\* without that rule there are more orders, and as many ends.)
StartListing(i) ==
  /\ At(i, "queued")
  /\ Move(i, "listing", 0)
  /\ UNCHANGED <<nodes, buffer, drained, registered, process>>

FinishListing_KeepsLock(i) ==
  /\ At(i, "listing")
  /\ Move(i, "reply", 200) /\ calls[i].verdict = "waiting"
  /\ UNCHANGED <<nodes, buffer, drained, registered, process>>

\* The answer is written, or WriteTimeout ends the attempt; the deferred RUnlock runs.
FinishListing(i) ==
  /\ At(i, "listing")
  /\ Move(i, "reply", 200) \/ Move(i, "gone", 0)
  /\ UNCHANGED <<nodes, buffer, drained, registered, process>>

Handle(i) == Serve(i) \/ RegisterNode(i) \/ StartListing(i) \/ FinishListing(i)

\* A receiver of the channel.  `cluster hub` has none.
Drain ==
  /\ Drained /\ buffer # <<>>
  /\ drained' = Append(drained, Head(buffer))
  /\ buffer' = Tail(buffer)
  /\ UNCHANGED <<calls, nodes, registered, process>>

\* The network loses a request or a reply.
Lose(i) ==
  /\ At(i, "request") \/ At(i, "reply")
  /\ Move(i, "gone", 0)
  /\ UNCHANGED <<nodes, buffer, drained, registered, process>>

\* The hub's process ends, with its handlers, and another one takes its place.  What
\* is on the network stays there, or is lost as ever.
Restart ==
  /\ restarts < MaxRestarts
  /\ restarts' = restarts + 1
  /\ nodes' = [a \in Agent |-> NoAddress]
  /\ calls' = [i \in DOMAIN calls |->
                 IF calls[i].at \in {"joining", "queued", "listing"}
                 THEN [calls[i] EXCEPT !.at = "gone"] ELSE calls[i]]
  /\ lost' = lost \o buffer \o registered
  /\ buffer' = <<>> /\ registered' = <<>>
  /\ UNCHANGED drained

\* The caller reads the answer: nil for 200 to 299, else an error.
Return(i) ==
  /\ At(i, "reply") /\ calls[i].verdict = "waiting"
  /\ calls' = [calls EXCEPT ![i].at = "gone", ![i].status = 0,
                            ![i].verdict = IF calls[i].status \in 200..299
                                           THEN "ok" ELSE "refused"]
  /\ UNCHANGED <<nodes, buffer, drained, registered, process>>

\* Do fails: no connection, a broken one, or the client's timeout.  What is on its
\* way to the hub or in it stays there.
GiveUp(i) ==
  /\ i \in DOMAIN calls /\ calls[i].verdict = "waiting"
  /\ calls' = [calls EXCEPT ![i].verdict = "failed"]
  /\ UNCHANGED <<nodes, buffer, drained, registered, process>>

Next ==
  \/ \E a \in Agent : \/ \E address \in Address : Join(a, address)
                      \/ \E event \in Event : Ingest(a, event)
  \/ \E v \in Visitor : Visit(v)
  \/ \E i \in 1..MaxCalls :
       \/ Handle(i) \/ Lose(i) \/ Return(i) \/ GiveUp(i)
  \/ Drain \/ Restart

Spec == Init /\ [][Next]_vars

\* The hub's goroutines are scheduled, Go's RWMutex starves nobody, and WriteTimeout
\* bounds a listing.  Nothing is assumed of the network or the callers.
FairSpec ==
  /\ Spec
  /\ \A i \in 1..MaxCalls : WF_vars(Handle(i))

-----------------------------------------------------------------------------
\* An event whose Ingest returned nil has reached the hub once, and is lost only with
\* a process; one the hub refused has not reached it, and neither has anything
\* without the hub's token.  Of a call that failed nobody but the hub knows
\* (agent.go:80-88, node.go:226-231).
IngestIsTruthful ==
  LET arrived == drained \o buffer \o lost
      times(i) == Cardinality({k \in DOMAIN arrived : arrived[k] = i})
  IN  \A i \in DOMAIN calls :
        /\ calls[i].verdict = "ok" /\ calls[i].path = "ingest" => times(i) = 1
        /\ calls[i].verdict = "refused" => times(i) = 0
        /\ times(i) > 0 => HubToken \in {NoToken, ExtractToken(calls[i].headers)}

\* The hub lists a sensor under the address of its last join that returned nil, or
\* of a later one: but for a join the sensor had given up, which the hub may run
\* late, over what it has confirmed since, and for a restart, after which the
\* sensor is unknown until one of its joins runs (node.go:103,161-171, agent.go:54-62).
JoinStands ==
  \A i \in DOMAIN calls :
    calls[i].verdict = "ok" /\ calls[i].path = "join" =>
      \/ i \in Range(lost)
         /\ nodes[calls[i].by] \in
              {NoAddress} \union {calls[j].body : j \in Range(registered)}
      \/ \E j \in DOMAIN calls :
           /\ calls[j].by = calls[i].by /\ calls[j].path = "join"
           /\ j >= i /\ nodes[calls[i].by] = calls[j].body
      \/ \E j \in DOMAIN calls :
           /\ calls[j].by = calls[i].by /\ calls[j].path = "join"
           /\ calls[j].verdict = "failed" /\ nodes[calls[i].by] = calls[j].body
           /\ \E m, n \in DOMAIN registered :
                m < n /\ registered[m] = i /\ registered[n] = j

\* What has reached a handler leaves it, though a join waits for listings and a
\* listing for a peer that need not read (node.go:161-171, 240-246).
HandlersReturn ==
  \A i \in 1..MaxCalls :
    (At(i, "joining") \/ At(i, "queued") \/ At(i, "listing")) ~> At(i, "reply") \/ At(i, "gone")
=============================================================================
