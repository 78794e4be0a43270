---------------------------- MODULE Multiplexer ----------------------------
(***************************************************************************)
(* The listener engine (internal/core/multiplexer.go): Start binds one     *)
(* port per enabled service and runs an accept loop for each; a loop runs  *)
(* one handler goroutine per connection; Stop closes the listeners and     *)
(* waits on the WaitGroup.  Callers of Start and Stop take turns: `main`   *)
(* is the one goroutine that owns the engine.  Services in SessionService  *)
(* (ssh) start one more goroutine per session, which no WaitGroup counts,  *)
(* and may be jammed for good by their peer.                               *)
(***************************************************************************)
EXTENDS Naturals, FiniteSets

CONSTANTS
  Service,         \* the services of the configuration
  Enabled,         \* those with enabled: true
  Registered,      \* those a decoy was registered for
  PortOf,          \* Service -> port, the decoy's default when none is set
  SessionService,  \* those whose handler starts session goroutines
  Conn,            \* connections remote hosts may open, each once
  HasDeadline,     \* IdleTimeout > 0
  MaxFiles,        \* sockets the process may hold, listeners included
  MaxStarts        \* bound of the model: calls of Start that succeed

ASSUME MultiplexerAssumption ==
  /\ Enabled \subseteq Service
  /\ Registered \subseteq Service
  /\ SessionService \subseteq Service
  /\ HasDeadline \in BOOLEAN
  /\ MaxFiles \in Nat /\ MaxStarts \in Nat
  /\ IsFiniteSet(Service) /\ IsFiniteSet(Conn)

VARIABLES
  main,        \* control point of the owner of the engine
  running,     \* Multiplexer.running
  todo,        \* services Start's loop has not come to
  listeners,   \* services whose listener is in Multiplexer.listeners
  open,        \* services whose listening socket is open
  loop,        \* Service -> control point of its serve goroutine
  wg,          \* counter of the WaitGroup
  conn,        \* Conn -> state of the connection
  target,      \* Conn -> the service it was opened to
  expired,     \* connections whose deadline has passed
  jammed,      \* connections whose handler can never return
  session,     \* Conn -> state of its session goroutine
  reported,    \* Conn -> who has reported events about it
  starts       \* successful calls of Start so far

engine == <<main, running, todo, listeners, starts>>
peers == <<conn, target, expired, jammed>>
reports == <<session, reported>>
vars == <<main, running, todo, listeners, open, loop, wg, conn, target, expired, jammed,
          session, reported, starts>>

Served == {c \in Conn : conn[c] = "handled"}
Holding == {c \in Conn : conn[c] \in {"held", "handled"}}
Serving == {s \in Service : loop[s] # "off"}
FilesUsed == Cardinality(open) + Cardinality(Holding)

-----------------------------------------------------------------------------
Init ==
  /\ main = "idle" /\ running = FALSE /\ starts = 0
  /\ todo = {} /\ listeners = {} /\ open = {}
  /\ loop = [s \in Service |-> "off"]
  /\ wg = 0
  /\ conn = [c \in Conn |-> "away"]
  /\ target \in [Conn -> Service]
  /\ expired = {} /\ jammed = {}
  /\ session = [c \in Conn |-> "none"]
  /\ reported = [c \in Conn |-> {}]

\* Start, under the lock: refuse when running.
StartCall ==
  /\ main = "idle" /\ ~running
  /\ starts < MaxStarts
  /\ starts' = starts + 1
  /\ running' = TRUE
  /\ todo' = Enabled \cap Registered
  /\ main' = "binding"
  /\ UNCHANGED <<listeners, open, loop, wg, peers, reports>>

\* One turn of Start's loop, in the map's arbitrary order.  Listening fails when
\* this process holds the port already or for a reason of the host's, on the
\* wildcard and then on the loopback address; the port is then skipped.
Bind(s) ==
  /\ main = "binding" /\ s \in todo
  /\ todo' = todo \ {s}
  /\ \/ /\ \A t \in open : PortOf[t] # PortOf[s]
        /\ FilesUsed < MaxFiles
        /\ open' = open \cup {s}
        /\ listeners' = listeners \cup {s}
        /\ wg' = wg + 1
        /\ loop' = [loop EXCEPT ![s] = "accept"]
     \/ UNCHANGED <<listeners, open, wg, loop>>
  /\ UNCHANGED <<main, running, starts, peers, reports>>

StartReturns ==
  /\ main = "binding" /\ todo = {}
  /\ main' = "up"
  /\ UNCHANGED <<running, todo, listeners, starts, open, loop, wg, peers, reports>>

\* A remote host connects; the kernel queues it for Accept.
Dial(c) ==
  /\ conn[c] = "away" /\ target[c] \in open
  /\ conn' = [conn EXCEPT ![c] = "queued"]
  /\ UNCHANGED <<engine, open, loop, wg, target, expired, jammed, reports>>

Accept_AfterHandler(s, c) ==
  /\ loop[s] = "accept" /\ s \in open
  /\ conn[c] = "queued" /\ target[c] = s
  /\ \A d \in Served : target[d] # s
  /\ FilesUsed < MaxFiles
  /\ conn' = [conn EXCEPT ![c] = "held"]
  /\ loop' = [loop EXCEPT ![s] = "spawn"]
  /\ UNCHANGED <<engine, open, wg, target, expired, jammed, reports>>

\* serve: Accept returns a connection.
Accept(s, c) ==
  /\ loop[s] = "accept" /\ s \in open
  /\ conn[c] = "queued" /\ target[c] = s
  /\ FilesUsed < MaxFiles
  /\ conn' = [conn EXCEPT ![c] = "held"]
  /\ loop' = [loop EXCEPT ![s] = "spawn"]
  /\ UNCHANGED <<engine, open, wg, target, expired, jammed, reports>>

AcceptFails_DoneTwice(s) ==
  /\ loop[s] = "accept" /\ s \notin open
  /\ loop' = [loop EXCEPT ![s] = "off"]
  /\ wg' = wg - 2
  /\ UNCHANGED <<engine, open, peers, reports>>

\* serve: Accept returns an error, whichever it is, and the loop ends.
AcceptFails(s) ==
  /\ loop[s] = "accept"
  /\ \/ s \notin open
     \/ FilesUsed >= MaxFiles /\ \E c \in Conn : conn[c] = "queued" /\ target[c] = s
  /\ loop' = [loop EXCEPT ![s] = "off"]
  /\ wg' = wg - 1
  /\ UNCHANGED <<engine, open, peers, reports>>

Spawn_NotCounted(s, c) ==
  /\ loop[s] = "spawn" /\ conn[c] = "held" /\ target[c] = s
  /\ conn' = [conn EXCEPT ![c] = "handled"]
  /\ loop' = [loop EXCEPT ![s] = "accept"]
  /\ UNCHANGED <<engine, open, wg, target, expired, jammed, reports>>

\* serve: count the handler, then start it.
Spawn(s, c) ==
  /\ loop[s] = "spawn" /\ conn[c] = "held" /\ target[c] = s
  /\ wg' = wg + 1
  /\ conn' = [conn EXCEPT ![c] = "handled"]
  /\ loop' = [loop EXCEPT ![s] = "accept"]
  /\ UNCHANGED <<engine, open, target, expired, jammed, reports>>

\* The deadline is absolute, set once when the handler starts.
Expire(c) ==
  /\ HasDeadline /\ conn[c] = "handled" /\ c \notin expired
  /\ expired' = expired \cup {c}
  /\ UNCHANGED <<engine, open, loop, wg, conn, target, jammed, reports>>

\* HandleConnection reports an interaction.
Report(c) ==
  /\ conn[c] = "handled"
  /\ reported' = [reported EXCEPT ![c] = @ \cup {"handler"}]
  /\ UNCHANGED <<engine, open, loop, wg, peers, session>>

\* ssh: a session channel is accepted and gets a goroutine of its own.
OpenSession(c) ==
  /\ conn[c] = "handled" /\ target[c] \in SessionService /\ c \notin expired
  /\ session[c] = "none" /\ "handler" \in reported[c]
  /\ session' = [session EXCEPT ![c] = "open"]
  /\ UNCHANGED <<engine, open, loop, wg, peers, reported>>

\* handleSession records a command it has read, perhaps before the connection
\* was closed.
SessionReport(c) ==
  /\ session[c] = "open"
  /\ reported' = [reported EXCEPT ![c] = @ \cup {"session"}]
  /\ UNCHANGED <<engine, open, loop, wg, peers, session>>

SessionEnds(c) ==
  /\ session[c] = "open"
  /\ session' = [session EXCEPT ![c] = "over"]
  /\ UNCHANGED <<engine, open, loop, wg, peers, reported>>

\* ssh: nobody serves the requests of a channel once it has taken an exec.  When a
\* peer has filled the library's queue of them its mux stops, deadline or not,
\* and the handler waits for the next channel for ever.
Jam(c) ==
  /\ conn[c] = "handled" /\ session[c] # "none" /\ c \notin jammed
  /\ jammed' = jammed \cup {c}
  /\ UNCHANGED <<engine, open, loop, wg, conn, target, expired, reports>>

\* HandleConnection returns: the peer left, the protocol ended or I/O timed out.
\* The deferred calls close the connection, then count down.
Return(c) ==
  /\ conn[c] = "handled" /\ c \notin jammed
  /\ conn' = [conn EXCEPT ![c] = "closed"]
  /\ wg' = wg - 1
  /\ UNCHANGED <<engine, open, loop, target, expired, jammed, reports>>

\* A socket that stops listening resets what its queue holds.
Reset(closing) ==
  conn' = [c \in Conn |-> IF conn[c] = "queued" /\ target[c] \in closing
                            THEN "reset" ELSE conn[c]]

StopClose_OnlyForgets ==
  /\ main = "up" /\ running
  /\ running' = FALSE
  /\ listeners' = {}
  /\ main' = "waiting"
  /\ UNCHANGED <<todo, starts, open, loop, wg, peers, reports>>

\* Stop, under the lock: close every listener and forget them.
StopClose ==
  /\ main = "up" /\ running
  /\ running' = FALSE
  /\ open' = open \ listeners
  /\ listeners' = {}
  /\ Reset(listeners)
  /\ main' = "waiting"
  /\ UNCHANGED <<todo, starts, loop, wg, target, expired, jammed, reports>>

StopWait_Skipped ==
  /\ main = "waiting"
  /\ main' = "idle"
  /\ UNCHANGED <<running, todo, listeners, starts, open, loop, wg, peers, reports>>

\* wg.Wait returns.
StopWait ==
  /\ main = "waiting" /\ wg = 0
  /\ main' = "idle"
  /\ UNCHANGED <<running, todo, listeners, starts, open, loop, wg, peers, reports>>

Serve(s) == AcceptFails(s) \/ \E c \in Conn : Accept(s, c) \/ Spawn(s, c)

Next ==
  \/ StartCall \/ StartReturns \/ StopClose \/ StopWait
  \/ \E s \in Service : Bind(s) \/ Serve(s)
  \/ \E c \in Conn : \/ Dial(c) \/ Report(c) \/ Return(c) \/ Expire(c)
                     \/ OpenSession(c) \/ SessionReport(c) \/ SessionEnds(c) \/ Jam(c)

Spec == Init /\ [][Next]_vars

\* Goroutines run, deadlines pass, and blocked I/O returns once they have, which
\* ends every handler that is not jammed.  Peers need not send, and nobody need
\* call Start or Stop.
FairSpec ==
  /\ Spec
  /\ WF_vars(\E s \in Service : Bind(s)) /\ WF_vars(StartReturns) /\ WF_vars(StopWait)
  /\ \A s \in Service : WF_vars(Serve(s))
  /\ \A c \in Conn : WF_vars(Expire(c)) /\ WF_vars(c \in expired /\ Return(c))

-----------------------------------------------------------------------------
TypeOK ==
  /\ main \in {"idle", "binding", "up", "waiting"}
  /\ running \in BOOLEAN
  /\ todo \subseteq Service /\ listeners \subseteq Service /\ open \subseteq Service
  /\ loop \in [Service -> {"off", "accept", "spawn"}]
  /\ wg \in Nat
  /\ conn \in [Conn -> {"away", "queued", "held", "handled", "closed", "reset"}]
  /\ target \in [Conn -> Service]
  /\ expired \subseteq Conn /\ jammed \subseteq Served
  /\ session \in [Conn -> {"none", "open", "over"}]
  /\ reported \in [Conn -> SUBSET {"handler", "session"}]
  /\ starts \in 0..MaxStarts

\* The WaitGroup counts exactly the accept loops and handlers alive, so Wait
\* cannot return early nor Add meet a counter that has reached zero
\* (multiplexer.go:83, 91, 105, 107).
WaitGroupExact == wg = Cardinality(Serving) + Cardinality(Served)

\* When Stop has returned nothing of the engine is left: no socket, no accept
\* loop, no connection in hand (multiplexer.go:119-137).
StoppedIsQuiet ==
  main = "idle" => open = {} /\ Serving = {} /\ Holding = {}

\* With a deadline on every connection Stop returns, or all it waits for is ssh
\* handlers their peers have jammed: whatever other peers do, nothing else is left
\* (multiplexer.go:110-112, 136; ssh.go:112, 152-153).
StopReturns ==
  main = "waiting" ~> \/ main = "idle"
                      \/ jammed # {} /\ Served = jammed /\ Serving = {} /\ open = {}

\* An accept loop waits for no handler, though some never return: a queued
\* connection is handled or reset, unless its loop has ended (multiplexer.go:94-107).
QueuedGetsServed ==
  \A c \in Conn : conn[c] = "queued" ~> conn[c] # "queued" \/ loop[target[c]] = "off"
=============================================================================
