------------------------- MODULE MultiplexerProofs -------------------------
(***************************************************************************)
(* Proofs about Multiplexer for every configuration of services and ports, *)
(* any number of connections and any limit on open files.                  *)
(***************************************************************************)
EXTENDS Multiplexer, FiniteSetTheorems, TLAPS

USE DEF engine, peers, reports

\* An accept loop between Accept and `go` has one accepted connection in hand,
\* and every such connection is in the hand of its service's loop
\* (multiplexer.go:94-107).
HeldByItsLoop ==
  \A c \in Conn : conn[c] = "held" => loop[target[c]] = "spawn"

HeldAlone ==
  \A c, d \in Conn :
    conn[c] = "held" /\ conn[d] = "held" /\ target[c] = target[d] => c = d

\* The map of listeners is the set of open sockets, and both are empty once
\* Stop has closed them (multiplexer.go:87-91, 124-132).
ListenersAreOpen ==
  /\ listeners = open
  /\ main \in {"idle", "waiting"} => open = {}

\* A service Start has yet to bind has no accept loop, so its Add counts a new
\* goroutine (multiplexer.go:60-92).
UnboundHasNoLoop ==
  main = "binding" => \A s \in todo : loop[s] = "off"

Inv ==
  /\ TypeOK /\ WaitGroupExact
  /\ HeldByItsLoop /\ HeldAlone
  /\ ListenersAreOpen /\ UnboundHasNoLoop
  /\ StoppedIsQuiet

LEMMA Finite ==
  ASSUME TypeOK
  PROVE  /\ IsFiniteSet(Serving) /\ Cardinality(Serving) \in Nat
         /\ IsFiniteSet(Served) /\ Cardinality(Served) \in Nat
<1>1. Serving \subseteq Service /\ Served \subseteq Conn
  BY DEF Serving, Served
<1>2. IsFiniteSet(Service) /\ IsFiniteSet(Conn)
  BY MultiplexerAssumption
<1> QED BY <1>1, <1>2, FS_Subset, FS_CardinalityType

\* The counter after each step, and that it still counts what is alive.
LEMMA CountStep ==
  ASSUME Inv, [Next]_vars PROVE wg' \in Nat /\ WaitGroupExact'
<1> USE DEF Inv, WaitGroupExact
<1>0. /\ IsFiniteSet(Serving) /\ Cardinality(Serving) \in Nat
      /\ IsFiniteSet(Served) /\ Cardinality(Served) \in Nat
      /\ wg \in Nat
  BY Finite DEF TypeOK
<1>f. loop' = loop => Serving' = Serving
  BY DEF Serving
<1>g. (\A c \in Conn : (conn'[c] = "handled") <=> (conn[c] = "handled")) => Served' = Served
  BY DEF Served
<1>a. ASSUME wg' = wg, Serving' = Serving, Served' = Served PROVE wg' \in Nat /\ WaitGroupExact'
  BY <1>0, <1>a
<1>b. ASSUME NEW s, s \notin Serving, Serving' = Serving \cup {s}, Served' = Served, wg' = wg + 1
      PROVE  wg' \in Nat /\ WaitGroupExact'
  <2>1. Cardinality(Serving \cup {s}) = Cardinality(Serving) + 1
    BY <1>0, <1>b, FS_AddElement
  <2> QED BY <1>0, <1>b, <2>1
<1>c. ASSUME NEW s, s \in Serving, Serving' = Serving \ {s}, Served' = Served, wg' = wg - 1
      PROVE  wg' \in Nat /\ WaitGroupExact'
  <2>1. Cardinality(Serving \ {s}) = Cardinality(Serving) - 1 /\ IsFiniteSet(Serving \ {s})
    BY <1>0, <1>c, FS_RemoveElement
  <2>2. Cardinality(Serving \ {s}) \in Nat
    BY <2>1, FS_CardinalityType
  <2> QED BY <1>0, <1>c, <2>1, <2>2
<1>d. ASSUME NEW c, c \notin Served, Served' = Served \cup {c}, Serving' = Serving, wg' = wg + 1
      PROVE  wg' \in Nat /\ WaitGroupExact'
  <2>1. Cardinality(Served \cup {c}) = Cardinality(Served) + 1
    BY <1>0, <1>d, FS_AddElement
  <2> QED BY <1>0, <1>d, <2>1
<1>e. ASSUME NEW c, c \in Served, Served' = Served \ {c}, Serving' = Serving, wg' = wg - 1
      PROVE  wg' \in Nat /\ WaitGroupExact'
  <2>1. Cardinality(Served \ {c}) = Cardinality(Served) - 1 /\ IsFiniteSet(Served \ {c})
    BY <1>0, <1>e, FS_RemoveElement
  <2>2. Cardinality(Served \ {c}) \in Nat
    BY <2>1, FS_CardinalityType
  <2> QED BY <1>0, <1>e, <2>1, <2>2
<1> USE DEF TypeOK
<1>1. CASE \/ StartCall \/ StartReturns \/ StopWait
           \/ \E c \in Conn : Report(c) \/ Expire(c) \/ OpenSession(c) \/ SessionReport(c)
                                \/ SessionEnds(c) \/ Jam(c)
           \/ UNCHANGED vars
  <2>1. wg' = wg /\ loop' = loop /\ conn' = conn
    BY <1>1 DEF StartCall, StartReturns, StopWait, Report, Expire, OpenSession, SessionReport,
                SessionEnds, Jam, vars
  <2> QED BY <1>a, <2>1, <1>f, <1>g
<1>2. CASE StopClose \/ \E c \in Conn : Dial(c)
  <2>1. wg' = wg /\ loop' = loop
    BY <1>2 DEF StopClose, Dial
  <2>2. \A c \in Conn : (conn'[c] = "handled") <=> (conn[c] = "handled")
    BY <1>2 DEF StopClose, Reset, Dial
  <2> QED BY <1>a, <2>1, <2>2, <1>f, <1>g
<1>3. ASSUME NEW s \in Service, Bind(s) PROVE wg' \in Nat /\ WaitGroupExact'
  <2>1. CASE wg' = wg /\ loop' = loop
    BY <1>a, <1>3, <2>1, <1>f, <1>g DEF Bind
  <2>2. CASE wg' = wg + 1 /\ loop' = [loop EXCEPT ![s] = "accept"]
    <3>1. s \notin Serving /\ Serving' = Serving \cup {s}
      BY <1>3, <2>2 DEF Bind, Serving, UnboundHasNoLoop
    <3>2. Served' = Served
      BY <1>3, <1>g DEF Bind
    <3> QED BY <1>b, <2>2, <3>1, <3>2
  <2> QED BY <1>3, <2>1, <2>2 DEF Bind
<1>4. ASSUME NEW s \in Service, AcceptFails(s) PROVE wg' \in Nat /\ WaitGroupExact'
  <2>1. s \in Serving /\ Serving' = Serving \ {s} /\ Served' = Served /\ wg' = wg - 1
    BY <1>4 DEF AcceptFails, Serving, Served
  <2> QED BY <1>c, <2>1
<1>5. ASSUME NEW s \in Service, NEW c \in Conn, Accept(s, c) PROVE wg' \in Nat /\ WaitGroupExact'
  <2>1. Serving' = Serving /\ Served' = Served /\ wg' = wg
    BY <1>5 DEF Accept, Serving, Served
  <2> QED BY <1>a, <2>1
<1>6. ASSUME NEW s \in Service, NEW c \in Conn, Spawn(s, c) PROVE wg' \in Nat /\ WaitGroupExact'
  <2>1. c \notin Served /\ Served' = Served \cup {c} /\ Serving' = Serving /\ wg' = wg + 1
    BY <1>6 DEF Spawn, Serving, Served
  <2> QED BY <1>d, <2>1
<1>7. ASSUME NEW c \in Conn, Return(c) PROVE wg' \in Nat /\ WaitGroupExact'
  <2>1. c \in Served /\ Served' = Served \ {c} /\ Serving' = Serving /\ wg' = wg - 1
    BY <1>7 DEF Return, Serving, Served
  <2> QED BY <1>e, <2>1
<1> QED BY <1>1, <1>2, <1>3, <1>4, <1>5, <1>6, <1>7 DEF Next, Serve

LEMMA HeldStep == ASSUME Inv, [Next]_vars PROVE HeldByItsLoop' /\ HeldAlone'
<1> USE DEF Inv, TypeOK, HeldByItsLoop, HeldAlone
<1>1. CASE UNCHANGED <<loop, conn, target>>
  BY <1>1
<1>2. CASE StopClose \/ \E c \in Conn : Dial(c) \/ Return(c)
  <2>1. /\ UNCHANGED <<loop, target>>
        /\ \A c \in Conn : conn'[c] = "held" => conn[c] = "held"
    BY <1>2 DEF StopClose, Reset, Dial, Return
  <2> QED BY <2>1
<1>3. ASSUME NEW s \in Service, Bind(s) \/ AcceptFails(s) PROVE HeldByItsLoop' /\ HeldAlone'
  <2>1. /\ UNCHANGED <<conn, target>> /\ loop[s] # "spawn"
        /\ \A t \in Service \ {s} : loop'[t] = loop[t]
    BY <1>3 DEF Bind, AcceptFails, UnboundHasNoLoop
  <2> QED BY <2>1
<1>4. ASSUME NEW s \in Service, NEW c \in Conn, Accept(s, c) \/ Spawn(s, c)
      PROVE HeldByItsLoop' /\ HeldAlone'
  <2>1. CASE Accept(s, c)
    BY <2>1 DEF Accept
  <2>2. CASE Spawn(s, c)
    BY <2>2 DEF Spawn
  <2> QED BY <1>4, <2>1, <2>2
<1>5. CASE StartCall \/ StartReturns \/ StopWait \/ UNCHANGED vars
  BY <1>1, <1>5 DEF StartCall, StartReturns, StopWait, vars
<1>6. CASE \E c \in Conn : Report(c) \/ Expire(c) \/ OpenSession(c) \/ SessionReport(c)
                              \/ SessionEnds(c) \/ Jam(c)
  BY <1>1, <1>6 DEF Report, Expire, OpenSession, SessionReport, SessionEnds, Jam
<1> QED BY <1>2, <1>3, <1>4, <1>5, <1>6 DEF Next, Serve

LEMMA LifecycleStep ==
  ASSUME Inv, [Next]_vars PROVE ListenersAreOpen' /\ UnboundHasNoLoop' /\ StoppedIsQuiet'
<1> DEFINE Goal == ListenersAreOpen' /\ UnboundHasNoLoop' /\ StoppedIsQuiet'
<1> USE DEF Inv, TypeOK, ListenersAreOpen, UnboundHasNoLoop, StoppedIsQuiet, Serving, Holding
<1>1. CASE StartCall
  BY <1>1, MultiplexerAssumption DEF StartCall
<1>2. CASE StartReturns
  BY <1>2 DEF StartReturns
<1>3. CASE StopClose
  BY <1>3 DEF StopClose
<1>4. CASE StopWait
  <2>1. Serving = {} /\ Served = {}
    <3>1. Cardinality(Serving) = 0 /\ Cardinality(Served) = 0
      BY <1>4, Finite DEF StopWait, WaitGroupExact
    <3> QED BY <3>1, Finite, FS_EmptySet
  <2>2. Holding = {}
    BY <2>1 DEF Served, HeldByItsLoop
  <2> QED BY <1>4, <2>1, <2>2 DEF StopWait
<1>5. ASSUME NEW s \in Service, Bind(s) \/ AcceptFails(s) PROVE Goal
  BY <1>5 DEF Bind, AcceptFails
<1>6. ASSUME NEW s \in Service, NEW c \in Conn, Accept(s, c) \/ Spawn(s, c) PROVE Goal
  BY <1>6 DEF Accept, Spawn
<1>7. ASSUME NEW c \in Conn, Dial(c) \/ Return(c) PROVE Goal
  BY <1>7 DEF Dial, Return
<1>8. ASSUME NEW c \in Conn, Report(c) \/ Expire(c) \/ OpenSession(c) \/ SessionReport(c)
                               \/ SessionEnds(c) \/ Jam(c)
      PROVE  Goal
  BY <1>8 DEF Report, Expire, OpenSession, SessionReport, SessionEnds, Jam
<1>9. CASE UNCHANGED vars
  BY <1>9 DEF vars
<1> QED BY <1>1, <1>2, <1>3, <1>4, <1>5, <1>6, <1>7, <1>8, <1>9 DEF Next, Serve

LEMMA Inductive == Spec => []Inv
<1>1. Init => Inv
  <2> SUFFICES ASSUME Init PROVE Inv
    OBVIOUS
  <2> USE DEF Init
  <2>1. TypeOK
    <3>1. starts \in 0..MaxStarts /\ wg \in Nat
      BY MultiplexerAssumption
    <3>2. /\ loop \in [Service -> {"off", "accept", "spawn"}]
          /\ conn \in [Conn -> {"away", "queued", "held", "handled", "closed", "reset"}]
          /\ session \in [Conn -> {"none", "open", "over"}]
          /\ reported \in [Conn -> SUBSET {"handler", "session"}]
      OBVIOUS
    <3> QED BY <3>1, <3>2 DEF TypeOK
  <2>2. Serving = {} /\ Served = {} /\ Holding = {}
    BY DEF Serving, Served, Holding
  <2>3. WaitGroupExact
    BY <2>2, FS_EmptySet DEF WaitGroupExact
  <2>4. HeldByItsLoop /\ HeldAlone /\ ListenersAreOpen /\ UnboundHasNoLoop /\ StoppedIsQuiet
    BY <2>2 DEF HeldByItsLoop, HeldAlone, ListenersAreOpen, UnboundHasNoLoop, StoppedIsQuiet
  <2> QED BY <2>1, <2>3, <2>4 DEF Inv
<1>2. ASSUME Inv, [Next]_vars PROVE TypeOK'
  <2>0. TypeOK /\ wg' \in Nat
    BY <1>2, CountStep DEF Inv
  <2> USE <2>0, MultiplexerAssumption DEF TypeOK
  <2>1. CASE StartCall
    <3>1. starts' \in 0..MaxStarts
      BY <2>1 DEF StartCall
    <3>2. todo' \subseteq Service
      BY <2>1 DEF StartCall
    <3> QED BY <2>1, <3>1, <3>2 DEF StartCall, Served
  <2>2. CASE StartReturns \/ StopWait
    BY <2>2 DEF StartReturns, StopWait, Served
  <2>3. CASE UNCHANGED vars
    BY <2>3 DEF vars, Served
  <2>4. CASE StopClose
    BY <2>4 DEF StopClose, Reset, Served
  <2>5. ASSUME NEW s \in Service, Bind(s) \/ AcceptFails(s) PROVE TypeOK'
    BY <2>5 DEF Bind, AcceptFails, Served
  <2>6. ASSUME NEW s \in Service, NEW c \in Conn, Accept(s, c) \/ Spawn(s, c) PROVE TypeOK'
    BY <2>6 DEF Accept, Spawn, Served
  <2>7. ASSUME NEW c \in Conn, Dial(c) \/ Report(c) \/ Return(c) \/ Expire(c) PROVE TypeOK'
    BY <2>7 DEF Dial, Report, Return, Expire, Served
  <2>8. ASSUME NEW c \in Conn, OpenSession(c) \/ SessionReport(c) \/ SessionEnds(c) \/ Jam(c)
        PROVE  TypeOK'
    BY <2>8 DEF OpenSession, SessionReport, SessionEnds, Jam, Served
  <2> QED BY <1>2, <2>1, <2>2, <2>3, <2>4, <2>5, <2>6, <2>7, <2>8 DEF Next, Serve
<1>3. Inv /\ [Next]_vars => Inv'
  BY <1>2, CountStep, HeldStep, LifecycleStep DEF Inv
<1> QED BY <1>1, <1>3, PTL DEF Spec

\* The engine's variables keep their types; above all the WaitGroup's counter
\* never goes below zero, where Go panics (multiplexer.go:91-107).
THEOREM TypeCorrect == Spec => []TypeOK
BY Inductive, PTL DEF Inv

\* The WaitGroup counts exactly the accept loops and handlers alive, whatever
\* fails to bind or to accept and however Start and Stop alternate
\* (multiplexer.go:83-107).
THEOREM CountIsExact == Spec => []WaitGroupExact
BY Inductive, PTL DEF Inv

\* When Stop has returned no socket, accept loop or connection of the engine is
\* left, and none comes before the next Start (multiplexer.go:119-137).
THEOREM StopLeavesNothing == Spec => []StoppedIsQuiet
BY Inductive, PTL DEF Inv
=============================================================================
