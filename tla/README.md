# Shinkiro in TLA+

Shinkiro is a honeynet in one Go process: fifteen decoy services listen on TCP
ports, whatever remote hosts do to them becomes an `intel.Event`, and one
goroutine takes each event through scoring, correlation, playbooks and a sink
that writes `events.jsonl`, captures a frame, and feeds the operator's screen.
This directory holds models of the parts of it that keep state or run
concurrently, the TLC runs that check them, and proofs about all of them but the
decoys' dialogues, the compositions included.

    tlc -workers 2 -config MCEventPipeline.cfg MCEventPipeline
    for m in EventPipeline Multiplexer OnDemandCapture Honeynet \
             CampaignHistory Soar OperatorTui ClusterHub
    do tlapm ${m}Proofs.tla; done

`PROJECT.json` lists the components, the runs, a mutant for every property, the
source lines behind every definition, the hazards each property is there for,
and the theorems. An operator named `X_Y` is a mutant of the definition `X`: a
bug one could plausibly write there, under which the run must find its property
violated. No specification uses it.

## 1. Inventory

### 1.1 Components

| Component | Source | State | Operations | Modelled in |
|---|---|---|---|---|
| Listener engine | `internal/core/multiplexer.go` | listeners, WaitGroup, running flag, connections with deadlines | Start, serve, Stop | `Multiplexer` |
| Event pipeline | `internal/pipeline`, `cmd/shinkiro/up.go` | the 200-slot channel, the event in hand, counters | emit, RunChannel, five stages, cancel | `EventPipeline`, `EventDelivery` |
| SSH decoy | `internal/decoys/ssh` | a virtual filesystem and a working directory per session, queues of the library | shell loop, exec requests, Execute | `SshSession`, `Multiplexer` |
| Telnet, SMTP, MQTT, Modbus, PostgreSQL, Redis | `internal/decoys/*` | where the dialogue is | read, report, answer, many times | `DecoyDialogues` |
| HTTP, Kubernetes, AWS IMDS, Elasticsearch, Docker, MongoDB, DNS, SMB | `internal/decoys/*` | where the request is | read, report, answer, once | `DecoyDialogues` |
| GeoIP resolver | `internal/intel/geoip` | the reader of an optional database | NewResolver, Lookup, Close | `GeoResolver`, `Honeynet` |
| On-demand capture | `internal/pcap` | paths remembered, files open, files on disk | MaybeCapture, CaptureNow, Close | `OnDemandCapture` |
| Intel store | `internal/intel/engine.go` | blocklist in memory, `events.jsonl` | Persist, RecentEvents, MaliciousIPs | `IntelStore`, `CampaignHistory` |
| Correlator | `internal/intel/correlator.go` | one campaign per address | Ingest, PruneExpired; `shinkiro campaigns` | `Correlator`, `CampaignHistory` |
| Playbooks, block_ip | `internal/soar`, `internal/defense` | times per rule name and address, results, the host's firewall | Process, BlockIP | `Soar` |
| Operator screen | `internal/tui` | two panes, cursor, focus, the 200-slot feed | Update on events and keys, reload | `OperatorTui` |
| Process lifecycle | `cmd/shinkiro/up.go` | everything above | start, signal, shutdown | `Honeynet` |
| Cluster hub and agents | `internal/cluster` | node map, 500-slot channel, calls under way | join, ingest, list | `ClusterHub` |

Not modelled: threat feeds and coverage (one HTTP request and tables of constants), the SIEM and STIX
exporters (formatting), the adversary simulator (a client with fixed bytes),
canary tokens (pure functions), configuration and command line (their values are
the `CONSTANTS`), the metrics endpoint (it prints the counters `EventPipeline`
counts), the texts of webhooks, and the deployment files.

### 1.2 How they interact

Handlers run one goroutine per connection and offer events to the channel
without ever blocking: no room, no event. The bus is one goroutine, so the
callees of the stages are called one event at a time; but the operator's
keys call `BlockIP` and `CaptureNow` from another goroutine, Bubble Tea's, and
the screen reads campaigns the bus is writing. `main` closes the engine, cancels
the context, and runs its deferred calls without joining the bus. SSH sessions are
goroutines the engine's WaitGroup does not count. The hub is a process of its own.

### 1.3 What is hard here

* **Many senders, one bounded channel, one slow receiver**: which events are
  dropped depends on the interleaving; that the rest stays in order should not.
* **A pipeline in which each stage may fail**, with effects of earlier stages
  (counted, captured, scored in memory) that are not undone.
* **Shutdown**: Accept against Close, Add against Wait, deadlines against
  silent peers, the bus against deferred Closes.
* **Memory beside a file**: what the commands rebuild from `events.jsonl` in a process of
  their own, and what the process that wrote it has, need not be the same.
* **Files appended by several runs of the process**, with writes that stop half-way.
* **Time**: events carry the time of the decoy and arrive later and reordered;
  windows, cut-offs and IDs of one-second resolution.
* **One filesystem, two goroutines** in an SSH session, and a library in front of them that
  waits when its queue of requests is full.
* **Panes that move under a cursor**, fed from two places with the same events.
* **An HTTP client that gives up** on calls the hub carries out all the same.

### 1.4 What makes each part correct

Engine: the WaitGroup counts what runs; Stop returns, but for ssh handlers that peers have jammed, and leaves nothing. Pipeline:
an accepted event is settled, once and in order, and a line on disk says nothing
that is not so. Capture: an answered path holds the frame, whole or cut and saying so. Store: readers see the
order of writing, and a failed write costs a bounded number of events. Correlator: a
campaign says what its events say, and the `campaigns` command says no less than the
running process. GeoIP: a line says what the database says of its address, or less. Playbooks: a rate rule fires exactly when its
definition over all past events says so; the results account for the firewall.
Decoys: what a peer did is reported once. Screen: the operator acts on what is marked.
Hub: what a sensor was told is so.

## 2. Modules

Every module has one action per operation, or per step of it that another
goroutine or the disk can observe; what a mutex makes atomic is one action.

**`EventDelivery`** is the abstract promise of the event path: an event is refused
on the spot or accepted; accepted events are settled one at a time, in order; to
settle is to record once or to give up.

**`EventPipeline`** is the code behind it. `events`, `tuiEvents` and `ctxDone` are
the Go channels and the context; `bus` is where the one goroutine of `RunChannel` is
(`select`, the stages `score`, `correlate`, `playbook`, and the sink's `count`,
`capture`, `persist`, `fanout`), `cur` the event in its hands with what stages added.
`Take` and `ExitBus` are the two cases of the select and compete when both are
ready. Capture and persist may fail; persist always raises the blocklist first, then the line
may fail. `emitted` and `accepted` are history.

For each of `EventPipeline`, `Multiplexer`, `OnDemandCapture`, `Honeynet`, `CampaignHistory`, `Soar`,
`OperatorTui` and `ClusterHub` there is a module named after it with **`Proofs`** at the end, which extends it
and holds its invariants, lemmas and theorems (section 5). Nothing in a component's module
is there for a proof alone, but for the assumptions on its constants.

**`Multiplexer`**: `StartCall`/`Bind`/`StartReturns` are the loop of `Start`, one
service at a time; `Accept`, `Spawn` and `AcceptFails` the body of `serve`, split where
`Stop` can come between Accept and `wg.Add`; `StopClose` and `StopWait` the two halves
of `Stop`. `conn` follows a connection from the kernel's queue to its end. `Jam` takes an ssh
handler out of reach of its deadline: the request goroutine of a session ends with the first exec
(`ssh.go:153`), and a peer that sends on fills the library's queue of 16 requests, where its mux waits.

**`OnDemandCapture`**: `disk` maps a file to what is in it, piece by piece, torn
pieces included; `paths` and `opened` are the two Go maps, which `Close` treats
differently. A frame carries what its header says (`len`, `caplen`) and how many bytes follow:
`Frame` cuts a payload at `SnapLen` as `WritePacket` does, without an error.

**`GeoResolver`**: a record is a set of fields; `Lookup` decides which calls on the reader
it takes (`Calls`, by type of database), `Ask` makes one of them, `Finish` hands the
record over. `CloseReader` and `ForgetReader` are the two halves of `Close`, which may come
between any two of these. `Says` is the reference: all fields the database can give.

**`Honeynet`** composes instances of `EventPipeline`, `Multiplexer`, `GeoResolver` and
`OnDemandCapture` over shared variables: a connection's handler is what emits, the score
stage is a lookup, the sink's capture is a call of the capture hook, and `main` walks from
a signal through `Stop`, `cancel()` and the deferred `Close`s to the end of the process.

**`IntelStore`**: `file` is a sequence of pieces, whole lines and torn ones; `Decodes`
says which of them `RecentEvents` can read, given its neighbours.

**`Correlator`**: `Ingest` event by event, against `Describes`, which reads a campaign
off the whole session. `IngestLate` hands it events up to `Skew` late.

**`CampaignHistory`** composes instances of the two with the life of the processes: `Handle`
is the bus's correlate and persist stages for one event, `Stop` ends the process between
any two, `Start` opens the same file with an empty memory. `Rebuilt` is what `shinkiro campaigns`
makes of the file at any time, `Exported` what `shinkiro export` makes of it.

**`Soar`**: `EvalRule` is one turn of the loop over rules, with the times in `history` cut as
the code cuts them, each kept under the number of the evaluation that noted it, by rule name and address, as
nothing makes names unique; `BlockIP` is
three steps (`Begin`, `Exec`, `Finish`) that the bus and the operator may interleave;
`firewall` is how often a command for an address was executed on the host.

**`SshSession`**: what the peer sends (`Send`) is on the `wire` until the library's mux, one goroutine
for all of it, hands it on in order (`Deliver`), which it cannot do with a request while `ReqCap`
wait. Two loops, `shell` and `exec`, each go from `read` to `report`, `run`, `inside` and `answer`, over
one `cwd` and one map of `files`. `Enter` and `Land` are the two ends of `Execute`: `sees` collects what
a loop inside may find in `cwd`, the other's change or a torn string (`Torn`) among it. `Resolve` and `Cd`
are translated as they are; `UnixPath` is the reference beside them. `Collide` is the Go runtime ending
the process: it notices that two goroutines use the map at once, one writing, or a `cd ..`
slices a name that changed under it. `Jammed` says that the mux waits for a request loop that is gone.

**`DecoyDialogues`**: one connection to one of fourteen decoys. A step reads one item (a
line, a packet, a request's header or its body) or fails to; `out` is what was reported and answered, in order. The
properties define from the peer's side what should be in it: for SMTP, which
lines are commands is a fixed point (`Commands`), not the handler's mode. `Called` and
`AnsweredOnce` say what a peer is due, protocol by protocol; `PassedOver` is what the telemetry
specification asks for and the code leaves out (section 4). The module is run as it is.

**`OperatorTui`**: `WaitForEvent` is the command on its own goroutine, `ReceiveEvent` and
`Key` are `Update`; `Correlate` and `Publish` are the bus as the screen can see it, which runs before
the screen is `built`: `NewModel` finds on the board, in the file and in the feed what came since the
listeners started.

**`ClusterHub`**: a call stays in `calls` when it is over. `at` is where it is (on its way,
waiting for the lock, listing with the read lock, on its way back, gone), `verdict`
what `Join` or `Ingest` returned. Requests and replies get lost, callers give up, and
the hub may serve a call long after that. `Restart` replaces the hub's process: nodes,
buffered events and running handlers go with it (`lost`), what is on the network does not.

## 3. Runs

| Run | Instance | States | What it shows |
|---|---|---|---|
| `pipeline` | 4 events, 2 addresses, channel of 2, feed of 1 | 610k | types; no accepted event lost or overtaken; correlator and playbooks in step; lines on disk complete; screen a window on the disk; refinement of `EventDelivery`; accepted events settled unless cancelled |
| `multiplexer` | 3 services (2 on one port), 2 connections, 3 sockets, Start-Stop twice | 86k | WaitGroup exact; stopped is quiet but for sessions; Stop returns unless ssh handlers are jammed; no connection waits behind a handler |
| `capture` | 3 events, 2 addresses, restarts, torn writes, a payload over `SnapLen` | 430k | answered paths hold their frame, whole or cut and saying so; one file per address; readable unless torn |
| `honeynet` | ssh, 2 connections, a session, the operator, 2 GeoIP databases, shutdown | 1.0M | lines of `events.jsonl` name frames that exist and say what the database knows; after Stop only sessions emit; the shutdown completes unless a handler is jammed |
| `honeynet_panic` | the same, not interactive, no database | violation | the bus can dereference a missing capture file after `Close` |
| `history` | 3 events, 2 addresses, 2 decoys, 2 runs of the process, window 2, skew 1 | 3.7M | readers see the order of writing; a torn write costs at most its own event and the next; each campaign is its last session; no ID twice; the `campaigns` command shows what the process had, or more |
| `export` | the same | violation | `export` leaves out an address the running process holds malicious |
| `soar` | 3 rate rules, 2 of one name, 3 events, live, an operator | 157k | firing exact; results account for the firewall |
| `ssh` | 3 inputs out of 7 commands, `ReqCap` 1 | 919k | what runs was reported; reports are the input; the directory is Unix's for plain paths where no two `cd` race; both loops end unless jammed |
| `tui` | 4 events, panes of 2 rows, a feed of 2 | 392k | cursor on a row; the selection stays on its event; the pane accounted for; the feed shown |
| `cluster` | 2 sensors, one with a wrong token, a visitor, 3 calls, a restart | 928k | verdicts are true, also across a restart of the hub; a confirmed address stands; no handler stays behind a lock |
| `dialogues` | all dialogues of 5 items with 14 decoys | 52k | reports match the input; what calls for an answer has one |

### Bounds, and why they are enough

Events, addresses and connections are few because the properties relate two or
three of them: order needs two events and a third in hand; a channel of two is
full with one in hand and one refused; two addresses show mixing. `EventsCap`,
`TuiCap`, `Rows`, `FeedCap`, `BufferCap` are below the number of events so that
dropping and cutting happen. `MaxFiles` leaves room for one connection beside two
listeners so that Accept fails. `MaxStarts` 2 is Start-Stop-Start-Stop, or a restart.
`MaxItems` bounds what is on disk, or the length of a dialogue; five lines hold a
mail with two lines in it and a command after. In `CampaignHistory`, `MaxTime` 4 is two windows
of 2: enough to open, keep, lose and reopen a campaign, on either side of a restart; in `Soar`, `MaxTime` 2 puts events
at, before and after the cut-off of a window. In `OperatorTui`, `LoadCap` 3 (200 in the code) is below
what the file can hold, and `EarlierFiles` are an empty file and one with an event of an
earlier run. `MaxCalls` 3 is a join given up, one
that succeeds and a call that competes with them. The two databases of `honeynet` are the
ones with the most calls: two of which one fails, and two with a third left out; its address is
a public one, as a local one takes no call. In `ssh`, `ReqCap` 1 stands for 16, so that an exec and two
more requests jam a session; in `capture` and `honeynet` a `SnapLen` of a few bytes stands for 65535, with
payloads on either side of it. `MaxRestarts` 1
leaves calls on either side of it. `SYMMETRY` is used in `soar` and `history` only, with
invariants alone. The theorems have no bounds.

Deadlock checking is off where the system really stops: `cancel()` was called, `main`
has returned, a session or dialogue is over, events or calls of the instance are used up.

### Fairness, and why the code justifies it

* The bus goroutine, the accept loops, `main` once it has the signal, and Bubble
  Tea's commands are goroutines that are runnable: weak fairness of their steps. Nothing
  is assumed of decoys, peers, the operator, the network or the disk.
* Deadlines pass (`SetDeadline` with `IdleTimeout` > 0), and blocked I/O returns
  after, so every handler does but one that is jammed: of such a one nothing is assumed. Without a deadline `Stop` need not return; the run has `HasDeadline = TRUE`, as
  the default configuration does.
* At the hub, Go's RWMutex starves nobody and `WriteTimeout` (15 s by default) ends a listing whose
  peer does not read. Weak fairness is enough as calls are finitely many.
* `ssh`: the library's mux and both loops run, and a write of an answer fails when the mux has told of
  the end. That the end reaches a loop is not assumed: the mux must come to it. Peers need not read.
* `tui`: `main` goes on from the listeners to the screen (`NewModel`).

Weak fairness of the select's two cases together is all that the pipeline has: Go picks
at random when both are ready, and `AcceptedGetsSettled` says nothing after cancellation.

## 4. What does not hold

`export` shows that `shinkiro export` prints no address at all after a restart, or beside a
running mesh: it asks the blocklist of an engine of its own, which is built by `Persist` and
never from the file, while spec.md:20-22 and cli-reference.md:190 promise the malicious
addresses of the store.

`honeynet_panic` shows that a capture for an address already known, made by the bus
between `main`'s deferred `Close` and the end of the process, calls a method
on a nil `CaptureFile` (`ondemand.go:145`), though CONTRIBUTING.md:39 wants no panics. With a database configured and
the threshold out of reach the same invariant fails in 18 steps another way: `Resolver.Close` sets
`reader` to nil between the check and the call of a lookup (`LocateOfNil`, `resolver.go:205,227`).

A connection can outlast its deadline (`Jam`). One session channel with one exec, then
more than 16 requests: nobody receives them (`ssh.go:153`), the mux of `x/crypto/ssh` waits to queue
the next, and does not come to the read that the deadline fails. So `range chans` (`ssh.go:112`) does not end, the
connection is not closed, and `Stop` waits for its handler. core-engine/spec.md:23 wants an
enforceable timeout on every connection. `StopReturns`, `ShutdownCompletes` and
`LoopsEnd` hold with this one exception, and name it; on the instance of `multiplexer` TLC refutes
`c \in expired ~> conn[c] # "handled"` by a `Jam`.

A session can end without an event: SMTP's `QUIT` returns before its event is offered, so one of
`QUIT` alone has none. A telnet client that leaves after the user name, an MQTT one that only pings and
disconnects, a PostgreSQL one that only asks for SSL, or a request that cannot be parsed leave
none either. threat-telemetry/spec.md:9 wants events of every session; `ReportsMatchInput` holds but
for this, and names it (`PassedOver`).

Seen while reading and modelled as the code is, or left out:

* `serve` takes any error of Accept for a closed listener (`multiplexer.go:100`): when the process
  is out of file descriptors, the loop of an open listener ends (`AcceptFails`).
* A torn line in `events.jsonl` swallows the next one, whose Persist returned nil
  (`LossBoundedByTears` says how much is lost).
* Two goroutines of an SSH session use one map and one working directory without a lock (`Collide`,
  `Land`): two `cd` that overlap may leave a directory that neither order gives, or a torn one. An exec
  request's length is read from one byte of four (`Received`).
* A payload of more than 65535 bytes is captured in part (`Frame`); the frame's header says its length.
* Rules of one name share the times noted under it (`InWindows`), each cutting them with its own window.
  The key is the name, a colon and the address: a name that ends like the beginning of an IPv6 address could
  share a key with another; the model keeps the two apart.
* `resolvePath` treats only a bare `..` as Unix does (`Plain`).
* SSH session goroutines outlive `Stop`, which "waits for active connections".
* The specification's CORE-1 (core-engine/spec.md:20) wants `up` to free the ports it has bound
  and to exit when one cannot be bound; `Bind` skips it, as the code does. Its CORE-2 (spec.md:28)
  wants an event for a connection that timed out; there is none. `max_connections` is read and
  never used.
* Shutdown does not drain the channel: what is in it is lost with the process.
* A capture the operator asks for goes to the address's `highscore-` file if it has one.
* `format: cidr` records
  "applied" with nothing to execute; `min_severity` of a rule is never looked at.
* Nothing receives from the hub's channel and its context is never cancelled: after 500
  events every ingest is refused until the process ends.
* Modbus answers are one byte shorter than their length field says
  (`modbus.go:133, 141, 151`: six bytes of header are allocated and seven written). The NetBIOS
  length of the SMB answer (`smb.go:64`, 64) and the BSON length of the MongoDB answer
  (`mongo.go:73`, 47 for 44) do not fit what follows either. The model has no bytes of answers.
* SMB offers its event before it reads what it would hash (`smb.go:51`), so the hash is
  never in a report; HTTP-like decoys hash what one `Read` returns of a body.
* MQTT acknowledges a PUBLISH of QoS 1 only if two bytes of payload follow.
* The number of answers per question is what the protocol of the decoy makes of it: none for DNS, several
  for a Redis array, as lines are answered one at a time.
* The campaign pane is sorted again under the cursor with every event; only the
  event pane moves the cursor along.

## 5. Proofs

What follows holds for every value of the constants that satisfies the module's `ASSUME`s:
any number of events, addresses, connections, calls or rules, any capacity, threshold or
score. TLC has checked each of the properties on the instances of section 3. The assumptions
are types (a map is defined on all its keys), that the markers for "nothing" (`NoLine`, `NoFile`,
`Idle`, `NoToken`) are none of the values, capacities that the code has as positive
constants, and these:

* `MultiplexerAssumption`: services and connections are finitely many, since the
  properties count them. `HoneynetAssumption` has that too.
* `TuiAssumption`: a file of an earlier run holds an event once (what `JsonlKeepsOrder` shows of
  a run).
* `HistoryAssumption`: the session window is at least twice `Skew`, the longest time an event
  waits for the bus, and a second (less a tick). The window is two hours; the channel holds 200
  events, and a post of the sink gives up after 5 seconds, which makes a quarter of an hour. A
  firewall command has no time limit: where one hangs, this is an assumption about the host. The
  campaign IDs need it, and so does the campaign that the command continues.
* `HoneynetAssumption`: a database holds what its type names, and the MaxMind library, which is
  not part of this repository, answers `City` where it answers `Country`.

`PROJECT.json` says of each theorem what it establishes. Almost no property is inductive as it
stands; the invariants it takes are these.

**`EventPipelineProofs`**. `IInv == TypeOK /\ AcceptedWasEmitted /\ NoneLostOrOvertaken`: that the
next event emitted was not accepted before needs to know that everything accepted was
emitted. `TypeStep` gives the types, `ChannelStep` what emission and the bus do to the channel,
`OrderStep` the order through each action. On it rest `StagesKeepStep` (with `TakenStep`, how the number of
received events moves), the refinement `PipelineImplementsDelivery` (`Emit` maps to `Accept` or `Refuse`, the
persist to `Record` or `GiveUp`, the rest to stuttering; every behaviour of the pipeline is one of
`EventDelivery` under `offered <- emitted`, `settled <- Settled`, `recorded <-` the events of `jsonl`), and
`JsonlKeepsOrder`. `LinesAreComplete` adds `CaptureInv`: an event has a frame only when it is past
the hook, so that a line written without a path never gets one later. `ScreenShowsJsonl` adds
`ShownInv`: the screen has nothing of what the bus still works on, and what it is sent next is
the last line.

**`MultiplexerProofs`**. `Inv` says which loop has a connection in hand (`HeldByItsLoop`,
`HeldAlone`), that the map of listeners is the set of open sockets, and that a service not bound
yet has no loop; else `Add` could count a goroutine twice. `StopLeavesNothing` is the zero of the counter
then: no loop and no handler, hence no connection between them.

**`OnDemandCaptureProofs`**. `Inv` ties the maps to the disk: a file is named after the address it was
opened for, what is in it came from there, and an open file has its header. `WriteStep` reduces all
that a call can do to a disk, failures included, to what it appends (`Wrote`).

**`HoneynetProofs`**. `Travel`: an event is in one place, in the channel, in the bus's hand or in the
file. With it, `LinesNameFrames` follows from `PathsWereAnswered` and frames that are only added to;
`LinesTellWhereFrom` from `LookupOnItsWay`, which says of a lookup under way that what is still missing is
in the answers of the calls to come, as long as `main` has not closed the reader. `PartsBehave`:
the process refines `Multiplexer` and `EventPipeline`, so the theorems about these hold in it. `OnlySessionsEmit`
rests on that: with the counter exact (`Counted`, by `CountStep` and `EngineStep`: the argument of `MultiplexerProofs`
over the instance, since `tlapm` lets no theorem be used through INSTANCE) no handler is left when `Stop`
returns, and the one step that emits without one is a session's. The process does not refine
`OnDemandCapture`, which a panic of the resolver would stop too; so `LinesNameFrames` is proved over the composition.

**`CampaignHistoryProofs`**. `Inv` says where events are in the file: numbered in order (`FileOrdered`), every
acknowledged one in a whole line (`LinesKept`), and that a campaign's ID is behind what its address may open next
(`IDsBehind`). `ReadersInOrder` and `LossIsBounded` are about a concatenation of one piece per line, campaigns and
their rebuilding about folds. The proofs are inductions all the same: lemma `Induction` states induction for the set
of numbers a formula holds of, from the library's least elements of well-founded orders (`WFMin`), and
`Flattening` and `RebuildSteps` show with it that the recursive functions behind `FlattenSeq` and `FoldLeft` exist and
what one more element adds to them.

* `CampaignsAreSessions` takes `SessionsKept`: each campaign says what its session does, its last hop included
  (`Fits`), which is what one more event needs to extend it (`OneMoreFits`); `SessionGrows` is the same of the
  session. Field by field, it compares counters and lists kept by the code with cardinalities of what changed.
* `CommandExtendsScreen` takes what the two ways of an event have in common: the log of the correlator is the end of
  what the store was given (`LogOfThisRun`), all of it stamped after earlier runs (`Stamped`). `Continues` walks the two
  folds side by side. At each event of this run the rebuilt campaign has the live one's last event and began
  no later (`Pair`), so both open a new campaign or both join (`PairIngests`). Events that earlier runs had and no
  one can read any more only shorten what comes before. `NoneYet` is for addresses pruned from memory, which the
  command never prunes.

**`SoarProofs`**. The engine forgets times before the cut-off, the definition of the rate rule does
not, and rules of one name forget for each other. `EvalsInOrder` (evaluations are numbered in the order of time)
and `NotesAreStillNoted` (what is noted under a name and an address is exactly what lies in the windows of
all matches since, `StillNoted`) make them agree, `OneWindow` reduces the windows of rules with one window to the last of
them, and `FiresInWindow` counts by an equality of sets (`NotedUnder`, `FiredRight`). `ResultsAreAnAccount` counts
recorded successes and unrecorded executions by cardinality over every step of the two callers.

**`OperatorTuiProofs`**. `SortedRows`, `Panes` and `OnTop` are what sorting and cutting do to a pane; from them
`Inv`: the pane is as long as the board and the room for it, the cursor is in it, an event is in
the feed, in hand or received only once, and the pane is what the property says. `CursorStaysOnRow` holds because
the screen's correlator forgets no campaign: the campaign pane never gets shorter.

**`ClusterHubProofs`**. `Inv` says where a call is and what that means. `HeldOnce` (the hub takes a call once,
buffered, drained, lost or registered), `AnswersMatch` (what the answer on its way says is what was
done) and `HeldWasServed` (nothing is taken that the checks refuse) make `IngestAnswersTrue`. For
`JoinsStand`: the map holds each sensor's last join (`NodesHoldTheLast`), and a join that overtook a
later one had been given up (`OvertakenWasGivenUp`), since a sensor makes one call at a time.

### What stays with TLC, and why

* Liveness, in all modules: fairness is about `ENABLED`, for which the prover has no rules.
* `SshSession` and `DecoyDialogues`: their properties compare sequences of reports with
  selections (`SelectSeq`) from the input, for SMTP with a fixed point over it. The prover
  does not expand `SelectSeq`, so nothing can be shown of it. The runs have three inputs and
  dialogues of five items.

No module declares a RECURSIVE operator.

## 6. Plan

Order of work, most important behaviour first:

1. *(done)* `EventDelivery`, `EventPipeline`, its runs and its proofs.
2. *(done)* `Multiplexer`, `OnDemandCapture` and their composition `Honeynet`.
3. *(done)* What the stages call: `IntelStore`, `Correlator`, `Soar`.
4. *(done)* The far ends: `SshSession`, `DecoyDialogues`, `OperatorTui`, `ClusterHub`.
5. *(done)* `CampaignHistory`, the composition of store and correlator with the commands that
   read the file; fourteen dialogues; the GeoIP resolver in `Honeynet`; restarts of the hub.
6. *(done)* Proofs about `Multiplexer`, `OnDemandCapture`, `ClusterHub`, `Soar`, `OperatorTui`, about what lines and
   screen say in `EventPipeline`, and about `Honeynet`.
7. *(done)* Proofs about the file, the campaigns and the command that rebuilds them in `CampaignHistory`; what emits
   after `Stop` in `Honeynet`.
8. Left to model: the campaign pane's references read while the bus writes, and its order under
   the cursor; a firewall binary that never ends.
9. Left to prove: that what `SshSession` runs was reported, once `CommandsOf` is written without `SelectSeq`.
