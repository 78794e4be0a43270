--------------------------- MODULE CampaignHistory ---------------------------
(***************************************************************************)
(* The campaigns of `shinkiro up` and those of `shinkiro campaigns`.  The  *)
(* bus gives an event first to the correlator, which lives in memory and   *)
(* is empty whenever the process starts, and then to the store, whose file *)
(* outlives it.  The command rebuilds the campaigns from that file, of any *)
(* number of runs and with torn lines in it (campaigns_feeds_coverage.go); *)
(* `shinkiro export` makes a store of its own on the file as well.         *)
(*                                                                         *)
(* The bus handles one event after the other, so an event's two stages are *)
(* one step here; a process that ends between them is one that ends before *)
(* its write.  A restarted process stamps no event before its start.       *)
(***************************************************************************)
EXTENDS Naturals, Sequences, FiniteSets, SequencesExt

CONSTANTS
  IP, Decoy,
  ScoreOf,         \* the score of the n-th event
  Threshold,       \* of `shinkiro export`
  SessionWindow, PerSecond, Skew, NoCampaign,
  MaxTime, MaxEvents, MaxStarts     \* bounds of the model

\* The n-th event given to the bus.
Event == [n : 1..MaxEvents, ip : IP, decoy : Decoy]

VARIABLES
  up, starts, blocklist, file, tried, acked,   \* the store's
  now, campaigns, log, pruned, opened,                    \* the correlator's
  stamp,       \* Timestamp of the n-th event
  born         \* when the process started

Store == INSTANCE IntelStore
  WITH RemoteIP <- [e \in Event |-> e.ip], ThreatScore <- [e \in Event |-> ScoreOf[e.n]]
Corr == INSTANCE Correlator
  WITH ThreatScore <- {ScoreOf[n] : n \in 1..MaxEvents}, Tactic <- Decoy

ASSUME HistoryAssumption ==
  /\ ScoreOf \in [1..MaxEvents -> Nat]
  /\ Store!StoreConstants /\ Corr!CorrelatorConstants

storeVars == <<up, starts, blocklist, file, tried, acked>>
corrVars == <<now, campaigns, log, pruned, opened>>
vars == <<storeVars, corrVars, stamp, born>>

\* The event as the correlator sees it; the tactic goes with the decoy.
Seen(e, time) == [ip |-> e.ip, time |-> time, decoy |-> e.decoy, score |-> ScoreOf[e.n],
                  tactic |-> e.decoy]

IsNext(e) == e.n = Len(tried) + 1
Stamps == {t \in (now - Skew)..now : t >= born}

-----------------------------------------------------------------------------
Init ==
  /\ Store!Init /\ Corr!Init
  /\ stamp = <<>> /\ born = 0

\* NewEngine makes a new correlator with the new blocklist.
Start ==
  /\ Store!Start
  /\ born' = now
  /\ campaigns' = Corr!NoCampaigns /\ log' = <<>> /\ opened' = {}
  /\ pruned' = [ip \in IP |-> 0]
  /\ UNCHANGED <<now, stamp>>

\* The Correlate and the Sink stage of an event.
Handle ==
  \E e \in Event, t \in Stamps :
    /\ IsNext(e)
    /\ Corr!Ingest(Seen(e, t))
    /\ Store!Persist(e)
    /\ stamp' = Append(stamp, t)
    /\ UNCHANGED born

\* The process ends, perhaps in the middle of the write of an event.
Stop ==
  /\ Store!Stop
  /\ \/ tried' = tried /\ UNCHANGED stamp
     \/ \E t \in Stamps : /\ tried' # tried /\ IsNext(Last(tried'))
                          /\ stamp' = Append(stamp, t)
  /\ UNCHANGED <<corrVars, born>>

\* (Bound of the model: the clock matters to a process, or to the next one.)
Tick == /\ up \/ starts < MaxStarts
        /\ Corr!Tick /\ UNCHANGED <<storeVars, stamp, born>>
PruneExpired == up /\ Corr!PruneExpired /\ UNCHANGED <<storeVars, stamp, born>>

Next == Start \/ Handle \/ Stop \/ Tick \/ PruneExpired

Spec == Init /\ [][Next]_vars

-----------------------------------------------------------------------------
\* What `shinkiro campaigns` shows: every event that can be read, in the order of
\* the file, through a correlator of its own.
Rebuild(events) ==
  FoldLeft(LAMBDA cs, e : [cs EXCEPT ![e.ip] = Corr!Ingested(@, Seen(e, stamp[e.n]))],
           Corr!NoCampaigns, events)

Rebuilt_OfTheScreen == Rebuild(Store!RecentEvents(file, 2))

Rebuilt == Rebuild(Store!RecentEvents(file, 0))

\* What `shinkiro export` and `shinkiro kernel` list: the malicious addresses of the
\* engine they have just made.
Exported == Store!MaliciousIPs(Store!NewBlocklist)

-----------------------------------------------------------------------------
\* Readers of the file see events in order, none twice (IntelStore; engine.go:93-118).
ReadersSeeOrder == Store!ReadersSeeOrder

\* A torn write costs at most two events (IntelStore; engine.go:76, 102-112).
LossBoundedByTears == Store!LossBoundedByTears

\* A campaign is a function of its address's last session (Correlator;
\* correlator.go:53-134).
CampaignIsLastSession == Corr!CampaignIsLastSession

\* Campaigns of one run have IDs of their own (Correlator; correlator.go:61).
CampaignIDsDiffer == Corr!CampaignIDsDiffer

ThisRun == {tried[i] : i \in (Len(tried) - Len(log) + 1)..Len(tried)}
Sessions(ip) == Cardinality({c \in opened : c.ip = ip})

\* The command and the screen of the running process do not contradict each other:
\* while the events this run had of an address can be read, the campaign rebuilt
\* from the file is the one in memory, continued backwards by what earlier runs
\* left, and the same once the address has been away for a window
\* (campaigns_feeds_coverage.go:36-46 with engine.go:32 and correlator.go:58).
RebuiltExtendsLive ==
  \A ip \in IP :
    LET live == campaigns[ip]
        cli == Rebuilt[ip]
    IN  /\ up /\ live # NoCampaign
        /\ {e \in ThisRun : e.ip = ip} \subseteq Range(Store!Readable(file))
        => /\ cli # NoCampaign
           /\ cli.first <= live.first /\ cli.last = live.last
           /\ cli.total >= live.total /\ cli.max >= live.max
           /\ IsSuffix(live.hops, cli.hops)
           /\ Range(live.decoys) \subseteq Range(cli.decoys)
           /\ Sessions(ip) > 1 /\ pruned[ip] = 0 => cli = live

\* "GIVEN detected attacker IPs with severity >= HIGH WHEN `shinkiro export blocklist
\* --format iptables` is executed THEN formatted `iptables -A INPUT -s <IP> -j DROP`
\* commands are written to stdout" (threat-telemetry/spec.md:20-22): an address
\* whose readable events add up to the threshold is listed.
ExportListsMalicious ==
  \A ip \in IP :
    MapThenSumSet(LAMBDA e : ScoreOf[e.n],
                  {e \in Range(Store!Readable(file)) : e.ip = ip}) >= Threshold
      => ip \in Exported
=============================================================================
