----------------------------- MODULE Correlator -----------------------------
(***************************************************************************)
(* Campaign correlation (internal/intel/correlator.go): one open campaign  *)
(* per address, kept event by event; an event later than the session       *)
(* window opens a new one in its place.  Timestamps are taken by decoy     *)
(* goroutines before they send, so events may arrive up to Skew ticks late *)
(* and out of order.                                                       *)
(***************************************************************************)
EXTENDS Integers, Sequences, FiniteSets, SequencesExt

CONSTANTS
  IP, Decoy, Tactic, ThreatScore,   \* the values events are made of
  SessionWindow,   \* in ticks (2 hours in engine.go)
  PerSecond,       \* ticks per second: a campaign's ID holds a Unix second
  Skew,            \* how late an event may be ingested
  MaxTime,         \* bound of the model: the clock
  MaxEvents,       \* bound of the model: events
  NoCampaign

Campaign == [id : Nat, first : Nat, last : Nat, total : Nat, max : Nat, decoys : Seq(Decoy),
             hops : Seq(Decoy), tactics : Seq(Tactic), hopped : BOOLEAN]

\* Assumed where the module is instantiated.  The window of two hours outlasts
\* twice the time an event may wait for the bus, and a second.
CorrelatorConstants ==
  /\ ThreatScore \subseteq Nat
  /\ SessionWindow \in Nat \ {0} /\ PerSecond \in Nat \ {0}
  /\ Skew \in Nat /\ MaxTime \in Nat /\ MaxEvents \in Nat
  /\ 2 * Skew + PerSecond <= SessionWindow + 1
  /\ NoCampaign \notin Campaign

Events == [ip : IP, time : 0..MaxTime, decoy : Decoy, score : ThreatScore, tactic : Tactic]

VARIABLES
  now,         \* the clock
  campaigns,   \* Correlator.campaigns
  log,         \* events ingested, in order
  pruned,      \* IP -> events ingested when its campaign was pruned last
  opened       \* campaigns opened so far: address and ID

vars == <<now, campaigns, log, pruned, opened>>

Include(seq, x) == IF Contains(seq, x) THEN seq ELSE Append(seq, x)

NewCampaign(e) ==
  [id |-> e.time \div PerSecond, first |-> e.time, last |-> e.time, total |-> 0, max |-> 0,
   decoys |-> <<>>, hops |-> <<>>, tactics |-> <<>>, hopped |-> FALSE]

Expired(c, e) == c # NoCampaign /\ e.time - c.last > SessionWindow

Joined_HopsOnce(c, e) ==
  LET decoys == Include(c.decoys, e.decoy)
  IN  [c EXCEPT !.last = e.time,
                !.total = @ + 1,
                !.max = IF e.score > @ THEN e.score ELSE @,
                !.decoys = decoys,
                !.hopped = @ \/ Len(decoys) > 1,
                !.hops = Include(@, e.decoy),
                !.tactics = Include(@, e.tactic)]

\* What an event adds to its campaign.
Joined(c, e) ==
  LET decoys == Include(c.decoys, e.decoy)
  IN  [c EXCEPT !.last = e.time,
                !.total = @ + 1,
                !.max = IF e.score > @ THEN e.score ELSE @,
                !.decoys = decoys,
                !.hopped = @ \/ Len(decoys) > 1,
                !.hops = IF @ = <<>> \/ Last(@) # e.decoy THEN Append(@, e.decoy) ELSE @,
                !.tactics = Include(@, e.tactic)]

Opens(c, e) == c = NoCampaign \/ Expired(c, e)
Ingested(c, e) == Joined(IF Opens(c, e) THEN NewCampaign(e) ELSE c, e)

NoCampaigns == [ip \in IP |-> NoCampaign]

-----------------------------------------------------------------------------
Init ==
  /\ now = 0
  /\ campaigns = NoCampaigns
  /\ log = <<>>
  /\ pruned = [ip \in IP |-> 0]
  /\ opened = {}

Tick ==
  /\ now < MaxTime
  /\ now' = now + 1
  /\ UNCHANGED <<campaigns, log, pruned, opened>>

Ingest(e) ==
  /\ campaigns' = [campaigns EXCEPT ![e.ip] = Ingested(@, e)]
  /\ log' = Append(log, e)
  /\ opened' = IF Opens(campaigns[e.ip], e)
               THEN opened \cup {[ip |-> e.ip, id |-> e.time \div PerSecond, at |-> Len(log)]}
               ELSE opened
  /\ UNCHANGED <<now, pruned>>

IngestLate ==
  /\ Len(log) < MaxEvents
  /\ \E e \in Events : e.time \in (now - Skew)..now /\ Ingest(e)

PruneExpired_All ==
  /\ campaigns' = NoCampaigns
  /\ pruned' = [ip \in IP |-> IF campaigns[ip] # NoCampaign THEN Len(log) ELSE pruned[ip]]
  /\ UNCHANGED <<now, log, opened>>

\* Campaigns last seen more than a window ago are dropped.
PruneExpired ==
  LET stale == {ip \in IP : campaigns[ip] # NoCampaign
                              /\ now - campaigns[ip].last > SessionWindow}
  IN  /\ campaigns' = [ip \in IP |-> IF ip \in stale THEN NoCampaign ELSE campaigns[ip]]
      /\ pruned' = [ip \in IP |-> IF ip \in stale THEN Len(log) ELSE pruned[ip]]
      /\ UNCHANGED <<now, log, opened>>

Next == Tick \/ IngestLate \/ PruneExpired

Spec == Init /\ [][Next]_vars

-----------------------------------------------------------------------------
(* What a campaign should be, from the whole history of its address. *)

\* Those of a sequence of events that come from an address.
From(ip, s) == FlattenSeq([i \in DOMAIN s |-> IF s[i].ip = ip THEN <<s[i]>> ELSE <<>>])

Since(ip) == From(ip, SubSeq(log, pruned[ip] + 1, Len(log)))

\* The events after the last gap of more than a window.
Session(s) ==
  LET begins == {i \in DOMAIN s : i = 1 \/ s[i].time - s[i - 1].time > SessionWindow}
  IN  SubSeq(s, CHOOSE i \in begins : \A j \in begins : j <= i, Len(s))

\* The campaign as a function of its events, field by field.
Describes(c, s) ==
  LET decoyAt(i) == s[i].decoy
      changes == {i \in DOMAIN s : i = 1 \/ decoyAt(i) # decoyAt(i - 1)}
      Before(i, set) == Cardinality({j \in set : j <= i})
  IN  /\ c.id = s[1].time \div PerSecond /\ c.first = s[1].time /\ c.last = Last(s).time
      /\ c.total = Len(s)
      /\ \A i \in DOMAIN s : s[i].score <= c.max
      /\ \E i \in DOMAIN s : s[i].score = c.max
      /\ Len(c.hops) = Cardinality(changes)
      /\ \A i \in changes : c.hops[Before(i, changes)] = decoyAt(i)
      /\ Range(c.decoys) = {decoyAt(i) : i \in DOMAIN s}
      /\ Len(c.decoys) = Cardinality(Range(c.decoys))
      /\ \A i \in DOMAIN c.decoys : \A j \in DOMAIN c.decoys :
           i < j => \E k \in DOMAIN s : /\ decoyAt(k) = c.decoys[i]
                                        /\ \A l \in 1..k : decoyAt(l) # c.decoys[j]
      /\ c.hopped <=> Cardinality(Range(c.decoys)) > 1
      /\ Range(c.tactics) = {s[i].tactic : i \in DOMAIN s}
      /\ Len(c.tactics) = Cardinality(Range(c.tactics))

\* The campaign kept event by event is what its address's last session of
\* events says, however late and out of order they came (correlator.go:53-134).
CampaignIsLastSession ==
  \A ip \in IP :
    IF campaigns[ip] = NoCampaign
      THEN Since(ip) = <<>>
      ELSE Since(ip) # <<>> /\ Describes(campaigns[ip], Session(Since(ip)))

\* No two campaigns of an address in one run share an ID, though the ID names only
\* the second the campaign began in: the window outlasts twice the skew and a
\* second (correlator.go:61).
CampaignIDsDiffer == \A c, d \in opened : c.ip = d.ip /\ c.id = d.id => c = d

=============================================================================
