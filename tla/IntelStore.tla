----------------------------- MODULE IntelStore -----------------------------
(***************************************************************************)
(* The store behind `shinkiro up` (internal/intel/engine.go): a cumulative *)
(* score per address in memory and one JSON line per event appended to     *)
(* events.jsonl, which outlives the process.  RecentEvents rereads the     *)
(* file.                                                                   *)
(*                                                                         *)
(* What a write leaves in the file is a whole line, a "cut" line, or a     *)
(* "bare" one, complete but for its newline; a cut or bare line runs into  *)
(* the one appended after it.                                              *)
(***************************************************************************)
EXTENDS Naturals, Sequences, FiniteSets, SequencesExt

CONSTANTS
  Event,          \* events the sink persists, each once
  IP, RemoteIP,   \* addresses, Event -> IP
  ThreatScore,    \* Event -> Nat
  Threshold,      \* score from which an address counts as malicious
  MaxStarts       \* bound of the model: runs of `shinkiro up`

\* Assumed where the module is instantiated.
StoreConstants ==
  /\ RemoteIP \in [Event -> IP]
  /\ ThreatScore \in [Event -> Nat]
  /\ Threshold \in Nat \ {0} /\ MaxStarts \in Nat

VARIABLES
  up,           \* the process runs
  starts,       \* how often it was started
  blocklist,    \* Engine.blocklist
  file,         \* events.jsonl, as what each write left in it
  tried,        \* events given to Persist, in order
  acked         \* those for which it returned nil

vars == <<up, starts, blocklist, file, tried, acked>>

NewBlocklist == [ip \in IP |-> 0]
MaliciousIPs(list) == {ip \in IP : list[ip] >= Threshold}

\* Which pieces RecentEvents can decode: a line of its own, ended by a newline
\* or by the end of the file.
Decodes_UntilFirstBad(f, i) == \A j \in 1..i : f[j].form = "line"

Decodes(f, i) ==
  /\ f[i].form = "line" \/ (f[i].form = "bare" /\ i = Len(f))
  /\ i = 1 \/ f[i - 1].form = "line"

Readable(f) ==
  LET At(i) == IF Decodes(f, i) THEN <<f[i].ev>> ELSE <<>>
  IN  FlattenSeq([i \in DOMAIN f |-> At(i)])

\* The last `limit` events that decode; all of them when limit is 0.
RecentEvents(f, limit) ==
  LET all == Readable(f)
  IN  IF limit > 0 /\ Len(all) > limit
        THEN SubSeq(all, Len(all) - limit + 1, Len(all))
        ELSE all

-----------------------------------------------------------------------------
Init ==
  /\ up = FALSE /\ starts = 0
  /\ blocklist = NewBlocklist
  /\ file = <<>>
  /\ tried = <<>> /\ acked = {}

\* NewEngine: an empty blocklist, whatever the file holds.
Start ==
  /\ ~up /\ starts < MaxStarts
  /\ up' = TRUE
  /\ starts' = starts + 1
  /\ blocklist' = NewBlocklist
  /\ UNCHANGED <<file, tried, acked>>

Raised(e) == [blocklist EXCEPT ![RemoteIP[e]] = @ + ThreatScore[e]]

Persist_BacklogLast(e) ==
  /\ up /\ e \notin Range(tried)
  /\ tried' = Append(tried, e)
  /\ blocklist' = Raised(e)
  /\ \/ UNCHANGED <<file, acked>>
     \/ \E late \in (Range(tried) \ acked) :
          /\ file' = file \o <<[ev |-> e, form |-> "line"], [ev |-> late, form |-> "line"]>>
          /\ acked' = acked \cup {e, late}
  /\ UNCHANGED <<up, starts>>

\* Persist: the score counts first; then the line is written, or the open fails,
\* or the write fails part of the way.
Persist(e) ==
  /\ up /\ e \notin Range(tried)
  /\ tried' = Append(tried, e)
  /\ blocklist' = Raised(e)
  /\ \/ /\ file' = Append(file, [ev |-> e, form |-> "line"])
        /\ acked' = acked \cup {e}
     \/ /\ \/ UNCHANGED file
           \/ file' \in {Append(file, [ev |-> e, form |-> f]) : f \in {"cut", "bare"}}
        /\ UNCHANGED acked
  /\ UNCHANGED <<up, starts>>

\* The process ends, between two calls or in the middle of a write.
Stop ==
  /\ up
  /\ up' = FALSE
  /\ \/ UNCHANGED <<file, tried>>
     \/ \E e \in Event \ Range(tried) :
          /\ tried' = Append(tried, e)
          /\ file' \in {Append(file, [ev |-> e, form |-> f]) : f \in {"line", "cut", "bare"}}
  /\ UNCHANGED <<starts, blocklist, acked>>

Next ==
  \/ Start \/ Stop
  \/ \E e \in Event : Persist(e)

Spec == Init /\ [][Next]_vars

-----------------------------------------------------------------------------
\* A reader of the file sees events in the order they were persisted in, none
\* twice, across restarts and torn writes (engine.go:72-77, 93-118).
ReadersSeeOrder ==
  \A limit \in 0..2 :
    LET seen == RecentEvents(file, limit)
        Place(i) == CHOOSE k \in DOMAIN tried : tried[k] = seen[i]
    IN  \A i, j \in DOMAIN seen : i < j => Place(i) < Place(j)

\* A torn write costs its own event and at most the one appended after it, and
\* every other event whose Persist returned nil stays readable.
LossBoundedByTears ==
  Cardinality(acked \ Range(Readable(file)))
    <= Cardinality({i \in DOMAIN file : file[i].form # "line"})
=============================================================================
