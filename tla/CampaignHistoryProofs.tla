------------------------ MODULE CampaignHistoryProofs ------------------------
(***************************************************************************)
(* Proofs about CampaignHistory: the file and its readers, the campaigns   *)
(* in memory, for any number of events, addresses, runs and torn writes.   *)
(*                                                                         *)
(* What RecentEvents reads and what a session is are concatenations of one *)
(* piece per line or event, and a campaign rebuilt from the file is a fold *)
(* over it.  Flattening and RebuildSteps say what one more piece adds, by  *)
(* induction (lemma Induction); the rest follows the process state by      *)
(* state.                                                                  *)
(***************************************************************************)
EXTENDS CampaignHistory, FiniteSetTheorems, SequenceTheorems, WellFoundedInduction, TLAPS

\* Induction over the naturals, for what a set of them says.
LEMMA Induction ==
  ASSUME NEW T, 0 \in T, \A n \in Nat : n \in T => n + 1 \in T
  PROVE  \A n \in Nat : n \in T
<1>1. ASSUME NEW m \in Nat, m \notin T
      PROVE  FALSE
  <2>1. \E x \in Nat \ T : \A y \in Nat \ T : ~ (y < x)
    <3>1. Nat \ T \subseteq Nat /\ Nat \ T # {}
      BY <1>1
    <3>2. PICK x \in Nat \ T : \A y \in Nat \ T : ~ (<<y, x>> \in OpToRel(<, Nat))
      BY <3>1, WFMin, NatLessThanWellFounded
    <3>3. \A y \in Nat \ T : ~ (y < x)
      BY <3>2 DEF OpToRel
    <3> QED BY <3>3, Zenon
  <2>2. PICK x \in Nat \ T : \A y \in Nat \ T : ~ (y < x)
    BY <2>1, Zenon
  <2>3. x - 1 \in Nat /\ x - 1 < x /\ (x - 1) + 1 = x
    BY <2>2
  <2> QED BY <2>2, <2>3
<1> QED BY <1>1

\* What one more element does to the concatenation of a sequence of sequences.
LEMMA Flattening ==
  ASSUME NEW S, NEW ss \in Seq(Seq(S)), NEW x \in Seq(S)
  PROVE  /\ FlattenSeq(ss) \in Seq(S)
         /\ FlattenSeq(Append(ss, x)) = FlattenSeq(ss) \o x
<1> DEFINE Pass(f, tt, n) == f = [i \in 1..n |-> IF i = 1 THEN tt[i] ELSE f[i - 1] \o tt[i]]
           F(tt) == CHOOSE f : Pass(f, tt, Len(tt))
           Flat(tt) == IF Len(tt) = 0 THEN tt ELSE F(tt)[Len(tt)]
<1>1. ASSUME NEW tt \in Seq(Seq(S))
      PROVE  Pass(F(tt), tt, Len(tt))
  <2> DEFINE T == {n \in Nat : \E f : Pass(f, tt, n)}
  <2>1. 0 \in T
    <3>1. Pass([i \in 1..0 |-> i], tt, 0)
      OBVIOUS
    <3> QED BY <3>1
  <2>2. ASSUME NEW n \in Nat, n \in T
        PROVE  n + 1 \in T
    <3>1. PICK f : Pass(f, tt, n)
      BY <2>2
    <3> DEFINE g == [i \in 1..(n + 1) |-> IF i <= n THEN f[i]
                                          ELSE IF i = 1 THEN tt[i] ELSE f[n] \o tt[i]]
    <3>2. ASSUME NEW i \in 1..(n + 1)
          PROVE  g[i] = IF i = 1 THEN tt[i] ELSE g[i - 1] \o tt[i]
      <4>1. CASE i <= n
        <5>1. i \in 1..n /\ g[i] = f[i] /\ (i # 1 => g[i - 1] = f[i - 1])
          BY <4>1
        <5>2. f[i] = IF i = 1 THEN tt[i] ELSE f[i - 1] \o tt[i]
          BY <3>1, <5>1
        <5> QED BY <5>1, <5>2
      <4>2. CASE i = n + 1
        <5>1. i # 1 => i - 1 = n /\ g[i - 1] = f[n]
          BY <4>2
        <5>2. g[i] = IF i = 1 THEN tt[i] ELSE f[n] \o tt[i]
          BY <4>2
        <5> QED BY <5>1, <5>2
      <4> QED BY <4>1, <4>2
    <3>3. g = [i \in 1..(n + 1) |-> g[i]]
      OBVIOUS
    <3> HIDE DEF g
    <3>4. Pass(g, tt, n + 1)
      BY <3>2, <3>3
    <3>5. \E h : Pass(h, tt, n + 1)
      BY <3>4
    <3> HIDE DEF Pass
    <3> QED BY <3>5
  <2>3. Len(tt) \in T
    <3> HIDE DEF T
    <3> QED BY <2>1, <2>2, Induction, Len(tt) \in Nat
  <2> QED BY <2>3
<1>2. ASSUME NEW tt \in Seq(Seq(S)), NEW n \in 1..Len(tt)
      PROVE  F(tt)[n] = IF n = 1 THEN tt[n] ELSE F(tt)[n - 1] \o tt[n]
  <2> DEFINE f == F(tt)
  <2>1. Pass(f, tt, Len(tt))
    BY <1>1
  <2> HIDE DEF f, F
  <2>2. f[n] = IF n = 1 THEN tt[n] ELSE f[n - 1] \o tt[n]
    BY <2>1
  <2> QED BY <2>2 DEF f
<1> HIDE DEF F
<1>3. ASSUME NEW tt \in Seq(Seq(S)), NEW m \in 1..Len(tt)
      PROVE  F(tt)[m] \in Seq(S)
  <2> DEFINE T == {n \in Nat : n \in 1..Len(tt) => F(tt)[n] \in Seq(S)}
  <2>1. 0 \in T
    OBVIOUS
  <2>2. ASSUME NEW n \in Nat, n \in T
        PROVE  n + 1 \in T
    <3>1. CASE n + 1 \in 1..Len(tt)
      <4>1. tt[n + 1] \in Seq(S) /\ Len(tt) \in Nat
        BY <3>1
      <4>2. CASE n = 0
        BY <3>1, <4>1, <4>2, <1>2
      <4>3. CASE n # 0
        <5>1. n \in 1..Len(tt) /\ F(tt)[n] \in Seq(S)
          BY <3>1, <4>1, <4>3, <2>2
        <5>2. F(tt)[n + 1] = IF n + 1 = 1 THEN tt[n + 1] ELSE F(tt)[(n + 1) - 1] \o tt[n + 1]
          BY <3>1, <1>2
        <5>3. (n + 1) - 1 = n /\ n + 1 # 1
          BY <4>3
        <5>4. F(tt)[n] \o tt[n + 1] \in Seq(S)
          BY <4>1, <5>1
        <5>5. F(tt)[n + 1] \in Seq(S)
          BY <5>2, <5>3, <5>4, Zenon
        <5> QED BY <5>5
      <4> QED BY <4>2, <4>3
    <3>2. CASE n + 1 \notin 1..Len(tt)
      BY <3>2
    <3> QED BY <3>1, <3>2
  <2>3. m \in T
    <3> HIDE DEF T
    <3> QED BY <2>1, <2>2, Induction, m \in Nat
  <2> QED BY <2>3
<1> DEFINE tt == Append(ss, x)
<1>4. tt \in Seq(Seq(S)) /\ Len(ss) \in Nat /\ Len(tt) = Len(ss) + 1 /\ tt[Len(tt)] = x
      /\ \A i \in 1..Len(ss) : tt[i] = ss[i]
  OBVIOUS
<1> HIDE DEF tt
<1>5. ASSUME NEW m \in 1..Len(ss)
      PROVE  F(tt)[m] = F(ss)[m]
  <2> DEFINE T == {n \in Nat : n \in 1..Len(ss) => F(tt)[n] = F(ss)[n]}
  <2>1. 0 \in T
    OBVIOUS
  <2>2. ASSUME NEW n \in Nat, n \in T
        PROVE  n + 1 \in T
    <3>1. CASE n + 1 \in 1..Len(ss)
      <4>1. /\ F(ss)[n + 1] = IF n + 1 = 1 THEN ss[n + 1] ELSE F(ss)[(n + 1) - 1] \o ss[n + 1]
            /\ F(tt)[n + 1] = IF n + 1 = 1 THEN tt[n + 1] ELSE F(tt)[(n + 1) - 1] \o tt[n + 1]
        <5>1. n + 1 \in 1..Len(tt)
          BY <3>1, <1>4
        <5> QED BY <3>1, <5>1, <1>2, <1>4
      <4>2. tt[n + 1] = ss[n + 1]
        BY <3>1, <1>4
      <4>3. n # 0 => F(tt)[n] = F(ss)[n]
        BY <3>1, <1>4, <2>2
      <4> QED BY <4>1, <4>2, <4>3
    <3>2. CASE n + 1 \notin 1..Len(ss)
      BY <3>2
    <3> QED BY <3>1, <3>2
  <2>3. m \in T
    <3> HIDE DEF T
    <3> QED BY <2>1, <2>2, Induction, m \in Nat
  <2> QED BY <2>3
<1>6. Flat(ss) \in Seq(S) /\ Flat(tt) = Flat(ss) \o x
  <2>1. CASE Len(ss) = 0
    <3>1. ss = <<>>
      BY <2>1
    <3>2. F(tt)[1] = tt[1]
      <4>1. 1 \in 1..Len(tt)
        BY <2>1, <1>4
      <4> QED BY <4>1, <1>2, <1>4
    <3>3. <<>> \o x = x /\ <<>> \in Seq(S)
      OBVIOUS
    <3> QED BY <2>1, <3>1, <3>2, <3>3, <1>4
  <2>2. CASE Len(ss) # 0
    <3>1. Len(tt) \in 1..Len(tt) /\ Len(tt) # 1 /\ Len(tt) - 1 = Len(ss) /\ Len(ss) \in 1..Len(ss)
      BY <2>2, <1>4
    <3>2. F(tt)[Len(tt)] = F(tt)[Len(ss)] \o x
      BY <3>1, <1>2, <1>4
    <3>3. F(tt)[Len(ss)] = F(ss)[Len(ss)] /\ F(ss)[Len(ss)] \in Seq(S)
      BY <3>1, <1>3, <1>5
    <3> QED BY <2>2, <3>1, <3>2, <3>3, <1>4
  <2> QED BY <2>1, <2>2
<1>7. FlattenSeq(ss) = Flat(ss) /\ FlattenSeq(Append(ss, x)) = Flat(tt)
  BY DEF FlattenSeq, F, tt
<1> QED BY <1>6, <1>7

-----------------------------------------------------------------------------
(* The invariant. *)

Piece == [ev : Event, form : {"line", "cut", "bare"}]
MaybeCampaign == Corr!Campaign \cup {NoCampaign}

TypeOK ==
  /\ tried \in Seq(Event) /\ file \in Seq(Piece) /\ acked \subseteq Event
  /\ now \in 0..MaxTime /\ born \in 0..now
  /\ campaigns \in [IP -> MaybeCampaign]
  /\ log \in Seq(Corr!Events) /\ pruned \in [IP -> 0..Len(log)]
  /\ opened \subseteq [ip : IP, id : Nat, at : Nat]

\* The bus numbers events, and the file keeps the order of the numbers.
Numbered(f) == \A i, j \in DOMAIN f : i < j => f[i].ev.n < f[j].ev.n

FileOrdered ==
  /\ \A i \in DOMAIN tried : tried[i].n = i
  /\ \A i \in DOMAIN file : file[i].ev \in Range(tried)
  /\ Numbered(file)

\* An acknowledged event left a whole line.
LinesKept == \A e \in acked : \E i \in DOMAIN file : file[i].ev = e /\ file[i].form = "line"

\* The second an ID names lies so far back that the next campaign of its address
\* begins in a later one: a window behind the clock once the campaign is gone, and
\* not after the last event, give or take the skew, while one is open.
Begun(d) == d.id * PerSecond
IDsBehind ==
  \A d \in opened :
    /\ Begun(d) <= now
    /\ campaigns[d.ip] = NoCampaign => Begun(d) + SessionWindow + 1 <= now + Skew
    /\ campaigns[d.ip] # NoCampaign => Begun(d) <= campaigns[d.ip].last + Skew

Inv == TypeOK /\ FileOrdered /\ LinesKept /\ IDsBehind /\ CampaignIDsDiffer

-----------------------------------------------------------------------------
\* What a list keeps of the values included in it.
LEMMA Including ==
  ASSUME NEW S, NEW q \in Seq(S), NEW x \in S
  PROVE  LET r == Corr!Include(q, x)
         IN  /\ r \in Seq(S) /\ Range(r) = Range(q) \cup {x}
             /\ r = IF x \in Range(q) THEN q ELSE Append(q, x)
             /\ Len(q) = Cardinality(Range(q)) => Len(r) = Cardinality(Range(r))
<1> DEFINE r == Corr!Include(q, x)
<1>1. q \in Seq(S) /\ Len(q) \in Nat /\ DOMAIN q = 1..Len(q)
  OBVIOUS
<1>2. r = IF x \in Range(q) THEN q ELSE Append(q, x)
  BY <1>1 DEF Corr!Include, Corr!Contains, Range
<1> HIDE DEF r
<1>3. CASE x \in Range(q)
  BY <1>1, <1>2, <1>3 DEF r
<1>4. CASE x \notin Range(q)
  <2>1. r = Append(q, x)
    BY <1>2, <1>4
  <2>2. /\ r \in Seq(S) /\ Len(r) = Len(q) + 1 /\ DOMAIN r = 1..(Len(q) + 1)
        /\ r[Len(q) + 1] = x /\ \A i \in 1..Len(q) : r[i] = q[i]
    BY <1>1, <2>1
  <2>3. Range(r) = Range(q) \cup {x}
    BY <1>1, <2>2 DEF Range
  <2>4. IsFiniteSet(Range(q))
    <3>1. IsFiniteSet(1..Len(q))
      BY <1>1, FS_Interval
    <3>2. q = [i \in 1..Len(q) |-> q[i]] /\ \A i \in 1..Len(q) : q[i] \in Range(q)
      BY <1>1 DEF Range
    <3>3. q \in Surjection(1..Len(q), Range(q))
      BY <1>1, <3>2 DEF Range, Surjection
    <3> QED BY <3>1, <3>3, FS_Surjection
  <2>5. Cardinality(Range(q) \cup {x}) = Cardinality(Range(q)) + 1
    BY <1>4, <2>4, FS_AddElement
  <2> QED BY <1>2, <2>2, <2>3, <2>5 DEF r
<1> QED BY <1>3, <1>4

\* What an event adds to a campaign, field by field.
LEMMA Joins ==
  ASSUME NEW c \in Corr!Campaign, NEW e \in Corr!Events
  PROVE  LET j == Corr!Joined(c, e)
         IN  /\ j \in Corr!Campaign
             /\ j.id = c.id /\ j.first = c.first /\ j.last = e.time /\ j.total = c.total + 1
             /\ j.max = IF e.score > c.max THEN e.score ELSE c.max
             /\ j.decoys = Corr!Include(c.decoys, e.decoy)
             /\ j.tactics = Corr!Include(c.tactics, e.tactic)
             /\ j.hops = IF c.hops = <<>> \/ c.hops[Len(c.hops)] # e.decoy
                           THEN Append(c.hops, e.decoy) ELSE c.hops
             /\ j.hopped = (c.hopped \/ Len(Corr!Include(c.decoys, e.decoy)) > 1)
<1>1. /\ e.time \in Nat /\ e.decoy \in Decoy /\ e.tactic \in Decoy /\ e.score \in Nat
      /\ c.decoys \in Seq(Decoy) /\ c.hops \in Seq(Decoy) /\ c.tactics \in Seq(Decoy)
      /\ c.total \in Nat /\ c.max \in Nat /\ c.hopped \in BOOLEAN
  BY HistoryAssumption DEF Corr!CorrelatorConstants, Corr!Events, Corr!Campaign
<1> DEFINE decoys == Corr!Include(c.decoys, e.decoy)
           tactics == Corr!Include(c.tactics, e.tactic)
           hops == IF c.hops = <<>> \/ c.hops[Len(c.hops)] # e.decoy
                     THEN Append(c.hops, e.decoy) ELSE c.hops
           max == IF e.score > c.max THEN e.score ELSE c.max
           hopped == c.hopped \/ Len(decoys) > 1
<1>2. decoys \in Seq(Decoy) /\ tactics \in Seq(Decoy)
  BY <1>1, Including
<1>3. hops \in Seq(Decoy)
  BY <1>1
<1>4. max \in Nat /\ hopped \in BOOLEAN /\ c.total + 1 \in Nat
  <2> HIDE DEF decoys
  <2> QED BY <1>1
<1>5. Corr!Joined(c, e) = [c EXCEPT !.last = e.time, !.total = c.total + 1, !.max = max,
                                    !.decoys = decoys, !.hopped = hopped, !.hops = hops,
                                    !.tactics = tactics]
  BY DEF Corr!Joined, Corr!Campaign, Corr!Last
<1> HIDE DEF decoys, tactics, hops, max, hopped
<1>6. /\ Corr!Joined(c, e) \in Corr!Campaign
      /\ LET j == Corr!Joined(c, e)
         IN  /\ j.id = c.id /\ j.first = c.first /\ j.last = e.time /\ j.total = c.total + 1
             /\ j.max = max /\ j.decoys = decoys /\ j.tactics = tactics /\ j.hops = hops
             /\ j.hopped = hopped
  BY <1>1, <1>2, <1>3, <1>4, <1>5, ZenonT(40) DEF Corr!Campaign
<1> QED BY <1>6 DEF decoys, tactics, hops, max, hopped

\* An event ingested leaves a campaign, last seen when the event was stamped.
LEMMA Ingesting ==
  ASSUME NEW c \in MaybeCampaign, NEW e \in Corr!Events
  PROVE  /\ Corr!Ingested(c, e) \in Corr!Campaign
         /\ Corr!Ingested(c, e).last = e.time
         /\ Corr!Ingested(c, e) # NoCampaign
         /\ Corr!NewCampaign(e) \in Corr!Campaign
<1>1. /\ PerSecond \in Nat \ {0} /\ NoCampaign \notin Corr!Campaign /\ e.time \in Nat
  BY HistoryAssumption DEF Corr!CorrelatorConstants, Corr!Events
<1>2. Corr!NewCampaign(e) \in Corr!Campaign
  <2>1. e.time \div PerSecond \in Nat
    BY <1>1
  <2> QED BY <1>1, <2>1 DEF Corr!NewCampaign, Corr!Campaign
<1> DEFINE b == IF Corr!Opens(c, e) THEN Corr!NewCampaign(e) ELSE c
<1>3. b \in Corr!Campaign
  BY <1>2 DEF MaybeCampaign, Corr!Opens
<1>4. Corr!Ingested(c, e) = Corr!Joined(b, e)
  BY DEF Corr!Ingested
<1> HIDE DEF b
<1>5. Corr!Joined(b, e) \in Corr!Campaign /\ Corr!Joined(b, e).last = e.time
  BY <1>3, Joins
<1> QED BY <1>1, <1>2, <1>4, <1>5

\* What the two stages do with an event.
LEMMA Handling ==
  ASSUME TypeOK, Handle
  PROVE  \E e \in Event, t \in Nat :
           /\ IsNext(e) /\ Store!Persist(e) /\ e.ip \in IP
           /\ t \in born..now /\ now <= t + Skew /\ stamp' = Append(stamp, t)
           /\ Seen(e, t) \in Corr!Events /\ Seen(e, t).time = t /\ Seen(e, t).ip = e.ip
           /\ campaigns' = [campaigns EXCEPT ![e.ip] = Corr!Ingested(campaigns[e.ip], Seen(e, t))]
           /\ log' = Append(log, Seen(e, t))
           /\ opened' = IF Corr!Opens(campaigns[e.ip], Seen(e, t))
                        THEN opened \cup {[ip |-> e.ip, id |-> t \div PerSecond, at |-> Len(log)]}
                        ELSE opened
           /\ UNCHANGED <<now, pruned, born>>
<1>1. Skew \in Nat /\ MaxTime \in Nat /\ MaxEvents \in Nat
  BY HistoryAssumption DEF Corr!CorrelatorConstants
<1>2. PICK e \in Event, t \in Stamps :
         /\ IsNext(e) /\ Corr!Ingest(Seen(e, t)) /\ Store!Persist(e) /\ stamp' = Append(stamp, t)
         /\ UNCHANGED born
  BY DEF Handle
<1> DEFINE s == Seen(e, t)
<1>3. e.n \in 1..MaxEvents /\ e.ip \in IP /\ e.decoy \in Decoy
  BY DEF Event
<1>4. t \in Nat /\ t \in born..now /\ now <= t + Skew /\ t \in 0..MaxTime
  BY <1>1 DEF TypeOK, Stamps
<1>5. s \in Corr!Events /\ s.time = t /\ s.ip = e.ip
  <2>1. ScoreOf[e.n] \in {ScoreOf[n] : n \in 1..MaxEvents}
    BY <1>3
  <2> QED BY <1>3, <1>4, <2>1 DEF Seen, Corr!Events
<1> HIDE DEF s
<1>6. /\ campaigns' = [campaigns EXCEPT ![e.ip] = Corr!Ingested(campaigns[e.ip], s)]
      /\ log' = Append(log, s)
      /\ opened' = IF Corr!Opens(campaigns[e.ip], s)
                   THEN opened \cup {[ip |-> e.ip, id |-> t \div PerSecond, at |-> Len(log)]}
                   ELSE opened
      /\ UNCHANGED <<now, pruned>>
  BY <1>2, <1>5 DEF Corr!Ingest, s
<1> QED BY <1>2, <1>3, <1>4, <1>5, <1>6 DEF s

\* The invariant holds in every state: each action by what it does to the file and
\* to the campaigns.
LEMMA Inductive == Spec => []Inv
<1> USE DEF Inv
<1>1. /\ PerSecond \in Nat \ {0} /\ SessionWindow \in Nat /\ Skew \in Nat /\ MaxTime \in Nat
      /\ MaxEvents \in Nat /\ 2 * Skew + PerSecond <= SessionWindow + 1
      /\ ScoreOf \in [1..MaxEvents -> Nat] /\ NoCampaign \notin Corr!Campaign
  BY HistoryAssumption DEF Corr!CorrelatorConstants
<1>2. Init => Inv
  <2> SUFFICES ASSUME Init PROVE Inv
    OBVIOUS
  <2>1. /\ tried = <<>> /\ file = <<>> /\ acked = {} /\ now = 0 /\ born = 0 /\ log = <<>>
        /\ campaigns = [ip \in IP |-> NoCampaign] /\ pruned = [ip \in IP |-> 0] /\ opened = {}
    BY DEF Init, Store!Init, Corr!Init, Corr!NoCampaigns
  <2>2. TypeOK
    BY <1>1, <2>1 DEF TypeOK, MaybeCampaign
  <2>3. DOMAIN tried = {} /\ DOMAIN file = {}
    BY <2>1
  <2>4. FileOrdered /\ LinesKept
    BY <2>1, <2>3 DEF FileOrdered, Numbered, LinesKept
  <2>5. IDsBehind /\ CampaignIDsDiffer
    BY <2>1 DEF IDsBehind, CampaignIDsDiffer, Corr!CampaignIDsDiffer
  <2> QED BY <2>2, <2>4, <2>5
<1>3. ASSUME Inv, [Next]_vars
      PROVE  Inv'
  <2> USE <1>3
  <2> DEFINE StoreTyped == tried \in Seq(Event) /\ file \in Seq(Piece) /\ acked \subseteq Event
             Leaves(e, form) == file' = Append(file, [ev |-> e, form |-> form])
  <2>1. ASSUME NEW e \in Event, IsNext(e), tried' = Append(tried, e),
               \/ file' = file /\ acked' = acked
               \/ \E form \in {"line", "cut", "bare"} :
                    Leaves(e, form) /\ (acked' = acked \/ (form = "line" /\ acked' = acked \cup {e}))
        PROVE  StoreTyped' /\ FileOrdered' /\ LinesKept'
    <3>1. /\ StoreTyped /\ Len(tried) \in Nat /\ Len(file) \in Nat /\ e.n = Len(tried) + 1
          /\ DOMAIN tried = 1..Len(tried) /\ DOMAIN file = 1..Len(file)
      BY <2>1 DEF IsNext, TypeOK
    <3>2. /\ tried' \in Seq(Event) /\ DOMAIN tried' = 1..(Len(tried) + 1)
          /\ tried'[Len(tried) + 1] = e /\ \A i \in DOMAIN tried : tried'[i] = tried[i]
      BY <2>1, <3>1
    <3>3. \A i \in DOMAIN tried' : tried'[i].n = i
      BY <3>1, <3>2 DEF FileOrdered
    <3>4. Range(tried) \subseteq Range(tried') /\ e \in Range(tried')
      BY <3>1, <3>2 DEF Range
    <3>5. \A i \in DOMAIN file : file[i].ev \in Range(tried') /\ file[i].ev.n < e.n
      <4>1. \A x \in Range(tried) : x.n < e.n
        BY <3>1 DEF Range, FileOrdered
      <4> QED BY <3>4, <4>1 DEF FileOrdered
    <3>6. CASE file' = file /\ acked' = acked
      BY <3>1, <3>2, <3>3, <3>5, <3>6 DEF FileOrdered, LinesKept
    <3>7. CASE \E form \in {"line", "cut", "bare"} :
                 Leaves(e, form) /\ (acked' = acked \/ (form = "line" /\ acked' = acked \cup {e}))
      <4>1. PICK form \in {"line", "cut", "bare"} :
                 Leaves(e, form) /\ (acked' = acked \/ (form = "line" /\ acked' = acked \cup {e}))
        BY <3>7
      <4> DEFINE piece == [ev |-> e, form |-> form]
      <4>2. piece \in Piece /\ piece.ev = e /\ piece.form = form
        BY DEF Piece
      <4> HIDE DEF piece
      <4>3. /\ file' \in Seq(Piece) /\ DOMAIN file' = 1..(Len(file) + 1)
            /\ file'[Len(file) + 1] = piece /\ \A i \in DOMAIN file : file'[i] = file[i]
        <5>1. file' = Append(file, piece)
          BY <4>1 DEF piece
        <5> QED BY <3>1, <4>2, <5>1
      <4>4. StoreTyped'
        BY <3>1, <3>2, <4>1, <4>3
      <4>5. FileOrdered'
        <5>1. \A i \in DOMAIN file' : file'[i].ev \in Range(tried')
          BY <3>1, <3>4, <3>5, <4>2, <4>3
        <5>2. Numbered(file)'
          BY <3>1, <3>5, <4>2, <4>3 DEF Numbered, FileOrdered
        <5> QED BY <3>3, <5>1, <5>2 DEF FileOrdered
      <4>6. LinesKept'
        <5>1. \A x \in acked : \E i \in DOMAIN file' : file'[i].ev = x /\ file'[i].form = "line"
          BY <3>1, <4>3 DEF LinesKept
        <5>2. form = "line" => file'[Len(file) + 1].ev = e /\ file'[Len(file) + 1].form = "line"
          BY <4>2, <4>3
        <5> QED BY <3>1, <4>1, <4>3, <5>1, <5>2 DEF LinesKept
      <4> QED BY <4>4, <4>5, <4>6
    <3> QED BY <2>1, <3>6, <3>7
  <2>2. ASSUME UNCHANGED <<file, tried, acked>>
        PROVE  StoreTyped' /\ FileOrdered' /\ LinesKept'
    BY <2>2 DEF TypeOK, FileOrdered, LinesKept, Numbered
  <2> DEFINE CorrTyped ==
               /\ now \in 0..MaxTime /\ born \in 0..now /\ campaigns \in [IP -> MaybeCampaign]
               /\ log \in Seq(Corr!Events) /\ pruned \in [IP -> 0..Len(log)]
               /\ opened \subseteq [ip : IP, id : Nat, at : Nat]
             IDs == IDsBehind /\ CampaignIDsDiffer
  <2>3. ASSUME UNCHANGED <<corrVars, born>>
        PROVE  CorrTyped' /\ IDs'
    BY <2>3 DEF TypeOK, IDsBehind, Begun, CampaignIDsDiffer, Corr!CampaignIDsDiffer, corrVars
  <2> HIDE DEF Inv
  <2>4. CASE Start
    <3>1. /\ UNCHANGED <<file, tried, acked, now>> /\ born' = now
          /\ campaigns' = [ip \in IP |-> NoCampaign] /\ log' = <<>> /\ opened' = {}
          /\ pruned' = [ip \in IP |-> 0]
      BY <2>4 DEF Start, Store!Start, Corr!NoCampaigns
    <3>2. CorrTyped'
      BY <1>1, <3>1 DEF Inv, TypeOK, MaybeCampaign
    <3>3. IDs'
      BY <3>1 DEF IDsBehind, CampaignIDsDiffer, Corr!CampaignIDsDiffer
    <3> QED BY <2>2, <3>1, <3>2, <3>3 DEF Inv, TypeOK
  <2>5. CASE Handle
    <3>1. PICK e \in Event, t \in Nat :
             /\ IsNext(e) /\ Store!Persist(e) /\ e.ip \in IP
             /\ t \in born..now /\ now <= t + Skew
             /\ Seen(e, t) \in Corr!Events /\ Seen(e, t).time = t
             /\ campaigns' = [campaigns EXCEPT ![e.ip] = Corr!Ingested(campaigns[e.ip], Seen(e, t))]
             /\ log' = Append(log, Seen(e, t))
             /\ opened' = IF Corr!Opens(campaigns[e.ip], Seen(e, t))
                          THEN opened \cup {[ip |-> e.ip, id |-> t \div PerSecond, at |-> Len(log)]}
                          ELSE opened
             /\ UNCHANGED <<now, pruned, born>>
      BY <2>5, Handling DEF Inv
    <3>2. StoreTyped' /\ FileOrdered' /\ LinesKept'
      <4>1. /\ tried' = Append(tried, e)
            /\ \/ file' = file /\ acked' = acked
               \/ \E form \in {"line", "cut", "bare"} :
                    Leaves(e, form) /\ (acked' = acked \/ (form = "line" /\ acked' = acked \cup {e}))
        BY <3>1 DEF Store!Persist
      <4> QED BY <2>1, <3>1, <4>1
    <3> DEFINE s == Seen(e, t)
               ip == e.ip
               c == campaigns[ip]
               new == [ip |-> ip, id |-> t \div PerSecond, at |-> Len(log)]
    <3>3. /\ t \in Nat /\ now \in Nat /\ t <= now /\ now <= t + Skew /\ now <= MaxTime
          /\ s.time = t /\ ip \in IP /\ s \in Corr!Events
      BY <1>1, <3>1 DEF Inv, TypeOK
    <3>4. /\ c \in MaybeCampaign /\ campaigns \in [IP -> MaybeCampaign]
          /\ opened \subseteq [ip : IP, id : Nat, at : Nat] /\ log \in Seq(Corr!Events)
      BY <3>3 DEF Inv, TypeOK
    <3>5. /\ campaigns' = [campaigns EXCEPT ![ip] = Corr!Ingested(c, s)]
          /\ log' = Append(log, s) /\ UNCHANGED <<now, pruned, born>>
          /\ opened' = IF Corr!Opens(c, s) THEN opened \cup {new} ELSE opened
      BY <3>1
    <3>6. Corr!Ingested(c, s) \in Corr!Campaign /\ Corr!Ingested(c, s).last = t
          /\ Corr!Ingested(c, s) # NoCampaign
      BY <3>3, <3>4, Ingesting
    <3>7. t \div PerSecond \in Nat /\ Begun(new) <= t /\ t < Begun(new) + PerSecond
      <4>1. \A q : q = t \div PerSecond => q \in Nat /\ q * PerSecond <= t /\ t < q * PerSecond + PerSecond
        <5>1. \A x \in Nat : /\ x \div PerSecond \in Nat
                              /\ (x \div PerSecond) * PerSecond <= x
                              /\ x < (x \div PerSecond) * PerSecond + PerSecond
          BY <1>1
        <5> QED BY <3>3, <5>1
      <4> QED BY <4>1 DEF Begun
    <3> HIDE DEF s, c
    <3>8. CorrTyped'
      <4>1. campaigns' \in [IP -> MaybeCampaign]
        BY <3>3, <3>4, <3>5, <3>6 DEF MaybeCampaign
      <4>2. new \in [ip : IP, id : Nat, at : Nat]
        BY <3>3, <3>4, <3>7
      <4> QED BY <3>3, <3>4, <3>5, <4>1, <4>2 DEF Inv, TypeOK
    <3>9. ASSUME Corr!Opens(c, s), NEW d \in opened, d.ip = ip
          PROVE  Begun(d) + PerSecond <= t
      <4>1. d.id \in Nat /\ Begun(d) \in Nat
        BY <1>1, <3>4, <3>9 DEF Begun
      <4>2. CASE c = NoCampaign
        <5>1. Begun(d) + SessionWindow + 1 <= now + Skew
          BY <3>9, <4>2 DEF Inv, IDsBehind, c
        <5> QED BY <1>1, <3>3, <4>1, <5>1
      <4>3. CASE c # NoCampaign
        <5>1. Begun(d) <= c.last + Skew
          BY <3>9, <4>3 DEF Inv, IDsBehind, c
        <5>2. c.last \in Nat /\ t - c.last > SessionWindow
          BY <3>3, <3>4, <3>9, <4>3 DEF Corr!Opens, Corr!Expired, MaybeCampaign, Corr!Campaign
        <5> QED BY <1>1, <3>3, <4>1, <5>1, <5>2
      <4> QED BY <4>2, <4>3
    <3>10. IDs'
      <4>1. \A d \in opened' : d \in opened \/ (d = new /\ Corr!Opens(c, s))
        BY <3>5
      <4>2. \A d \in opened : d.ip \in IP /\ d.id \in Nat
        BY <3>4
      <4>3. IDsBehind'
        <5> SUFFICES ASSUME NEW d \in opened'
                     PROVE  /\ Begun(d) <= now
                            /\ campaigns'[d.ip] = NoCampaign => Begun(d) + SessionWindow + 1 <= now + Skew
                            /\ campaigns'[d.ip] # NoCampaign => Begun(d) <= campaigns'[d.ip].last + Skew
          BY <3>5 DEF IDsBehind, Begun
        <5>1. d.ip \in IP /\ Begun(d) \in Nat /\ Begun(d) <= now
          <6>1. CASE d = new
            BY <1>1, <3>3, <3>7, <6>1 DEF Begun
          <6>2. CASE d \in opened
            BY <1>1, <4>2, <6>2 DEF Inv, IDsBehind, Begun
          <6> QED BY <4>1, <6>1, <6>2
        <5>2. CASE d.ip = ip
          BY <1>1, <3>3, <3>4, <3>5, <3>6, <5>1, <5>2
        <5>3. CASE d.ip # ip
          <6>1. d \in opened /\ campaigns'[d.ip] = campaigns[d.ip]
            BY <3>4, <3>5, <4>1, <5>1, <5>3
          <6> QED BY <6>1, <5>1 DEF Inv, IDsBehind
        <5> QED BY <5>2, <5>3
      <4>4. ASSUME NEW d \in opened, d.ip = ip, Corr!Opens(c, s)
            PROVE  d.id # new.id
        <5>1. Begun(d) + PerSecond <= t /\ t < Begun(new) + PerSecond
          BY <3>7, <3>9, <4>4
        <5>2. Begun(d) \in Nat /\ Begun(new) \in Nat
          BY <1>1, <3>7, <4>2, <4>4 DEF Begun
        <5>3. Begun(d) # Begun(new)
          <6>1. PerSecond \in Nat /\ t \in Nat
            BY <1>1, <3>3
          <6> QED BY <5>1, <5>2, <6>1
        <5> QED BY <5>3 DEF Begun
      <4>5. CampaignIDsDiffer'
        <5> SUFFICES ASSUME NEW b \in opened', NEW d \in opened', b.ip = d.ip, b.id = d.id
                     PROVE  b = d
          BY DEF CampaignIDsDiffer, Corr!CampaignIDsDiffer
        <5>1. CASE b \in opened /\ d \in opened
          BY <5>1 DEF Inv, CampaignIDsDiffer, Corr!CampaignIDsDiffer
        <5>2. new.ip = ip
          OBVIOUS
        <5> HIDE DEF new
        <5>3. CASE Corr!Opens(c, s) /\ b = new
          BY <4>1, <4>4, <5>2, <5>3
        <5>4. CASE Corr!Opens(c, s) /\ d = new
          BY <4>1, <4>4, <5>2, <5>4
        <5> QED BY <4>1, <5>1, <5>3, <5>4
      <4> QED BY <4>3, <4>5
    <3> QED BY <3>2, <3>8, <3>10 DEF Inv, TypeOK
  <2>6. CASE Stop
    <3>1. CASE UNCHANGED <<file, tried>>
      BY <2>2, <2>3, <2>6, <3>1 DEF Stop, Store!Stop, Inv, TypeOK
    <3>2. CASE \E e \in Event \ Store!Range(tried) :
                 /\ tried' = Append(tried, e)
                 /\ file' \in {Append(file, [ev |-> e, form |-> f]) : f \in {"line", "cut", "bare"}}
      <4>1. PICK e \in Event, form \in {"line", "cut", "bare"} : tried' = Append(tried, e) /\ Leaves(e, form)
        BY <3>2
      <4>2. Len(tried) \in Nat /\ tried \in Seq(Event)
        BY DEF Inv, TypeOK
      <4>3. tried' # tried /\ Last(tried') = e
        BY <4>1, <4>2 DEF Last
      <4>4. IsNext(e) /\ UNCHANGED <<corrVars, born, acked>>
        BY <2>6, <4>3 DEF Stop, Store!Stop
      <4> QED BY <2>1, <2>3, <4>1, <4>4 DEF Inv, TypeOK
    <3> QED BY <2>6, <3>1, <3>2 DEF Stop, Store!Stop
  <2>7. CASE Tick
    <3>1. /\ UNCHANGED <<file, tried, acked, born, campaigns, log, pruned, opened>>
          /\ now' = now + 1 /\ now < MaxTime
      BY <2>7 DEF Tick, Corr!Tick, storeVars
    <3>2. CorrTyped'
      BY <1>1, <3>1 DEF Inv, TypeOK
    <3>3. IDs'
      BY <1>1, <3>1 DEF Inv, TypeOK, IDsBehind, Begun, CampaignIDsDiffer, Corr!CampaignIDsDiffer
    <3> QED BY <2>2, <3>1, <3>2, <3>3 DEF Inv, TypeOK
  <2>8. CASE PruneExpired
    <3> DEFINE Stale(ip) == campaigns[ip] # NoCampaign /\ now - campaigns[ip].last > SessionWindow
    <3>1. /\ UNCHANGED <<file, tried, acked, born, now, log, opened>>
          /\ campaigns' = [ip \in IP |-> IF Stale(ip) THEN NoCampaign ELSE campaigns[ip]]
          /\ pruned' = [ip \in IP |-> IF Stale(ip) THEN Len(log) ELSE pruned[ip]]
      BY <2>8 DEF PruneExpired, Corr!PruneExpired, storeVars
    <3>2. CorrTyped'
      BY <3>1 DEF Inv, TypeOK, MaybeCampaign
    <3>3. IDsBehind'
      <4> SUFFICES ASSUME NEW d \in opened
                   PROVE  /\ Begun(d) <= now
                          /\ campaigns'[d.ip] = NoCampaign => Begun(d) + SessionWindow + 1 <= now + Skew
                          /\ campaigns'[d.ip] # NoCampaign => Begun(d) <= campaigns'[d.ip].last + Skew
        BY <3>1 DEF IDsBehind, Begun
      <4>1. d.ip \in IP /\ Begun(d) \in Nat /\ now \in Nat
        BY <1>1 DEF Inv, TypeOK, Begun
      <4>2. CASE Stale(d.ip)
        <5>1. campaigns[d.ip].last \in Nat /\ now - campaigns[d.ip].last > SessionWindow
          BY <4>1, <4>2 DEF Inv, TypeOK, MaybeCampaign, Corr!Campaign
        <5>2. Begun(d) <= campaigns[d.ip].last + Skew /\ campaigns'[d.ip] = NoCampaign
          BY <3>1, <4>1, <4>2 DEF Inv, IDsBehind
        <5> QED BY <1>1, <4>1, <5>1, <5>2
      <4>3. CASE ~ Stale(d.ip)
        <5>1. campaigns'[d.ip] = campaigns[d.ip]
          BY <3>1, <4>1, <4>3
        <5> QED BY <5>1 DEF Inv, IDsBehind
      <4> QED BY <4>2, <4>3
    <3> QED BY <2>2, <3>1, <3>2, <3>3 DEF Inv, TypeOK, CampaignIDsDiffer, Corr!CampaignIDsDiffer
  <2>9. CASE UNCHANGED vars
    BY <2>2, <2>3, <2>9 DEF vars, storeVars, TypeOK, Inv
  <2> QED BY <2>4, <2>5, <2>6, <2>7, <2>8, <2>9 DEF Next
<1> QED BY <1>2, <1>3, PTL DEF Spec
-----------------------------------------------------------------------------
\* What can be read of a file in order: events of the file, in order, and every one
\* whose piece decodes.
LEMMA Reading ==
  ASSUME NEW f \in Seq(Piece), Numbered(f)
  PROVE  LET r == Store!Readable(f)
         IN  /\ r \in Seq(Event)
             /\ \A k \in DOMAIN r : \E i \in DOMAIN f : r[k] = f[i].ev
             /\ \A k, l \in DOMAIN r : k < l => r[k].n < r[l].n
             /\ \A i \in DOMAIN f : Store!Decodes(f, i) => \E k \in DOMAIN r : r[k] = f[i].ev
<1> DEFINE at == [i \in DOMAIN f |-> IF Store!Decodes(f, i) THEN <<f[i].ev>> ELSE <<>>]
           ReadUpTo(r, n) ==
             /\ r \in Seq(Event)
             /\ \A k \in DOMAIN r : \E i \in 1..n : r[k] = f[i].ev
             /\ \A k, l \in DOMAIN r : k < l => r[k].n < r[l].n
             /\ \A i \in 1..n : Store!Decodes(f, i) => \E k \in DOMAIN r : r[k] = f[i].ev
<1>1. /\ Len(f) \in Nat /\ DOMAIN f = 1..Len(f) /\ \A i \in DOMAIN f : f[i].ev \in Event
      /\ \A e \in Event : e.n \in Nat
  <2>1. \A e \in Event : e.n \in Nat
    BY HistoryAssumption DEF Event, Corr!CorrelatorConstants
  <2>2. \A i \in 1..Len(f) : f[i] \in Piece
    OBVIOUS
  <2> QED BY <2>1, <2>2 DEF Piece
<1>2. at \in Seq(Seq(Event)) /\ Len(at) = Len(f)
  <2>1. \A i \in 1..Len(f) : at[i] \in Seq(Event)
    BY <1>1
  <2> QED BY <1>1, <2>1
<1>3. ASSUME NEW n \in Nat, n + 1 <= Len(f), NEW r, ReadUpTo(r, n)
      PROVE  ReadUpTo(r \o at[n + 1], n + 1)
  <2> DEFINE e == f[n + 1].ev
  <2>1. n + 1 \in DOMAIN f /\ e \in Event /\ r \in Seq(Event) /\ Len(r) \in Nat
    BY <1>1, <1>3
  <2>2. \A k \in DOMAIN r : r[k] \in Event /\ r[k].n < e.n
    <3> SUFFICES ASSUME NEW k \in DOMAIN r
                 PROVE  r[k] \in Event /\ r[k].n < e.n
      OBVIOUS
    <3>1. PICK i \in 1..n : r[k] = f[i].ev
      BY <1>3
    <3>2. i \in DOMAIN f /\ i < n + 1
      BY <1>1, <1>3
    <3> QED BY <1>1, <2>1, <3>1, <3>2 DEF Numbered
  <2>3. CASE Store!Decodes(f, n + 1)
    <3>1. at[n + 1] = <<e>>
      BY <2>1, <2>3
    <3> DEFINE rr == r \o <<e>>
    <3>2. /\ rr \in Seq(Event) /\ DOMAIN rr = 1..(Len(r) + 1) /\ DOMAIN r = 1..Len(r)
          /\ rr[Len(r) + 1] = e /\ \A k \in DOMAIN r : rr[k] = r[k]
      BY <2>1
    <3> HIDE DEF rr, e
    <3>3. \A k \in DOMAIN rr : \E i \in 1..(n + 1) : rr[k] = f[i].ev
      <4>1. \A k \in DOMAIN r : \E i \in 1..(n + 1) : rr[k] = f[i].ev
        BY <1>3, <3>2
      <4>2. rr[Len(r) + 1] = f[n + 1].ev
        BY <3>2 DEF e
      <4> QED BY <2>1, <3>2, <4>1, <4>2
    <3>4. \A k, l \in DOMAIN rr : k < l => rr[k].n < rr[l].n
      <4> SUFFICES ASSUME NEW k \in DOMAIN rr, NEW l \in DOMAIN rr, k < l
                   PROVE  rr[k].n < rr[l].n
        OBVIOUS
      <4>1. k \in DOMAIN r /\ rr[k] = r[k]
        BY <2>1, <3>2
      <4>2. CASE l = Len(r) + 1
        BY <2>2, <3>2, <4>1, <4>2 DEF e
      <4>3. CASE l # Len(r) + 1
        BY <1>3, <2>1, <3>2, <4>1, <4>3
      <4> QED BY <4>2, <4>3
    <3>5. \A i \in 1..(n + 1) : Store!Decodes(f, i) => \E k \in DOMAIN rr : rr[k] = f[i].ev
      <4> SUFFICES ASSUME NEW i \in 1..(n + 1), Store!Decodes(f, i)
                   PROVE  \E k \in DOMAIN rr : rr[k] = f[i].ev
        OBVIOUS
      <4>1. CASE i \in 1..n
        <5>1. PICK k \in DOMAIN r : r[k] = f[i].ev
          BY <1>3, <4>1
        <5> QED BY <2>1, <3>2, <5>1
      <4>2. CASE i = n + 1
        BY <2>1, <3>2, <4>2 DEF e
      <4> QED BY <4>1, <4>2
    <3> QED BY <3>1, <3>2, <3>3, <3>4, <3>5 DEF rr
  <2>4. CASE ~ Store!Decodes(f, n + 1)
    <3>1. at[n + 1] = <<>> /\ r \o <<>> = r
      BY <2>1, <2>4
    <3>2. \A i \in 1..(n + 1) : i \in 1..n \/ i = n + 1
      BY <1>3
    <3>3. \A i \in 1..n : i \in 1..(n + 1)
      BY <1>3
    <3>4. ReadUpTo(r, n + 1)
      BY <1>3, <2>4, <3>2, <3>3
    <3>5. r \o at[n + 1] = r
      BY <3>1
    <3> HIDE DEF ReadUpTo
    <3> QED BY <3>4, <3>5
  <2> QED BY <2>3, <2>4
<1> HIDE DEF ReadUpTo
<1> DEFINE T == {n \in Nat : n <= Len(f) => ReadUpTo(FlattenSeq(SubSeq(at, 1, n)), n)}
<1>4. 0 \in T
  <2>1. SubSeq(at, 1, 0) = <<>> /\ FlattenSeq(<<>>) = <<>>
    BY <1>1, <1>2 DEF FlattenSeq
  <2>2. ReadUpTo(<<>>, 0)
    <3>1. DOMAIN <<>> = {} /\ 1..0 = {} /\ <<>> \in Seq(Event)
      OBVIOUS
    <3> QED BY <3>1 DEF ReadUpTo
  <2> QED BY <2>1, <2>2
<1>5. ASSUME NEW n \in Nat, n \in T
      PROVE  n + 1 \in T
  <2> SUFFICES ASSUME n + 1 <= Len(f)
               PROVE  ReadUpTo(FlattenSeq(SubSeq(at, 1, n + 1)), n + 1)
    OBVIOUS
  <2> HIDE DEF at
  <2>1. at[n + 1] \in Seq(Event) /\ SubSeq(at, 1, n) \in Seq(Seq(Event))
    BY <1>1, <1>2, SMTT(30)
  <2>2. SubSeq(at, 1, n + 1) = Append(SubSeq(at, 1, n), at[n + 1])
    BY <1>1, <1>2, SMTT(30)
  <2>3. FlattenSeq(SubSeq(at, 1, n + 1)) = FlattenSeq(SubSeq(at, 1, n)) \o at[n + 1]
    BY <2>1, <2>2, Flattening
  <2>4. ReadUpTo(FlattenSeq(SubSeq(at, 1, n)), n)
    BY <1>1, <1>5
  <2> QED BY <1>3, <2>3, <2>4 DEF at
<1>6. ReadUpTo(FlattenSeq(at), Len(f))
  <2>1. Len(f) \in T
    <3> HIDE DEF T
    <3> QED BY <1>1, <1>4, <1>5, Induction
  <2> HIDE DEF at
  <2>2. SubSeq(at, 1, Len(f)) = at
    BY <1>1, <1>2
  <2>3. Len(f) <= Len(f)
    BY <1>1
  <2>4. ReadUpTo(FlattenSeq(SubSeq(at, 1, Len(f))), Len(f))
    BY <2>1, <2>3
  <2> QED BY <2>2, <2>4, Zenon
<1>7. Store!Readable(f) = FlattenSeq(at)
  BY DEF Store!Readable, Store!FlattenSeq, FlattenSeq
<1> QED BY <1>1, <1>6, <1>7 DEF ReadUpTo

\* Readers of the file see events in the order they were persisted in, none twice,
\* however many writes failed or were torn and however many runs wrote the file
\* (engine.go:72-77, 93-118).
THEOREM ReadersInOrder == Spec => []ReadersSeeOrder
<1>1. ASSUME Inv
      PROVE  ReadersSeeOrder
  <2> USE <1>1 DEF Inv
  <2> DEFINE all == Store!Readable(file)
  <2>1. /\ all \in Seq(Event) /\ Len(all) \in Nat /\ DOMAIN all = 1..Len(all)
        /\ \A k \in DOMAIN all : all[k] \in Range(tried)
        /\ \A k, l \in DOMAIN all : k < l => all[k].n < all[l].n
    <3>1. file \in Seq(Piece) /\ Numbered(file)
      BY DEF TypeOK, FileOrdered
    <3> HIDE DEF all
    <3>2. /\ all \in Seq(Event)
          /\ \A k \in DOMAIN all : \E i \in DOMAIN file : all[k] = file[i].ev
          /\ \A k, l \in DOMAIN all : k < l => all[k].n < all[l].n
      BY <3>1, Reading DEF all
    <3> QED BY <3>2 DEF FileOrdered
  <2> SUFFICES ASSUME NEW limit \in 0..2,
                      NEW i \in DOMAIN Store!RecentEvents(file, limit),
                      NEW j \in DOMAIN Store!RecentEvents(file, limit), i < j
               PROVE  LET seen == Store!RecentEvents(file, limit)
                          Place(k) == CHOOSE l \in DOMAIN tried : tried[l] = seen[k]
                      IN  Place(i) < Place(j)
    BY DEF ReadersSeeOrder, Store!ReadersSeeOrder
  <2> DEFINE seen == Store!RecentEvents(file, limit)
  <2>2. \E k, l \in DOMAIN all : seen[i] = all[k] /\ seen[j] = all[l] /\ k < l
    <3> HIDE DEF all
    <3>1. CASE limit > 0 /\ Len(all) > limit
      <4>1. seen = SubSeq(all, Len(all) - limit + 1, Len(all))
        BY <3>1 DEF Store!RecentEvents, all
      <4>2. /\ Len(all) - limit + i \in DOMAIN all /\ seen[i] = all[Len(all) - limit + i]
            /\ Len(all) - limit + j \in DOMAIN all /\ seen[j] = all[Len(all) - limit + j]
            /\ Len(all) - limit + i < Len(all) - limit + j
        BY <2>1, <3>1, <4>1
      <4> QED BY <4>2
    <3>2. CASE ~ (limit > 0 /\ Len(all) > limit)
      BY <3>2 DEF Store!RecentEvents, all
    <3> QED BY <3>1, <3>2
  <2>3. \A x \in Range(tried) : /\ x.n \in DOMAIN tried /\ tried[x.n] = x
                                /\ \A l \in DOMAIN tried : tried[l] = x => l = x.n
    BY DEF FileOrdered, Range
  <2> HIDE DEF all, seen
  <2>4. PICK k \in DOMAIN all, l \in DOMAIN all : seen[i] = all[k] /\ seen[j] = all[l] /\ k < l
    BY <2>2
  <2>5. (CHOOSE m \in DOMAIN tried : tried[m] = seen[i]) = seen[i].n
    BY <2>1, <2>3, <2>4
  <2>6. (CHOOSE m \in DOMAIN tried : tried[m] = seen[j]) = seen[j].n
    BY <2>1, <2>3, <2>4
  <2> QED BY <2>1, <2>4, <2>5, <2>6 DEF seen
<1> QED BY <1>1, Inductive, PTL

\* A torn write costs its own event and at most the one appended after it
\* (engine.go:76, 102-112).
THEOREM LossIsBounded == Spec => []LossBoundedByTears
<1>1. ASSUME Inv
      PROVE  LossBoundedByTears
  <2> USE <1>1 DEF Inv
  <2> DEFINE lost == acked \ Store!Range(Store!Readable(file))
             torn == {i \in DOMAIN file : file[i].form # "line"}
             Line(e) == CHOOSE i \in DOMAIN file : file[i].ev = e /\ file[i].form = "line"
  <2>1. file \in Seq(Piece) /\ Len(file) \in Nat /\ DOMAIN file = 1..Len(file) /\ Numbered(file)
    BY DEF TypeOK, FileOrdered
  <2>2. \A e \in acked : Line(e) \in DOMAIN file /\ file[Line(e)].ev = e /\ file[Line(e)].form = "line"
    BY DEF LinesKept
  <2> HIDE DEF Line
  <2>3. ASSUME NEW e \in lost
        PROVE  Line(e) - 1 \in torn
    <3>1. /\ \A i \in DOMAIN file : Store!Decodes(file, i) =>
               \E k \in DOMAIN Store!Readable(file) : Store!Readable(file)[k] = file[i].ev
      BY <2>1, Reading
    <3>2. ~ Store!Decodes(file, Line(e))
      BY <2>2, <3>1 DEF Store!Range
    <3> QED BY <2>1, <2>2, <3>2 DEF Store!Decodes
  <2>4. IsFiniteSet(torn)
    <3>1. IsFiniteSet(1..Len(file)) /\ torn \subseteq 1..Len(file)
      BY <2>1, FS_Interval
    <3> QED BY <3>1, FS_Subset
  <2> DEFINE f == [e \in lost |-> Line(e) - 1]
  <2>5. f \in Injection(lost, torn)
    <3>1. f \in [lost -> torn]
      BY <2>3
    <3>2. \A d, e \in lost : f[d] = f[e] => d = e
      BY <2>1, <2>2
    <3> QED BY <3>1, <3>2 DEF Injection, IsInjective
  <2>6. Cardinality(lost) <= Cardinality(torn)
    <3> HIDE DEF lost, torn, f
    <3> QED BY <2>4, <2>5, FS_Injection
  <2>7. \A S : Store!Cardinality(S) = Cardinality(S)
    BY Zenon DEF Store!Cardinality, Cardinality
  <2> QED BY <2>6, <2>7 DEF LossBoundedByTears, Store!LossBoundedByTears
<1> QED BY <1>1, Inductive, PTL

\* No two campaigns of an address in one run share an ID (correlator.go:61).
THEOREM IDsDiffer == Spec => []CampaignIDsDiffer
<1>1. Inv => CampaignIDsDiffer
  BY DEF Inv
<1> QED BY <1>1, Inductive, PTL

-----------------------------------------------------------------------------
(* A campaign and the events it is made of. *)

\* A campaign, with its last hop, says what a sequence of events does.
Fits(c, s) ==
  /\ Corr!Describes(c, s)
  /\ c.hops # <<>> /\ c.hops[Len(c.hops)] = s[Len(s)].decoy

\* A campaign that has just been opened says what its one event does.
LEMMA OneEventFits ==
  ASSUME NEW e \in Corr!Events
  PROVE  Fits(Corr!Joined(Corr!NewCampaign(e), e), <<e>>)
<1> DEFINE c == Corr!NewCampaign(e)
           j == Corr!Joined(c, e)
<1>1. c \in Corr!Campaign /\ e.decoy \in Decoy /\ e.tactic \in Decoy /\ e.score \in Nat
  BY NoCampaign \in MaybeCampaign, Ingesting, HistoryAssumption
  DEF MaybeCampaign, Corr!Events, Corr!CorrelatorConstants
<1>2. /\ c.id = e.time \div PerSecond /\ c.first = e.time /\ c.total = 0 /\ c.max = 0
      /\ c.decoys = <<>> /\ c.hops = <<>> /\ c.tactics = <<>> /\ c.hopped = FALSE
  BY DEF Corr!NewCampaign
<1> HIDE DEF c
<1>3. /\ Corr!Include(<<>>, e.decoy) = <<e.decoy>> /\ Corr!Include(<<>>, e.tactic) = <<e.tactic>>
      /\ Append(<<>>, e.decoy) = <<e.decoy>>
  BY DEF Corr!Include, Corr!Contains
<1>4. /\ j.id = e.time \div PerSecond /\ j.first = e.time /\ j.last = e.time /\ j.total = 1
      /\ j.max = e.score /\ j.decoys = <<e.decoy>> /\ j.tactics = <<e.tactic>>
      /\ j.hops = <<e.decoy>> /\ j.hopped = FALSE
  <2>1. /\ j.id = c.id /\ j.first = c.first /\ j.last = e.time /\ j.total = c.total + 1
        /\ j.max = IF e.score > c.max THEN e.score ELSE c.max
        /\ j.decoys = Corr!Include(c.decoys, e.decoy)
        /\ j.tactics = Corr!Include(c.tactics, e.tactic)
        /\ j.hops = IF c.hops = <<>> \/ c.hops[Len(c.hops)] # e.decoy
                      THEN Append(c.hops, e.decoy) ELSE c.hops
        /\ j.hopped = (c.hopped \/ Len(Corr!Include(c.decoys, e.decoy)) > 1)
    BY <1>1, Joins
  <2> HIDE DEF j
  <2>2. j.hopped = FALSE
    <3>1. Len(Corr!Include(c.decoys, e.decoy)) = 1
      BY <1>2, <1>3
    <3>2. ~ (Len(Corr!Include(c.decoys, e.decoy)) > 1)
      BY <3>1
    <3> QED BY <1>2, <2>1, <3>2, Zenon
  <2>3. j.total = 1 /\ j.max = e.score
    BY <1>1, <1>2, <2>1
  <2>4. j.hops = <<e.decoy>> /\ j.decoys = <<e.decoy>> /\ j.tactics = <<e.tactic>>
    BY <1>2, <1>3, <2>1
  <2> QED BY <1>2, <2>1, <2>2, <2>3, <2>4, Zenon
<1> HIDE DEF j
<1>5. /\ \A S : Corr!Cardinality(S) = Cardinality(S)
      /\ \A x : Cardinality({x}) = 1
  BY FS_Singleton, Zenon DEF Corr!Cardinality, Cardinality
<1> DEFINE s == <<e>>
<1>6. /\ Len(s) = 1 /\ DOMAIN s = {1} /\ s[1] = e
      /\ \A x : Len(<<x>>) = 1 /\ DOMAIN <<x>> = {1} /\ <<x>>[1] = x
  OBVIOUS
<1> HIDE DEF s
<1>7. Corr!Describes(j, s)
  <2> DEFINE changes == {i \in DOMAIN s : i = 1 \/ s[i].decoy # s[i - 1].decoy}
  <2>1. changes = {1} /\ {k \in changes : k <= 1} = {1}
    BY <1>6
  <2> HIDE DEF changes
  <2>2. /\ Len(j.hops) = 1 /\ j.hops[1] = e.decoy
        /\ Len(j.decoys) = 1 /\ DOMAIN j.decoys = {1} /\ j.decoys[1] = e.decoy
        /\ Len(j.tactics) = 1 /\ DOMAIN j.tactics = {1} /\ j.tactics[1] = e.tactic
    BY <1>4, <1>6
  <2>3. Len(j.hops) = Corr!Cardinality(changes)
    BY <1>5, <2>1, <2>2
  <2>4. \A i \in changes : j.hops[Corr!Cardinality({k \in changes : k <= i})] = s[i].decoy
    <3>1. Corr!Cardinality({k \in changes : k <= 1}) = 1
      BY <1>5, <2>1
    <3> QED BY <1>6, <2>1, <2>2, <3>1
  <2>5. Corr!Range(j.decoys) = {s[i].decoy : i \in DOMAIN s} /\ Corr!Range(j.decoys) = {e.decoy}
    BY <1>6, <2>2 DEF Corr!Range
  <2>6. Corr!Range(j.tactics) = {s[i].tactic : i \in DOMAIN s} /\ Corr!Range(j.tactics) = {e.tactic}
    BY <1>6, <2>2 DEF Corr!Range
  <2>7. j.hopped <=> Corr!Cardinality(Corr!Range(j.decoys)) > 1
    <3>1. Corr!Cardinality(Corr!Range(j.decoys)) = 1
      BY <1>5, <2>5, Zenon
    <3>2. ~ (Corr!Cardinality(Corr!Range(j.decoys)) > 1)
      BY <3>1
    <3> QED BY <1>4, <3>2, Zenon
  <2>8. \A i \in DOMAIN j.decoys : \A k \in DOMAIN j.decoys : ~ (i < k)
    BY <2>2
  <2>9. (\A i \in DOMAIN s : s[i].score <= j.max) /\ \E i \in DOMAIN s : s[i].score = j.max
    BY <1>1, <1>4, <1>6
  <2>10. /\ j.id = s[1].time \div PerSecond /\ j.first = s[1].time /\ j.last = Corr!Last(s).time
         /\ j.total = Len(s)
    BY <1>4, <1>6 DEF Corr!Last
  <2>11. Len(j.decoys) = Corr!Cardinality(Corr!Range(j.decoys))
         /\ Len(j.tactics) = Corr!Cardinality(Corr!Range(j.tactics))
    BY <1>5, <2>2, <2>5, <2>6
  <2> QED BY <2>3, <2>4, <2>5, <2>6, <2>7, <2>8, <2>9, <2>10, <2>11, Zenon
          DEF Corr!Describes, changes
<1> QED BY <1>4, <1>6, <1>7 DEF Fits, s, j, c

\* An event that joins a campaign is one more event of those it tells about.
LEMMA OneMoreFits ==
  ASSUME NEW c \in Corr!Campaign, NEW s \in Seq(Corr!Events), s # <<>>, Fits(c, s),
         NEW e \in Corr!Events
  PROVE  Fits(Corr!Joined(c, e), Append(s, e))
<1> DEFINE j == Corr!Joined(c, e)
           t == Append(s, e)
           n == Len(s)
           Changes(q) == {i \in DOMAIN q : i = 1 \/ q[i].decoy # q[i - 1].decoy}
           UpTo(i, set) == {k \in set : k <= i}
<1>1. /\ n \in Nat \ {0} /\ DOMAIN s = 1..n /\ DOMAIN t = 1..(n + 1) /\ Len(t) = n + 1
      /\ t[n + 1] = e /\ \A i \in 1..n : t[i] = s[i]
      /\ t \in Seq(Corr!Events)
  OBVIOUS
<1>2. /\ e.decoy \in Decoy /\ e.tactic \in Decoy /\ e.score \in Nat
      /\ c.decoys \in Seq(Decoy) /\ c.hops \in Seq(Decoy) /\ c.tactics \in Seq(Decoy)
      /\ c.total \in Nat /\ c.max \in Nat /\ c.hopped \in BOOLEAN
  BY HistoryAssumption DEF Corr!CorrelatorConstants, Corr!Events, Corr!Campaign
<1>3. /\ j.id = c.id /\ j.first = c.first /\ j.last = e.time /\ j.total = c.total + 1
      /\ j.max = IF e.score > c.max THEN e.score ELSE c.max
      /\ j.decoys = Corr!Include(c.decoys, e.decoy)
      /\ j.tactics = Corr!Include(c.tactics, e.tactic)
      /\ j.hops = IF c.hops = <<>> \/ c.hops[Len(c.hops)] # e.decoy
                    THEN Append(c.hops, e.decoy) ELSE c.hops
      /\ j.hopped = (c.hopped \/ Len(Corr!Include(c.decoys, e.decoy)) > 1)
  BY Joins
<1>included. ASSUME NEW q \in Seq(Decoy), NEW x \in Decoy
             PROVE  /\ Corr!Include(q, x) = IF x \in Range(q) THEN q ELSE Append(q, x)
                    /\ Range(Corr!Include(q, x)) = Range(q) \cup {x}
                    /\ Len(q) = Cardinality(Range(q))
                         => Len(Corr!Include(q, x)) = Cardinality(Range(Corr!Include(q, x)))
  <2>1. Corr!Include(q, x) = IF x \in Range(q) THEN q ELSE Append(q, x)
    BY Including
  <2>2. Range(Corr!Include(q, x)) = Range(q) \cup {x}
    BY Including
  <2>3. ASSUME Len(q) = Cardinality(Range(q))
        PROVE  Len(Corr!Include(q, x)) = Cardinality(Range(Corr!Include(q, x)))
    BY <2>3, Including
  <2> QED BY <2>1, <2>2, <2>3
<1>4. \A S : Corr!Cardinality(S) = Cardinality(S) /\ Corr!Range(S) = Range(S)
  BY Zenon DEF Corr!Cardinality, Cardinality, Corr!Range, Range
<1>5. /\ c.id = s[1].time \div PerSecond /\ c.first = s[1].time /\ c.total = n
      /\ \A i \in DOMAIN s : s[i].score <= c.max
      /\ \E i \in DOMAIN s : s[i].score = c.max
      /\ Len(c.hops) = Cardinality(Changes(s))
      /\ \A i \in Changes(s) : c.hops[Cardinality(UpTo(i, Changes(s)))] = s[i].decoy
      /\ Range(c.decoys) = {s[i].decoy : i \in DOMAIN s}
      /\ Len(c.decoys) = Cardinality(Range(c.decoys))
      /\ \A i \in DOMAIN c.decoys : \A k \in DOMAIN c.decoys :
           i < k => \E m \in DOMAIN s : /\ s[m].decoy = c.decoys[i]
                                        /\ \A l \in 1..m : s[l].decoy # c.decoys[k]
      /\ c.hopped <=> Cardinality(Range(c.decoys)) > 1
      /\ Range(c.tactics) = {s[i].tactic : i \in DOMAIN s}
      /\ Len(c.tactics) = Cardinality(Range(c.tactics))
      /\ c.hops # <<>> /\ c.hops[Len(c.hops)] = s[n].decoy
  BY <1>4, Zenon DEF Fits, Corr!Describes
<1> HIDE DEF j, t
<1>6. /\ {s[i].decoy : i \in DOMAIN s} \cup {e.decoy} = {t[i].decoy : i \in DOMAIN t}
      /\ {s[i].tactic : i \in DOMAIN s} \cup {e.tactic} = {t[i].tactic : i \in DOMAIN t}
  BY <1>1
<1>7. /\ Changes(t) = IF s[n].decoy # e.decoy THEN Changes(s) \cup {n + 1} ELSE Changes(s)
      /\ Changes(s) \subseteq 1..n /\ n + 1 \notin Changes(s) /\ IsFiniteSet(Changes(s))
  <2>1. Changes(s) \subseteq 1..n /\ n + 1 \notin Changes(s)
    BY <1>1
  <2>2. IsFiniteSet(Changes(s))
    <3>1. IsFiniteSet(1..n)
      BY <1>1, FS_Interval
    <3> HIDE DEF Changes
    <3> QED BY <2>1, <3>1, FS_Subset
  <2>3. \A i \in 1..n : i \in Changes(t) <=> i \in Changes(s)
    BY <1>1
  <2>4. n + 1 \in Changes(t) <=> s[n].decoy # e.decoy
    BY <1>1
  <2>5. Changes(t) \subseteq 1..(n + 1)
    BY <1>1
  <2> HIDE DEF Changes
  <2>6. \A i : i \in 1..(n + 1) <=> i \in 1..n \/ i = n + 1
    BY <1>1
  <2>7. CASE s[n].decoy # e.decoy
    <3>1. Changes(t) = Changes(s) \cup {n + 1}
      BY <1>1, <2>1, <2>3, <2>4, <2>5, <2>6, <2>7
    <3> QED BY <2>1, <2>2, <2>7, <3>1
  <2>8. CASE s[n].decoy = e.decoy
    <3>1. Changes(t) = Changes(s)
      BY <1>1, <2>1, <2>3, <2>4, <2>5, <2>6, <2>8
    <3> QED BY <2>1, <2>2, <2>8, <3>1
  <2> QED BY <2>7, <2>8
<1> HIDE DEF Changes
<1>8. Cardinality(Changes(s) \cup {n + 1}) = Len(c.hops) + 1 /\ Len(c.hops) \in Nat
  <2>1. Cardinality(Changes(s) \cup {n + 1}) = Cardinality(Changes(s)) + 1
    BY <1>7, FS_AddElement
  <2> QED BY <1>2, <1>5, <2>1
<1>9. /\ Len(j.hops) = Cardinality(Changes(t))
      /\ j.hops # <<>> /\ j.hops[Len(j.hops)] = e.decoy
      /\ \A k \in 1..Len(c.hops) : j.hops[k] = c.hops[k]
  <2>1. CASE s[n].decoy # e.decoy
    <3>1. j.hops = Append(c.hops, e.decoy)
      BY <1>3, <1>5, <2>1
    <3>2. /\ Len(j.hops) = Len(c.hops) + 1 /\ j.hops[Len(c.hops) + 1] = e.decoy
          /\ \A k \in 1..Len(c.hops) : j.hops[k] = c.hops[k]
      BY <1>2, <1>8, <3>1
    <3>3. j.hops # <<>>
      BY <1>8, <3>2
    <3> QED BY <1>7, <1>8, <2>1, <3>2, <3>3
  <2>2. CASE s[n].decoy = e.decoy
    <3>1. j.hops = c.hops
      BY <1>3, <1>5, <2>2
    <3> QED BY <1>5, <1>7, <2>2, <3>1
  <2> QED BY <2>1, <2>2
<1>10. ASSUME NEW i \in Changes(t)
       PROVE  j.hops[Cardinality(UpTo(i, Changes(t)))] = t[i].decoy
  <2>1. CASE i \in Changes(s)
    <3>1. UpTo(i, Changes(t)) = UpTo(i, Changes(s)) /\ t[i] = s[i]
      BY <1>1, <1>7, <2>1
    <3>2. UpTo(i, Changes(s)) \subseteq Changes(s) /\ i \in UpTo(i, Changes(s))
      BY <1>1, <1>7, <2>1
    <3> DEFINE k == Cardinality(UpTo(i, Changes(s)))
    <3>3. IsFiniteSet(UpTo(i, Changes(s))) /\ k \in Nat /\ k <= Len(c.hops)
      <4> HIDE DEF UpTo
      <4> QED BY <1>5, <1>7, <3>2, FS_Subset, FS_CardinalityType
    <3>4. k # 0
      <4> HIDE DEF UpTo
      <4> QED BY <3>2, <3>3, FS_EmptySet
    <3>5. j.hops[k] = c.hops[k] /\ c.hops[k] = s[i].decoy
      <4>1. k \in 1..Len(c.hops)
        BY <1>8, <3>3, <3>4
      <4> HIDE DEF UpTo
      <4> QED BY <1>5, <1>9, <2>1, <4>1
    <3> QED BY <3>1, <3>5
  <2>2. CASE i = n + 1
    <3>1. UpTo(i, Changes(t)) = Changes(t)
      BY <1>1, <1>7, <2>2
    <3> HIDE DEF UpTo
    <3> QED BY <1>1, <1>9, <2>2, <3>1
  <2> QED BY <1>7, <2>1, <2>2
<1>11. /\ Range(j.decoys) = {t[i].decoy : i \in DOMAIN t}
       /\ Len(j.decoys) = Cardinality(Range(j.decoys))
       /\ Range(j.tactics) = {t[i].tactic : i \in DOMAIN t}
       /\ Len(j.tactics) = Cardinality(Range(j.tactics))
  <2>1. /\ Range(j.decoys) = Range(c.decoys) \cup {e.decoy}
        /\ Len(j.decoys) = Cardinality(Range(j.decoys))
    <3> DEFINE q == c.decoys
               x == e.decoy
    <3>1. q \in Seq(Decoy) /\ x \in Decoy /\ Len(q) = Cardinality(Range(q))
          /\ j.decoys = Corr!Include(q, x)
      BY <1>2, <1>3, <1>5
    <3> HIDE DEF q, x
    <3>2. /\ Range(Corr!Include(q, x)) = Range(q) \cup {x}
          /\ Len(Corr!Include(q, x)) = Cardinality(Range(Corr!Include(q, x)))
      BY <1>included, <3>1
    <3> QED BY <3>1, <3>2, Zenon DEF q, x
  <2>2. /\ Range(j.tactics) = Range(c.tactics) \cup {e.tactic}
        /\ Len(j.tactics) = Cardinality(Range(j.tactics))
    <3> DEFINE q == c.tactics
               x == e.tactic
    <3>1. q \in Seq(Decoy) /\ x \in Decoy /\ Len(q) = Cardinality(Range(q))
          /\ j.tactics = Corr!Include(q, x)
      BY <1>2, <1>3, <1>5
    <3> HIDE DEF q, x
    <3>2. /\ Range(Corr!Include(q, x)) = Range(q) \cup {x}
          /\ Len(Corr!Include(q, x)) = Cardinality(Range(Corr!Include(q, x)))
      BY <1>included, <3>1
    <3> QED BY <3>1, <3>2, Zenon DEF q, x
  <2> QED BY <1>5, <1>6, <2>1, <2>2, Zenon
<1>12. \A i \in DOMAIN j.decoys : \A k \in DOMAIN j.decoys :
         i < k => \E m \in DOMAIN t : /\ t[m].decoy = j.decoys[i]
                                      /\ \A l \in 1..m : t[l].decoy # j.decoys[k]
  <2> SUFFICES ASSUME NEW i \in DOMAIN j.decoys, NEW k \in DOMAIN j.decoys, i < k
               PROVE  \E m \in 1..n : /\ s[m].decoy = j.decoys[i]
                                      /\ \A l \in 1..m : s[l].decoy # j.decoys[k]
    BY <1>1
  <2>1. j.decoys = IF e.decoy \in Range(c.decoys) THEN c.decoys ELSE Append(c.decoys, e.decoy)
    BY <1>2, <1>3, <1>included
  <2>2. CASE k \in DOMAIN c.decoys
    <3>1. i \in DOMAIN c.decoys /\ j.decoys[i] = c.decoys[i] /\ j.decoys[k] = c.decoys[k]
      BY <1>2, <2>1, <2>2
    <3> QED BY <1>1, <1>5, <2>2, <3>1, SMTT(30)
  <2>3. CASE k \notin DOMAIN c.decoys
    <3>1. /\ e.decoy \notin Range(c.decoys) /\ j.decoys[k] = e.decoy
          /\ i \in DOMAIN c.decoys /\ j.decoys[i] = c.decoys[i]
      <4>1. j.decoys = Append(c.decoys, e.decoy) /\ e.decoy \notin Range(c.decoys)
        BY <2>1, <2>3
      <4>2. /\ Len(c.decoys) \in Nat /\ DOMAIN c.decoys = 1..Len(c.decoys)
            /\ DOMAIN j.decoys = 1..(Len(c.decoys) + 1)
            /\ j.decoys[Len(c.decoys) + 1] = e.decoy
            /\ \A l \in 1..Len(c.decoys) : j.decoys[l] = c.decoys[l]
        BY <1>2, <4>1
      <4>3. k = Len(c.decoys) + 1 /\ i \in DOMAIN c.decoys
        BY <2>3, <4>2
      <4> QED BY <4>1, <4>2, <4>3
    <3>2. j.decoys[i] \in Range(c.decoys)
      BY <3>1 DEF Range
    <3>3. PICK m \in 1..n : s[m].decoy = j.decoys[i]
      BY <1>1, <1>5, <3>2
    <3>4. \A l \in 1..n : s[l].decoy # e.decoy
      BY <1>1, <1>5, <3>1
    <3> QED BY <1>1, <3>1, <3>3, <3>4
  <2> QED BY <2>2, <2>3
<1>13. j.hopped <=> Cardinality(Range(j.decoys)) > 1
  <2>1. j.hopped <=> c.hopped \/ Len(j.decoys) > 1
    BY <1>3, Zenon
  <2>2. Len(c.decoys) <= Len(j.decoys) /\ Len(c.decoys) \in Nat /\ Len(j.decoys) \in Nat
    <3>1. j.decoys = IF e.decoy \in Range(c.decoys) THEN c.decoys ELSE Append(c.decoys, e.decoy)
      BY <1>2, <1>3, <1>included
    <3> QED BY <1>2, <3>1
  <2>3. c.hopped => Len(j.decoys) > 1
    <3>1. c.hopped => Len(c.decoys) > 1
      BY <1>5, Zenon
    <3>2. Len(c.decoys) > 1 => Len(j.decoys) > 1
      BY <2>2
    <3> QED BY <3>1, <3>2, Zenon
  <2> QED BY <1>11, <2>1, <2>3, Zenon
<1>14. (\A i \in DOMAIN t : t[i].score <= j.max) /\ \E i \in DOMAIN t : t[i].score = j.max
  <2>1. \A i \in 1..n : s[i].score \in Nat /\ s[i].score <= c.max
    <3>1. \A i \in 1..n : s[i] \in Corr!Events
      BY <1>1
    <3> QED BY <1>1, <1>5, <3>1, HistoryAssumption DEF Corr!Events, Corr!CorrelatorConstants
  <2>2. j.max \in Nat /\ c.max <= j.max /\ e.score <= j.max /\ (j.max = c.max \/ j.max = e.score)
    BY <1>2, <1>3
  <2>3. PICK i \in 1..n : s[i].score = c.max
    BY <1>1, <1>5
  <2>4. \A k \in 1..(n + 1) : k \in 1..n \/ k = n + 1
    BY <1>1
  <2>5. i \in 1..(n + 1) /\ n + 1 \in 1..(n + 1)
    BY <1>1
  <2>6. \A k \in 1..(n + 1) : t[k].score <= j.max
    BY <1>1, <1>2, <2>1, <2>2, <2>4
  <2> QED BY <1>1, <2>2, <2>3, <2>5, <2>6
<1>15. /\ j.id = t[1].time \div PerSecond /\ j.first = t[1].time /\ j.last = t[Len(t)].time
       /\ j.total = Len(t)
  BY <1>1, <1>3, <1>5
<1>16. Corr!Describes(j, t)
  BY <1>4, <1>9, <1>10, <1>11, <1>12, <1>13, <1>14, <1>15, Zenon
  DEF Corr!Describes, Corr!Last, Changes
<1> QED BY <1>1, <1>9, <1>16 DEF Fits, j, t

\* A set of naturals with a bound has a greatest element.
LEMMA Greatest ==
  ASSUME NEW B, B \subseteq Nat, B # {}, NEW n \in Nat, \A i \in B : i <= n
  PROVE  \E i \in B : \A k \in B : k <= i
<1> DEFINE T == {m \in Nat : (\A i \in B : i <= m) => \E i \in B : \A k \in B : k <= i}
<1>1. 0 \in T
  <2>1. PICK i \in B : i \in Nat
    OBVIOUS
  <2>2. (\A k \in B : k <= 0) => \A k \in B : k <= i
    BY <2>1
  <2> QED BY <2>1, <2>2
<1>2. ASSUME NEW m \in Nat, m \in T
      PROVE  m + 1 \in T
  <2>1. CASE m + 1 \in B
    BY <2>1
  <2>2. CASE m + 1 \notin B
    <3>1. (\A i \in B : i <= m + 1) => \A i \in B : i <= m
      BY <2>2
    <3> QED BY <1>2, <3>1
  <2> QED BY <2>1, <2>2
<1>3. n \in T
  <2> HIDE DEF T
  <2> QED BY <1>1, <1>2, Induction
<1> QED BY <1>3

\* The last session of a sequence of events, and what one more event makes of it: a
\* session of its own after a gap, and else the session's last event.
LEMMA SessionGrows ==
  ASSUME NEW s \in Seq(Corr!Events), NEW e \in Corr!Events
  PROVE  /\ s = <<>> => Corr!Session(Append(s, e)) = <<e>>
         /\ s # <<>> =>
              /\ Corr!Session(s) \in Seq(Corr!Events) /\ Corr!Session(s) # <<>>
              /\ Corr!Session(s)[Len(Corr!Session(s))] = s[Len(s)]
              /\ Corr!Session(Append(s, e)) = IF e.time - s[Len(s)].time > SessionWindow
                                                THEN <<e>> ELSE Append(Corr!Session(s), e)
<1> DEFINE t == Append(s, e)
           n == Len(s)
           Begins(q) == {i \in DOMAIN q : i = 1 \/ q[i].time - q[i - 1].time > SessionWindow}
           Begin(q) == CHOOSE i \in Begins(q) : \A k \in Begins(q) : k <= i
<1>1. /\ n \in Nat /\ DOMAIN s = 1..n /\ DOMAIN t = 1..(n + 1) /\ Len(t) = n + 1
      /\ t[n + 1] = e /\ (\A i \in 1..n : t[i] = s[i]) /\ t \in Seq(Corr!Events)
  OBVIOUS
<1>2. /\ Corr!Session(s) = SubSeq(s, Begin(s), n)
      /\ Corr!Session(t) = SubSeq(t, Begin(t), n + 1)
  BY <1>1 DEF Corr!Session
<1> HIDE DEF t
<1>3. ASSUME NEW q \in Seq(Corr!Events), q # <<>>
      PROVE  /\ Begin(q) \in Begins(q) /\ \A k \in Begins(q) : k <= Begin(q)
             /\ Begin(q) \in 1..Len(q)
  <2>1. Begins(q) \subseteq 1..Len(q) /\ 1 \in Begins(q) /\ Len(q) \in Nat
    BY <1>3
  <2> HIDE DEF Begins
  <2>2. \E i \in Begins(q) : \A k \in Begins(q) : k <= i
    <3>1. Begins(q) \subseteq Nat /\ Begins(q) # {} /\ \A i \in Begins(q) : i <= Len(q)
      BY <2>1
    <3> QED BY <2>1, <3>1, Greatest
  <2> QED BY <2>1, <2>2
<1>4. n + 1 \in Begins(t) <=> n = 0 \/ e.time - s[n].time > SessionWindow
  BY <1>1
<1>5. \A i \in 1..n : i \in Begins(t) <=> i \in Begins(s)
  BY <1>1
<1>6. t # <<>> /\ Begins(t) \subseteq 1..(n + 1)
  BY <1>1
<1> HIDE DEF Begins, Begin
<1>7. ASSUME n + 1 \in Begins(t)
      PROVE  Corr!Session(t) = <<e>>
  <2>1. Begin(t) = n + 1
    <3>1. Begin(t) \in 1..(n + 1) /\ n + 1 <= Begin(t)
      BY <1>1, <1>3, <1>6, <1>7
    <3> QED BY <1>1, <3>1
  <2>2. SubSeq(t, n + 1, n + 1) = <<e>>
    <3>1. SubSeq(t, n + 1, n) = <<>> /\ e \in Corr!Events
      BY <1>1
    <3>2. SubSeq(t, n + 1, n + 1) = Append(SubSeq(t, n + 1, n), e)
      BY <1>1
    <3>3. Append(<<>>, e) = <<e>>
      OBVIOUS
    <3> QED BY <3>1, <3>2, <3>3
  <2> QED BY <1>2, <2>1, <2>2
<1>8. CASE s = <<>>
  BY <1>1, <1>4, <1>7, <1>8 DEF t
<1>9. CASE s # <<>>
  <2>1. n # 0 /\ Begin(s) \in 1..n
    BY <1>1, <1>3, <1>9
  <2>2. /\ Corr!Session(s) \in Seq(Corr!Events) /\ Corr!Session(s) # <<>>
        /\ Corr!Session(s)[Len(Corr!Session(s))] = s[n]
    BY <1>1, <1>2, <2>1
  <2>3. ASSUME ~ (e.time - s[n].time > SessionWindow)
        PROVE  Corr!Session(t) = Append(Corr!Session(s), e)
    <3>1. n + 1 \notin Begins(t)
      BY <1>4, <2>1, <2>3
    <3>2. Begin(t) = Begin(s)
      <4>1. Begin(t) \in Begins(t) /\ Begin(t) \in 1..(n + 1) /\ \A k \in Begins(t) : k <= Begin(t)
        BY <1>1, <1>3, <1>6
      <4>2. Begin(s) \in Begins(s) /\ \A k \in Begins(s) : k <= Begin(s)
        BY <1>3, <1>9
      <4>3. Begin(t) \in 1..n
        BY <1>1, <3>1, <4>1
      <4> QED BY <1>1, <1>5, <2>1, <4>1, <4>2, <4>3
    <3>3. SubSeq(t, Begin(s), n + 1) = Append(SubSeq(s, Begin(s), n), e)
      BY <1>1, <2>1
    <3> QED BY <1>2, <3>2, <3>3
  <2> QED BY <1>4, <1>7, <1>9, <2>1, <2>2, <2>3 DEF t
<1> QED BY <1>8, <1>9

\* Those of a sequence of events that come from an address, with one more event.
LEMMA FromGrows ==
  ASSUME NEW ip \in IP, NEW s \in Seq(Corr!Events), NEW e \in Corr!Events
  PROVE  /\ Corr!From(ip, s) \in Seq(Corr!Events)
         /\ Corr!From(ip, <<>>) = <<>>
         /\ Corr!From(ip, Append(s, e)) =
              IF e.ip = ip THEN Append(Corr!From(ip, s), e) ELSE Corr!From(ip, s)
<1> DEFINE Of(q) == [i \in DOMAIN q |-> IF q[i].ip = ip THEN <<q[i]>> ELSE <<>>]
           x == IF e.ip = ip THEN <<e>> ELSE <<>>
<1>1. \A q : Corr!From(ip, q) = FlattenSeq(Of(q))
  BY DEF Corr!From, Corr!FlattenSeq, FlattenSeq
<1>2. ASSUME NEW q \in Seq(Corr!Events)
      PROVE  Of(q) \in Seq(Seq(Corr!Events)) /\ Len(Of(q)) = Len(q)
  <2>1. DOMAIN q = 1..Len(q) /\ Len(q) \in Nat /\ \A i \in 1..Len(q) : q[i] \in Corr!Events
    OBVIOUS
  <2>2. \A i \in 1..Len(q) : Of(q)[i] \in Seq(Corr!Events)
    BY <2>1
  <2> QED BY <2>1, <2>2
<1>3. Of(Append(s, e)) = Append(Of(s), x)
  <2> DEFINE t == Append(s, e)
  <2>1. /\ Len(s) \in Nat /\ DOMAIN s = 1..Len(s) /\ DOMAIN t = 1..(Len(s) + 1)
        /\ t[Len(s) + 1] = e /\ \A i \in 1..Len(s) : t[i] = s[i]
    OBVIOUS
  <2>2. Of(s) \in Seq(Seq(Corr!Events)) /\ Len(Of(s)) = Len(s)
    BY <1>2
  <2> DEFINE w == Append(Of(s), x)
  <2>3. /\ DOMAIN w = 1..(Len(s) + 1) /\ w[Len(s) + 1] = x /\ \A i \in 1..Len(s) : w[i] = Of(s)[i]
        /\ w = [i \in 1..(Len(s) + 1) |-> w[i]]
    <3> HIDE DEF Of, x
    <3>1. Len(w) = Len(s) + 1 /\ w[Len(s) + 1] = x /\ \A i \in 1..Len(s) : w[i] = Of(s)[i]
      BY <2>1, <2>2
    <3>2. w \in Seq(Seq(Corr!Events))
      <4>1. x \in Seq(Corr!Events)
        BY DEF x
      <4> QED BY <2>2, <4>1
    <3> HIDE DEF w
    <3>3. w = [i \in 1..Len(w) |-> w[i]]
      BY <3>2
    <3> QED BY <2>1, <3>1, <3>3
  <2> HIDE DEF t, w
  <2>4. \A i \in 1..(Len(s) + 1) : Of(t)[i] = w[i]
    <3> SUFFICES ASSUME NEW i \in 1..(Len(s) + 1)
                 PROVE  Of(t)[i] = w[i]
      OBVIOUS
    <3>1. Of(t)[i] = IF t[i].ip = ip THEN <<t[i]>> ELSE <<>>
      BY <2>1
    <3>2. CASE i \in 1..Len(s)
      <4>1. w[i] = IF s[i].ip = ip THEN <<s[i]>> ELSE <<>>
        BY <2>1, <2>3, <3>2
      <4> QED BY <2>1, <3>1, <3>2, <4>1
    <3>3. CASE i = Len(s) + 1
      BY <2>1, <2>3, <3>1, <3>3
    <3> QED BY <2>1, <3>2, <3>3
  <2>5. Of(t) = [i \in 1..(Len(s) + 1) |-> Of(t)[i]]
    BY <2>1
  <2>6. Of(t) = w
    <3> HIDE DEF Of
    <3> QED BY <2>3, <2>4, <2>5
  <2> QED BY <2>6 DEF t, w
<1>4. Of(<<>>) = <<>> /\ FlattenSeq(<<>>) = <<>>
  BY DEF FlattenSeq
<1>5. x \in Seq(Corr!Events)
  OBVIOUS
<1>6. /\ FlattenSeq(Of(s)) \in Seq(Corr!Events)
      /\ FlattenSeq(Append(Of(s), x)) = FlattenSeq(Of(s)) \o x
  <2> HIDE DEF Of, x
  <2> QED BY <1>2, <1>5, Flattening
<1>7. FlattenSeq(Of(s)) \o x = IF e.ip = ip THEN Append(FlattenSeq(Of(s)), e) ELSE FlattenSeq(Of(s))
  <2> HIDE DEF Of
  <2> QED BY <1>6
<1> HIDE DEF Of, x
<1> QED BY <1>1, <1>3, <1>4, <1>6, <1>7

\* What is kept of an address's events is the campaign that tells about them.
SessionsKept ==
  \A ip \in IP :
    IF campaigns[ip] = NoCampaign
      THEN Corr!Since(ip) = <<>>
      ELSE /\ Corr!Since(ip) # <<>>
           /\ Fits(campaigns[ip], Corr!Session(Corr!Since(ip)))

LEMMA SessionsStep == Inv /\ SessionsKept /\ [Next]_vars => SessionsKept'
<1> SUFFICES ASSUME Inv, SessionsKept, [Next]_vars, NEW ip \in IP
             PROVE  (IF campaigns[ip] = NoCampaign
                       THEN Corr!Since(ip) = <<>>
                       ELSE /\ Corr!Since(ip) # <<>>
                            /\ Fits(campaigns[ip], Corr!Session(Corr!Since(ip))))'
  BY DEF SessionsKept
<1> DEFINE Kept == IF campaigns[ip] = NoCampaign
                     THEN Corr!Since(ip) = <<>>
                     ELSE /\ Corr!Since(ip) # <<>>
                          /\ Fits(campaigns[ip], Corr!Session(Corr!Since(ip)))
           p == pruned[ip]
           n == Len(log)
           part == SubSeq(log, p + 1, n)
<1>1. /\ Kept /\ log \in Seq(Corr!Events) /\ n \in Nat /\ p \in 0..n
      /\ campaigns \in [IP -> MaybeCampaign] /\ now \in 0..MaxTime
  BY DEF SessionsKept, Inv, TypeOK
<1>2. Corr!Since(ip) = Corr!From(ip, part) /\ part \in Seq(Corr!Events)
  BY <1>1 DEF Corr!Since
<1>3. Corr!From(ip, <<>>) = <<>>
  BY DEF Corr!From, Corr!FlattenSeq
<1>4. ASSUME UNCHANGED <<campaigns[ip], log, pruned[ip]>>
      PROVE  Kept'
  BY <1>1, <1>4 DEF Corr!Since
<1>5. ASSUME campaigns'[ip] = NoCampaign, pruned'[ip] = Len(log'), log' \in Seq(Corr!Events)
      PROVE  Kept'
  <2>1. SubSeq(log', pruned'[ip] + 1, Len(log')) = <<>>
    BY <1>5
  <2> QED BY <1>3, <1>5, <2>1 DEF Corr!Since
<1>6. CASE Start
  BY <1>5, <1>6 DEF Start, Corr!NoCampaigns
<1>7. CASE Handle
  <2>1. PICK e \in Event, t \in Nat :
           /\ Seen(e, t) \in Corr!Events
           /\ Seen(e, t).ip = e.ip
           /\ campaigns' = [campaigns EXCEPT ![e.ip] = Corr!Ingested(campaigns[e.ip], Seen(e, t))]
           /\ log' = Append(log, Seen(e, t)) /\ UNCHANGED pruned
    BY <1>7, Handling DEF Inv
  <2> DEFINE x == Seen(e, t)
             s == Corr!Since(ip)
             c == campaigns[ip]
  <2>2. SubSeq(log', p + 1, Len(log')) = Append(part, x)
    <3>1. x \in Corr!Events /\ log' = Append(log, x)
      BY <2>1
    <3> HIDE DEF x, p
    <3>2. /\ Len(log') = n + 1 /\ log' \in Seq(Corr!Events) /\ log'[n + 1] = x
          /\ \A i \in 1..n : log'[i] = log[i]
      BY <1>1, <3>1
    <3>3. SubSeq(log', p + 1, n + 1) = Append(SubSeq(log', p + 1, n), log'[n + 1])
      <4>1. p + 1 \in 1..(n + 1) /\ n + 1 \in 1..Len(log')
        BY <1>1, <3>2
      <4>2. ASSUME NEW q \in Seq(Corr!Events), NEW k \in Nat, k < Len(q), NEW m \in 1..(k + 1)
            PROVE  SubSeq(q, m, k + 1) = Append(SubSeq(q, m, k), q[k + 1])
        OBVIOUS
      <4>3. n \in Nat /\ n < Len(log') /\ p + 1 \in 1..(n + 1)
        BY <1>1, <3>2
      <4> HIDE DEF n
      <4> QED BY <3>2, <4>2, <4>3
    <3>4. SubSeq(log', p + 1, n) = SubSeq(log, p + 1, n)
      <4> DEFINE u == SubSeq(log', p + 1, n)
                 v == SubSeq(log, p + 1, n)
      <4>1. /\ u \in Seq(Corr!Events) /\ Len(u) = n - p
            /\ \A i \in 1..(n - p) : u[i] = log'[p + i]
        BY <1>1, <3>2
      <4>2. /\ v \in Seq(Corr!Events) /\ Len(v) = n - p
            /\ \A i \in 1..(n - p) : v[i] = log[p + i]
        BY <1>1
      <4>3. \A i \in 1..(n - p) : p + i \in 1..n
        BY <1>1
      <4> HIDE DEF u, v
      <4>4. \A i \in 1..Len(u) : u[i] = v[i]
        BY <3>2, <4>1, <4>2, <4>3
      <4>5. u = v
        BY <4>1, <4>2, <4>4, SeqEqual
      <4> QED BY <4>5 DEF u, v
    <3> QED BY <3>2, <3>3, <3>4
  <2>3. /\ s \in Seq(Corr!Events)
        /\ Corr!Since(ip)' = IF x.ip = ip THEN Append(s, x) ELSE s
    <3>1. Corr!Since(ip)' = Corr!From(ip, Append(part, x))
      BY <2>1, <2>2 DEF Corr!Since
    <3> HIDE DEF x, part
    <3>2. /\ Corr!From(ip, part) \in Seq(Corr!Events)
          /\ Corr!From(ip, Append(part, x)) =
               IF x.ip = ip THEN Append(Corr!From(ip, part), x) ELSE Corr!From(ip, part)
      BY <1>2, <2>1, FromGrows DEF x
    <3> QED BY <1>2, <3>1, <3>2
  <2>4. x \in Corr!Events /\ x.ip = e.ip /\ c \in MaybeCampaign
        /\ campaigns' = [campaigns EXCEPT ![e.ip] = Corr!Ingested(campaigns[e.ip], x)]
    BY <1>1, <2>1
  <2>5. (c = NoCampaign => s = <<>>)
        /\ (c # NoCampaign => s # <<>> /\ Fits(c, Corr!Session(s)))
    BY <1>1
  <2> DEFINE since == Corr!Since(ip)'
  <2>6. since = IF x.ip = ip THEN Append(s, x) ELSE s
    BY <2>3
  <2> HIDE DEF x, s, c
  <2>7. CASE x.ip # ip
    <3>1. campaigns'[ip] = c
      BY <1>1, <2>4, <2>7 DEF c
    <3> QED BY <2>5, <2>6, <2>7, <3>1
  <2>8. CASE x.ip = ip
    <3>1. campaigns'[ip] = Corr!Ingested(c, x) /\ since = Append(s, x)
      BY <1>1, <2>4, <2>6, <2>8 DEF c
    <3>2. Corr!Ingested(c, x) # NoCampaign /\ Append(s, x) # <<>>
      <4>1. Append(s, x) # <<>>
        BY <2>3, <2>4
      <4> QED BY <2>4, <4>1, Ingesting
    <3>3. c # NoCampaign => c.last = s[Len(s)].time
      <4>1. Fits(c, Corr!Session(s)) => c.last = Corr!Session(s)[Len(Corr!Session(s))].time
        BY Zenon DEF Fits, Corr!Describes, Corr!Last
      <4>2. s # <<>> => Corr!Session(s)[Len(Corr!Session(s))] = s[Len(s)]
        BY <2>3, <2>4, SessionGrows
      <4> QED BY <2>5, <4>1, <4>2
    <3>4. /\ s = <<>> => Corr!Session(Append(s, x)) = <<x>>
          /\ s # <<>> => Corr!Session(Append(s, x)) = IF x.time - s[Len(s)].time > SessionWindow
                                                     THEN <<x>> ELSE Append(Corr!Session(s), x)
      BY <2>3, <2>4, SessionGrows
    <3>5. Fits(Corr!Ingested(c, x), Corr!Session(Append(s, x)))
      <4>1. CASE Corr!Opens(c, x)
        <5>1. Corr!Ingested(c, x) = Corr!Joined(Corr!NewCampaign(x), x)
          BY <4>1 DEF Corr!Ingested
        <5>2. Corr!Session(Append(s, x)) = <<x>>
          BY <2>5, <3>3, <3>4, <4>1 DEF Corr!Opens, Corr!Expired
        <5> QED BY <2>4, <5>1, <5>2, OneEventFits
      <4>2. CASE ~ Corr!Opens(c, x)
        <5>1. Corr!Ingested(c, x) = Corr!Joined(c, x) /\ c # NoCampaign /\ c \in Corr!Campaign
          BY <2>4, <4>2 DEF Corr!Ingested, Corr!Opens, MaybeCampaign
        <5>2. Corr!Session(Append(s, x)) = Append(Corr!Session(s), x)
          BY <2>5, <3>3, <3>4, <4>2 DEF Corr!Opens, Corr!Expired
        <5>3. Corr!Session(s) \in Seq(Corr!Events) /\ Corr!Session(s) # <<>>
          BY <2>3, <2>4, <2>5, <5>1, SessionGrows
        <5> QED BY <2>4, <2>5, <5>1, <5>2, <5>3, OneMoreFits
      <4> QED BY <4>1, <4>2
    <3> QED BY <3>1, <3>2, <3>5
  <2> QED BY <2>7, <2>8
<1>8. CASE Stop
  BY <1>4, <1>8 DEF Stop, corrVars
<1>9. CASE Tick
  BY <1>4, <1>9 DEF Tick, Corr!Tick
<1>10. CASE PruneExpired
  <2> DEFINE Stale == campaigns[ip] # NoCampaign /\ now - campaigns[ip].last > SessionWindow
  <2>1. /\ campaigns'[ip] = IF Stale THEN NoCampaign ELSE campaigns[ip]
        /\ pruned'[ip] = IF Stale THEN Len(log) ELSE pruned[ip]
        /\ log' = log
    BY <1>10 DEF PruneExpired, Corr!PruneExpired
  <2>2. CASE Stale
    BY <1>1, <1>5, <2>1, <2>2
  <2>3. CASE ~ Stale
    BY <1>4, <2>1, <2>3
  <2> QED BY <2>2, <2>3
<1>11. CASE UNCHANGED vars
  BY <1>4, <1>11 DEF vars, corrVars
<1> QED BY <1>6, <1>7, <1>8, <1>9, <1>10, <1>11 DEF Next

\* The campaign kept event by event is what its address's last session of events
\* says, however late and out of order they came (correlator.go:53-134).
THEOREM CampaignsAreSessions == Spec => []CampaignIsLastSession
<1>1. Init => SessionsKept
  <2>1. ASSUME Init, NEW ip \in IP
        PROVE  campaigns[ip] = NoCampaign /\ Corr!Since(ip) = <<>>
    <3>1. log = <<>> /\ pruned[ip] = 0 /\ campaigns[ip] = NoCampaign
      BY <2>1 DEF Init, Corr!Init, Corr!NoCampaigns
    <3>2. SubSeq(log, pruned[ip] + 1, Len(log)) = <<>>
      BY <3>1
    <3>3. Corr!From(ip, <<>>) = <<>>
      BY DEF Corr!From, Corr!FlattenSeq
    <3> QED BY <3>1, <3>2, <3>3 DEF Corr!Since
  <2> QED BY <2>1 DEF SessionsKept
<1>2. SessionsKept => CampaignIsLastSession
  BY DEF SessionsKept, Fits, CampaignIsLastSession, Corr!CampaignIsLastSession
<1> QED BY <1>1, <1>2, Inductive, SessionsStep, PTL DEF Spec

-----------------------------------------------------------------------------
(* The campaign in memory and the one rebuilt from the file. *)

\* s is the end of t.
Ends(s, t) == /\ Len(s) <= Len(t)
              /\ \A i \in 1..Len(s) : s[i] = t[Len(t) - Len(s) + i]

LEMMA EndsIsSuffix ==
  ASSUME NEW S, NEW s \in Seq(S), NEW t \in Seq(S), Ends(s, t)
  PROVE  IsSuffix(s, t)
<1> DEFINE m == Len(s)
           n == Len(t)
           r == Reverse(s)
           q == Reverse(t)
<1>1. m \in Nat /\ n \in Nat /\ m <= n
  BY DEF Ends
<1>2. /\ r = [i \in 1..m |-> s[m - i + 1]] /\ q = [i \in 1..n |-> t[n - i + 1]]
      /\ \A i \in 1..m : m - i + 1 \in 1..m /\ s[m - i + 1] \in S
      /\ \A i \in 1..n : n - i + 1 \in 1..n /\ t[n - i + 1] \in S
  BY <1>1 DEF Reverse
<1>3. r \in Seq(S) /\ Len(r) = m /\ \A i \in 1..m : r[i] = s[m - i + 1]
  <2> HIDE DEF r, q, m, n
  <2> QED BY <1>1, <1>2
<1>4. q \in Seq(S) /\ Len(q) = n /\ \A i \in 1..n : q[i] = t[n - i + 1]
  <2> HIDE DEF r, q, m, n
  <2> QED BY <1>1, <1>2
<1> HIDE DEF r, q
<1>5. \A i \in 1..m : r[i] = q[i]
  <2> SUFFICES ASSUME NEW i \in 1..m PROVE r[i] = q[i]
    OBVIOUS
  <2>1. s[m - i + 1] = t[n - m + (m - i + 1)] /\ n - m + (m - i + 1) = n - i + 1
    BY <1>1, <1>2 DEF Ends
  <2>2. i \in 1..n /\ r[i] = s[m - i + 1] /\ q[i] = t[n - i + 1]
    BY <1>1, <1>3, <1>4
  <2> QED BY <2>1, <2>2
<1>6. SubSeq(r, 1, m) = SubSeq(q, 1, m)
  <2>1. SubSeq(r, 1, m) \in Seq(S) /\ Len(SubSeq(r, 1, m)) = m /\ \A i \in 1..m : SubSeq(r, 1, m)[i] = r[i]
    BY <1>1, <1>3
  <2>2. SubSeq(q, 1, m) \in Seq(S) /\ Len(SubSeq(q, 1, m)) = m /\ \A i \in 1..m : SubSeq(q, 1, m)[i] = q[i]
    BY <1>1, <1>4
  <2> QED BY <1>5, <2>1, <2>2, SeqEqual
<1>7. Len(r) <= Len(q) /\ SubSeq(r, 1, Len(r)) = SubSeq(q, 1, Len(r))
  <2> HIDE DEF m, n
  <2> QED BY <1>1, <1>3, <1>4, <1>6
<1>8. IsPrefix(r, q)
  BY <1>7 DEF IsPrefix
<1> QED BY <1>8 DEF IsSuffix, r, q

\* A campaign continues another backwards.
Extends(c, live) ==
  /\ c \in Corr!Campaign /\ live \in Corr!Campaign
  /\ c.first <= live.first /\ c.last = live.last
  /\ c.total >= live.total /\ c.max >= live.max
  /\ live.hops # <<>> /\ Ends(live.hops, c.hops)
  /\ Range(live.decoys) \subseteq Range(c.decoys)

\* The same event in both keeps them so.
LEMMA BothJoin ==
  ASSUME NEW c, NEW live, Extends(c, live), NEW e \in Corr!Events
  PROVE  Extends(Corr!Joined(c, e), Corr!Joined(live, e))
<1> DEFINE d == e.decoy
           cc == Corr!Joined(c, e)
           ll == Corr!Joined(live, e)
           More(q) == IF q = <<>> \/ q[Len(q)] # d THEN Append(q, d) ELSE q
<1>1. /\ c \in Corr!Campaign /\ live \in Corr!Campaign /\ d \in Decoy /\ e.score \in Nat
      /\ c.hops \in Seq(Decoy) /\ live.hops \in Seq(Decoy)
      /\ c.decoys \in Seq(Decoy) /\ live.decoys \in Seq(Decoy)
      /\ c.total \in Nat /\ live.total \in Nat /\ c.max \in Nat /\ live.max \in Nat
  BY HistoryAssumption DEF Extends, Corr!Campaign, Corr!Events, Corr!CorrelatorConstants
<1>2. /\ cc \in Corr!Campaign /\ cc.first = c.first /\ cc.last = e.time /\ cc.total = c.total + 1
      /\ cc.max = IF e.score > c.max THEN e.score ELSE c.max
      /\ cc.decoys = Corr!Include(c.decoys, d) /\ cc.hops = More(c.hops)
  BY <1>1, Joins
<1>3. /\ ll \in Corr!Campaign /\ ll.first = live.first /\ ll.last = e.time
      /\ ll.total = live.total + 1
      /\ ll.max = IF e.score > live.max THEN e.score ELSE live.max
      /\ ll.decoys = Corr!Include(live.decoys, d) /\ ll.hops = More(live.hops)
  BY <1>1, Joins
<1> HIDE DEF cc, ll
<1>4. Range(ll.decoys) \subseteq Range(cc.decoys)
  <2>1. ASSUME NEW q \in Seq(Decoy)
        PROVE  Range(Corr!Include(q, d)) = Range(q) \cup {d}
    <3>1. d \in Decoy
      BY <1>1
    <3> QED BY <3>1, Including, ZenonT(30)
  <2> QED BY <1>1, <1>2, <1>3, <2>1 DEF Extends
<1>5. ll.hops # <<>> /\ Ends(ll.hops, cc.hops)
  <2> DEFINE s == live.hops
             t == c.hops
  <2>1. /\ Len(s) \in Nat /\ Len(t) \in Nat /\ s # <<>> /\ Len(s) # 0 /\ Len(s) <= Len(t)
        /\ \A i \in 1..Len(s) : s[i] = t[Len(t) - Len(s) + i]
    <3>1. s # <<>> /\ Ends(s, t)
      BY DEF Extends
    <3> HIDE DEF s, t
    <3>2. Len(s) \in Nat /\ Len(t) \in Nat /\ Len(s) # 0
      <4>1. s \in Seq(Decoy) /\ t \in Seq(Decoy)
        BY <1>1 DEF s, t
      <4> QED BY <3>1, <4>1
    <3> QED BY <3>1, <3>2 DEF Ends
  <2>2. t # <<>> /\ s[Len(s)] = t[Len(t)]
    <3>1. Len(s) \in 1..Len(s) /\ Len(t) - Len(s) + Len(s) = Len(t) /\ Len(t) # 0
      BY <2>1
    <3>2. s[Len(s)] = t[Len(t)]
      BY <2>1, <3>1
    <3> QED BY <3>1, <3>2
  <2>3. CASE s[Len(s)] = d
    BY <1>2, <1>3, <2>1, <2>2, <2>3 DEF Ends
  <2>4. CASE s[Len(s)] # d
    <3> DEFINE ss == Append(s, d)
               tt == Append(t, d)
    <3>1. /\ Len(ss) = Len(s) + 1 /\ ss[Len(s) + 1] = d /\ \A i \in 1..Len(s) : ss[i] = s[i]
          /\ Len(tt) = Len(t) + 1 /\ tt[Len(t) + 1] = d /\ \A i \in 1..Len(t) : tt[i] = t[i]
      BY <1>1, <2>1
    <3>2. ll.hops = ss /\ cc.hops = tt
      BY <1>2, <1>3, <2>2, <2>4
    <3> HIDE DEF s, t, ss, tt
    <3>3. Ends(ss, tt)
      <4> SUFFICES ASSUME NEW i \in 1..(Len(s) + 1)
                   PROVE  ss[i] = tt[(Len(t) + 1) - (Len(s) + 1) + i]
        BY <2>1, <3>1 DEF Ends
      <4>1. CASE i = Len(s) + 1
        <5>1. (Len(t) + 1) - (Len(s) + 1) + i = Len(t) + 1
          BY <2>1, <4>1
        <5> QED BY <3>1, <4>1, <5>1
      <4>2. CASE i # Len(s) + 1
        <5>1. /\ (Len(t) + 1) - (Len(s) + 1) + i = Len(t) - Len(s) + i
              /\ Len(t) - Len(s) + i \in 1..Len(t) /\ i \in 1..Len(s)
          BY <2>1, <4>2
        <5> QED BY <2>1, <3>1, <5>1
      <4> QED BY <4>1, <4>2
    <3>4. ss # <<>>
      BY <2>1, <3>1
    <3> QED BY <3>2, <3>3, <3>4
  <2> QED BY <2>3, <2>4
<1>6. /\ cc.first <= ll.first /\ cc.last = ll.last /\ cc.total >= ll.total /\ cc.max >= ll.max
  BY <1>1, <1>2, <1>3 DEF Extends
<1> QED BY <1>2, <1>3, <1>4, <1>5, <1>6 DEF Extends, cc, ll

\* An event that opens the campaign in memory, and joins or opens the other.
LEMMA OneOpens ==
  ASSUME NEW c \in MaybeCampaign, NEW e \in Corr!Events,
         c # NoCampaign => c.first <= e.time
  PROVE  Extends(Corr!Ingested(c, e), Corr!Joined(Corr!NewCampaign(e), e))
<1> DEFINE new == Corr!NewCampaign(e)
           live == Corr!Joined(new, e)
           d == e.decoy
<1>1. d \in Decoy /\ e.score \in Nat /\ e.time \in Nat
  BY HistoryAssumption DEF Corr!Events, Corr!CorrelatorConstants
<1>2. /\ new \in Corr!Campaign /\ new.first = e.time /\ new.total = 0 /\ new.max = 0
      /\ new.decoys = <<>> /\ new.hops = <<>>
  BY Ingesting DEF Corr!NewCampaign
<1> HIDE DEF new
<1>3. /\ live \in Corr!Campaign /\ live.first = e.time /\ live.last = e.time /\ live.total = 1
      /\ live.max = e.score /\ live.decoys = Corr!Include(<<>>, d) /\ live.hops = <<d>>
  <2>1. /\ live \in Corr!Campaign /\ live.first = new.first /\ live.last = e.time
        /\ live.total = new.total + 1
        /\ live.max = IF e.score > new.max THEN e.score ELSE new.max
        /\ live.decoys = Corr!Include(new.decoys, d)
        /\ live.hops = IF new.hops = <<>> \/ new.hops[Len(new.hops)] # d
                         THEN Append(new.hops, d) ELSE new.hops
    BY <1>2, Joins
  <2>2. Append(<<>>, d) = <<d>>
    OBVIOUS
  <2> HIDE DEF live
  <2> QED BY <1>1, <1>2, <2>1, <2>2
<1> HIDE DEF live
<1>4. Range(live.decoys) = {d} /\ Len(live.hops) = 1 /\ live.hops[1] = d /\ live.hops # <<>>
  <2>1. Range(Corr!Include(<<>>, d)) = Range(<<>>) \cup {d} /\ Range(<<>>) = {}
    <3>1. <<>> \in Seq(Decoy)
      OBVIOUS
    <3>2. Range(<<>>) = {}
      BY DEF Range
    <3>3. Range(Corr!Include(<<>>, d)) = Range(<<>>) \cup {d}
      BY <1>1, <3>1, Including, ZenonT(30)
    <3> QED BY <3>2, <3>3
  <2> QED BY <1>3, <2>1
<1>5. CASE Corr!Opens(c, e)
  <2>1. Corr!Ingested(c, e) = live
    BY <1>5 DEF Corr!Ingested, live, new
  <2>2. Extends(live, live)
    BY <1>1, <1>3, <1>4 DEF Extends, Ends
  <2> QED BY <2>1, <2>2 DEF live, new
<1>6. CASE ~ Corr!Opens(c, e)
  <2> DEFINE cc == Corr!Joined(c, e)
  <2>1. Corr!Ingested(c, e) = cc /\ c \in Corr!Campaign /\ c.first <= e.time
    BY <1>6 DEF Corr!Ingested, Corr!Opens, MaybeCampaign
  <2>2. c.decoys \in Seq(Decoy) /\ c.hops \in Seq(Decoy) /\ c.total \in Nat /\ c.max \in Nat
    BY <2>1 DEF Corr!Campaign
  <2>3. /\ cc \in Corr!Campaign /\ cc.first = c.first /\ cc.last = e.time /\ cc.total = c.total + 1
        /\ cc.max = IF e.score > c.max THEN e.score ELSE c.max
        /\ cc.decoys = Corr!Include(c.decoys, d)
        /\ cc.hops = IF c.hops = <<>> \/ c.hops[Len(c.hops)] # d THEN Append(c.hops, d) ELSE c.hops
    BY <2>1, Joins
  <2> HIDE DEF cc
  <2>4. d \in Range(cc.decoys)
    <3>1. Range(Corr!Include(c.decoys, d)) = Range(c.decoys) \cup {d}
      BY <1>1, <2>2, Including
    <3> QED BY <2>3, <3>1
  <2>5. Len(cc.hops) \in Nat \ {0} /\ cc.hops[Len(cc.hops)] = d
    BY <1>1, <2>2, <2>3
  <2>6. Ends(live.hops, cc.hops)
    BY <1>4, <2>5 DEF Ends
  <2>7. Extends(cc, live)
    BY <1>1, <1>3, <1>4, <2>1, <2>2, <2>3, <2>4, <2>6 DEF Extends
  <2> QED BY <2>1, <2>7 DEF live, new
<1> QED BY <1>5, <1>6

\* When the campaign of an event ingested began.
LEMMA BeginsAt ==
  ASSUME NEW c \in MaybeCampaign, NEW e \in Corr!Events
  PROVE  Corr!Ingested(c, e).first = IF Corr!Opens(c, e) THEN e.time ELSE c.first
<1>1. CASE Corr!Opens(c, e)
  <2>1. Corr!NewCampaign(e) \in Corr!Campaign /\ Corr!NewCampaign(e).first = e.time
    BY Ingesting DEF Corr!NewCampaign
  <2>2. Corr!Joined(Corr!NewCampaign(e), e).first = e.time
    BY <2>1, Joins
  <2> QED BY <1>1, <2>2 DEF Corr!Ingested
<1>2. CASE ~ Corr!Opens(c, e)
  <2>1. c \in Corr!Campaign
    BY <1>2 DEF Corr!Opens, MaybeCampaign
  <2>2. Corr!Joined(c, e).first = c.first
    BY <2>1, Joins
  <2> QED BY <1>2, <2>2 DEF Corr!Ingested
<1> QED BY <1>1, <1>2

\* The two campaigns of an address, c rebuilt and live in memory.  A rebuilt one that
\* has nothing in memory beside it began before any event still to come; one that has
\* was seen last with the other.
Pair(c, ip) ==
  LET live == campaigns[ip]
  IN  /\ c # NoCampaign => c.first <= now
      /\ live = NoCampaign /\ c # NoCampaign => c.first <= born \/ c.first + Skew <= now
      /\ live # NoCampaign => /\ c # NoCampaign /\ Extends(c, live) /\ c.first <= c.last + Skew
                              /\ Sessions(ip) > 1 /\ pruned[ip] = 0 => c = live

\* An event that both campaigns of its address are given.
LEMMA PairIngests ==
  ASSUME Inv, NEW ip \in IP, NEW c \in MaybeCampaign, Pair(c, ip),
         NEW e \in Corr!Events, e.time \in born..now, now <= e.time + Skew
  PROVE  LET live == campaigns[ip]
             cc == Corr!Ingested(c, e)
             ll == Corr!Ingested(live, e)
         IN  /\ Extends(cc, ll) /\ cc.first <= now /\ cc.first <= cc.last + Skew
             /\ live # NoCampaign /\ Corr!Opens(live, e) => cc = ll
<1> DEFINE live == campaigns[ip]
           cc == Corr!Ingested(c, e)
           ll == Corr!Ingested(live, e)
           new == Corr!Joined(Corr!NewCampaign(e), e)
<1>1. /\ Skew \in Nat /\ SessionWindow \in Nat /\ 2 * Skew <= SessionWindow
      /\ now \in Nat /\ born \in Nat /\ e.time \in Nat /\ live \in MaybeCampaign
  <2>1. /\ Skew \in Nat /\ SessionWindow \in Nat /\ PerSecond \in Nat \ {0} /\ MaxTime \in Nat
        /\ 2 * Skew + PerSecond <= SessionWindow + 1
    BY HistoryAssumption DEF Corr!CorrelatorConstants
  <2>2. now \in 0..MaxTime /\ born \in 0..now /\ campaigns \in [IP -> MaybeCampaign]
    BY DEF Inv, TypeOK
  <2> QED BY <2>1, <2>2 DEF Corr!Events
<1>2. /\ c # NoCampaign => /\ c \in Corr!Campaign /\ c.first \in Nat /\ c.last \in Nat
                           /\ c.first <= now
      /\ live # NoCampaign => live \in Corr!Campaign /\ live.last \in Nat
  BY <1>1 DEF MaybeCampaign, Corr!Campaign, Pair
<1>3. live # NoCampaign => /\ c # NoCampaign /\ Extends(c, live) /\ c.first <= c.last + Skew
                           /\ c.last = live.last
  BY DEF Pair, Extends
<1>4. c # NoCampaign /\ live = NoCampaign => c.first <= e.time
  <2>1. c # NoCampaign /\ live = NoCampaign => c.first <= born \/ c.first + Skew <= now
    BY DEF Pair
  <2> QED BY <1>1, <1>2, <2>1
<1>5. /\ Corr!Opens(c, e) => cc = new
      /\ ~ Corr!Opens(c, e) => cc = Corr!Joined(c, e) /\ c # NoCampaign
      /\ Corr!Opens(live, e) => ll = new
      /\ ~ Corr!Opens(live, e) => ll = Corr!Joined(live, e) /\ live # NoCampaign
  BY DEF Corr!Ingested, Corr!Opens
<1>6. cc.first = IF Corr!Opens(c, e) THEN e.time ELSE c.first
  BY BeginsAt
<1>7. cc.last = e.time
  BY Ingesting
<1>8. cc.first <= now /\ cc.first <= cc.last + Skew
  <2>1. CASE Corr!Opens(c, e)
    <3> HIDE DEF cc, new
    <3> QED BY <1>1, <1>5, <1>6, <1>7, <2>1
  <2>2. CASE ~ Corr!Opens(c, e)
    <3> HIDE DEF cc
    <3> QED BY <1>1, <1>2, <1>5, <1>6, <1>7, <2>2
  <2> QED BY <2>1, <2>2
<1>9. live # NoCampaign => (Corr!Opens(live, e) <=> Corr!Opens(c, e))
  <2> HIDE DEF live
  <2> QED BY <1>3 DEF Corr!Opens, Corr!Expired
<1>10. Extends(cc, ll)
  <2>1. CASE live = NoCampaign
    <3>1. ll = new
      BY <1>5, <2>1 DEF Corr!Opens
    <3>2. Extends(cc, new)
      BY <1>4, <2>1, OneOpens
    <3> QED BY <3>1, <3>2
  <2>2. CASE live # NoCampaign /\ Corr!Opens(live, e)
    <3>1. c.first <= e.time
      <4>1. e.time - c.last > SessionWindow
        BY <1>3, <1>9, <2>2 DEF Corr!Opens, Corr!Expired
      <4> QED BY <1>1, <1>2, <1>3, <2>2, <4>1
    <3>2. Extends(cc, new)
      BY <3>1, OneOpens
    <3> QED BY <1>5, <2>2, <3>2
  <2>3. CASE live # NoCampaign /\ ~ Corr!Opens(live, e)
    <3>1. cc = Corr!Joined(c, e) /\ ll = Corr!Joined(live, e)
      BY <1>5, <1>9, <2>3
    <3>2. Extends(Corr!Joined(c, e), Corr!Joined(live, e))
      BY <1>3, <2>3, BothJoin
    <3> QED BY <3>1, <3>2
  <2> QED BY <2>1, <2>2, <2>3
<1>11. live # NoCampaign /\ Corr!Opens(live, e) => cc = ll
  BY <1>5, <1>9
<1> HIDE DEF cc, ll, live
<1> QED BY <1>8, <1>10, <1>11 DEF cc, ll, live

-----------------------------------------------------------------------------
\* Events are stamped in the past, and the correlator's log is what this run was
\* given, which comes after all that earlier runs had.
Earlier == Len(tried) - Len(log)
Stamped ==
  /\ stamp \in Seq(Nat) /\ Len(stamp) = Len(tried)
  /\ \A n \in 1..Len(tried) : stamp[n] <= now
LogOfThisRun ==
  up => /\ Earlier \in Nat
        /\ \A n \in 1..Earlier : stamp[n] <= born
        /\ \A i \in 1..Len(log) : log[i] = Seen(tried[Earlier + i], stamp[Earlier + i])

LEMMA StampsStep ==
  Inv /\ Stamped /\ LogOfThisRun /\ [Next]_vars => Stamped' /\ LogOfThisRun'
<1> SUFFICES ASSUME Inv, Stamped, LogOfThisRun, [Next]_vars
             PROVE  Stamped' /\ LogOfThisRun'
  OBVIOUS
<1>1. /\ tried \in Seq(Event) /\ stamp \in Seq(Nat) /\ log \in Seq(Corr!Events)
      /\ Len(tried) \in Nat /\ Len(stamp) = Len(tried) /\ Len(log) \in Nat
      /\ now \in Nat /\ born \in Nat /\ born <= now
      /\ \A n \in 1..Len(tried) : stamp[n] <= now
  <2>1. MaxTime \in Nat
    BY HistoryAssumption DEF Corr!CorrelatorConstants
  <2> QED BY <2>1 DEF Inv, TypeOK, Stamped
<1>2. ASSUME UNCHANGED <<tried, stamp, log, up, born>>, now' \in Nat, now <= now'
      PROVE  Stamped' /\ LogOfThisRun'
  <2>1. Stamped'
    BY <1>1, <1>2 DEF Stamped
  <2>2. LogOfThisRun'
    BY <1>2 DEF LogOfThisRun, Earlier, Seen
  <2> QED BY <2>1, <2>2
<1>3. ASSUME NEW e \in Event, NEW t \in Nat, t <= now, now' = now,
             tried' = Append(tried, e), stamp' = Append(stamp, t)
      PROVE  /\ Stamped' /\ Len(tried') = Len(tried) + 1
             /\ tried'[Len(tried) + 1] = e /\ stamp'[Len(tried) + 1] = t
             /\ \A n \in 1..Len(tried) : tried'[n] = tried[n] /\ stamp'[n] = stamp[n]
  <2>1. /\ Len(tried') = Len(tried) + 1 /\ tried'[Len(tried) + 1] = e
        /\ \A n \in 1..Len(tried) : tried'[n] = tried[n]
    BY <1>1, <1>3
  <2>2. /\ stamp' \in Seq(Nat) /\ Len(stamp') = Len(tried) + 1 /\ stamp'[Len(tried) + 1] = t
        /\ \A n \in 1..Len(tried) : stamp'[n] = stamp[n]
    BY <1>1, <1>3
  <2>3. \A n \in 1..(Len(tried) + 1) : stamp'[n] <= now'
    BY <1>1, <1>3, <2>2
  <2> QED BY <2>1, <2>2, <2>3 DEF Stamped
<1>4. CASE Start
  <2>1. UNCHANGED <<tried, stamp, now>> /\ log' = <<>> /\ born' = now
    BY <1>4 DEF Start, Store!Start
  <2>2. Stamped'
    BY <1>1, <2>1 DEF Stamped
  <2>3. Earlier' = Len(tried) /\ Len(log') = 0
    BY <1>1, <2>1 DEF Earlier
  <2>4. LogOfThisRun'
    BY <1>1, <2>1, <2>3 DEF LogOfThisRun
  <2> QED BY <2>2, <2>4
<1>5. CASE Handle
  <2>1. PICK e \in Event, t \in Nat :
           /\ Store!Persist(e) /\ t \in born..now /\ stamp' = Append(stamp, t)
           /\ Seen(e, t) \in Corr!Events /\ log' = Append(log, Seen(e, t))
           /\ UNCHANGED <<now, born>>
    BY <1>5, Handling DEF Inv
  <2>2. up /\ tried' = Append(tried, e) /\ up' = up
    BY <2>1 DEF Store!Persist
  <2>3. /\ Stamped' /\ Len(tried') = Len(tried) + 1
        /\ tried'[Len(tried) + 1] = e /\ stamp'[Len(tried) + 1] = t
        /\ \A n \in 1..Len(tried) : tried'[n] = tried[n] /\ stamp'[n] = stamp[n]
    BY <1>1, <1>3, <2>1, <2>2
  <2> DEFINE x == Seen(e, t)
  <2>4. x \in Corr!Events /\ log' = Append(log, x)
    BY <2>1
  <2>5. x = Seen(tried'[Len(tried) + 1], stamp'[Len(tried) + 1])
    BY <2>3
  <2> HIDE DEF x
  <2>6. /\ Len(log') = Len(log) + 1 /\ log'[Len(log) + 1] = x
        /\ \A i \in 1..Len(log) : log'[i] = log[i]
    BY <1>1, <2>4
  <2>7. /\ Earlier \in Nat /\ \A n \in 1..Earlier : stamp[n] <= born
        /\ \A i \in 1..Len(log) : log[i] = Seen(tried[Earlier + i], stamp[Earlier + i])
    BY <2>2 DEF LogOfThisRun
  <2>8. /\ Earlier' = Earlier /\ Earlier + Len(log) = Len(tried)
        /\ Earlier + (Len(log) + 1) = Len(tried) + 1
    BY <1>1, <2>3, <2>6 DEF Earlier
  <2>9. \A n \in 1..Earlier : stamp'[n] <= born'
    BY <1>1, <2>1, <2>3, <2>7, <2>8
  <2>10. ASSUME NEW i \in 1..(Len(log) + 1)
         PROVE  log'[i] = Seen(tried'[Earlier + i], stamp'[Earlier + i])
    <3>1. CASE i \in 1..Len(log)
      <4>1. Earlier + i \in 1..Len(tried)
        BY <1>1, <2>7, <2>8, <3>1
      <4> QED BY <2>3, <2>6, <2>7, <3>1, <4>1
    <3>2. CASE i = Len(log) + 1
      BY <2>5, <2>6, <2>8, <3>2
    <3> QED BY <1>1, <3>1, <3>2
  <2>11. LogOfThisRun'
    <3>1. \A i \in 1..Len(log') : log'[i] = Seen(tried'[Earlier' + i], stamp'[Earlier' + i])
      BY <2>6, <2>8, <2>10
    <3>2. Earlier' \in Nat /\ \A n \in 1..Earlier' : stamp'[n] <= born'
      BY <2>7, <2>8, <2>9
    <3> QED BY <3>1, <3>2 DEF LogOfThisRun, Seen
  <2> QED BY <2>3, <2>11
<1>6. CASE Stop
  <2>1. LogOfThisRun'
    BY <1>6 DEF Stop, Store!Stop, LogOfThisRun
  <2>2. now' = now
    BY <1>6 DEF Stop, corrVars
  <2>3. CASE tried' = tried /\ UNCHANGED stamp
    <3>1. tried' = tried /\ stamp' = stamp /\ now' = now
      BY <2>2, <2>3
    <3>2. stamp' \in Seq(Nat) /\ Len(stamp') = Len(tried')
      BY <1>1, <3>1
    <3>3. \A n \in 1..Len(tried') : stamp'[n] <= now'
      BY <1>1, <3>1
    <3> QED BY <2>1, <3>2, <3>3 DEF Stamped
  <2>4. CASE \E t \in Stamps : tried' # tried /\ stamp' = Append(stamp, t)
    <3>1. PICK t \in Stamps : tried' # tried /\ stamp' = Append(stamp, t)
      BY <2>4
    <3>2. t \in Nat /\ t <= now
      <4>1. Skew \in Nat
        BY HistoryAssumption DEF Corr!CorrelatorConstants
      <4> QED BY <1>1, <4>1 DEF Stamps
    <3>3. PICK e \in Event : tried' = Append(tried, e)
      BY <1>6, <3>1 DEF Stop, Store!Stop
    <3>4. Stamped'
      BY <1>3, <2>2, <3>1, <3>2, <3>3
    <3> QED BY <2>1, <3>4
  <2> QED BY <1>6, <2>1, <2>3, <2>4 DEF Stop
<1>7. CASE Tick
  BY <1>1, <1>2, <1>7 DEF Tick, Corr!Tick, storeVars
<1>8. CASE PruneExpired
  BY <1>1, <1>2, <1>8 DEF PruneExpired, Corr!PruneExpired, storeVars
<1>9. CASE UNCHANGED vars
  BY <1>1, <1>2, <1>9 DEF vars, storeVars, corrVars
<1> QED BY <1>4, <1>5, <1>6, <1>7, <1>8, <1>9 DEF Next

\* A campaign left by earlier runs, and one that goes on from there with the events of
\* an address that this run has had.
Old(c) == c # NoCampaign => c.first <= born
Continued(f, ip) ==
  /\ Old(f[0])
  /\ \A k \in 1..Len(log) :
       f[k] = IF log[k].ip = ip THEN Corr!Ingested(f[k - 1], log[k]) ELSE f[k - 1]
Continues ==
  \A ip \in IP : \A f \in [0..Len(log) -> MaybeCampaign] :
    Continued(f, ip) => Pair(f[Len(log)], ip)

\* An address without a campaign that was never pruned has not had one in this run.
NoneYet ==
  \A ip \in IP :
    /\ campaigns[ip] # NoCampaign => log # <<>>
    /\ campaigns[ip] = NoCampaign /\ pruned[ip] = 0 => \A d \in opened : d.ip # ip

LEMMA NoneYetStep == Inv /\ NoneYet /\ [Next]_vars => NoneYet'
<1> SUFFICES ASSUME Inv, NoneYet, [Next]_vars, NEW ip \in IP
             PROVE  /\ campaigns'[ip] # NoCampaign => log' # <<>>
                    /\ campaigns'[ip] = NoCampaign /\ pruned'[ip] = 0
                         => \A d \in opened' : d.ip # ip
  BY DEF NoneYet
<1>1. /\ campaigns \in [IP -> MaybeCampaign] /\ log \in Seq(Corr!Events)
      /\ campaigns[ip] # NoCampaign => log # <<>>
      /\ campaigns[ip] = NoCampaign /\ pruned[ip] = 0 => \A d \in opened : d.ip # ip
  BY DEF Inv, TypeOK, NoneYet
<1>2. CASE Start
  BY <1>2 DEF Start, Corr!NoCampaigns
<1>3. CASE Handle
  <2>1. PICK e \in Event, t \in Nat :
           /\ Seen(e, t) \in Corr!Events
           /\ campaigns' = [campaigns EXCEPT ![e.ip] = Corr!Ingested(campaigns[e.ip], Seen(e, t))]
           /\ log' = Append(log, Seen(e, t))
           /\ opened' = IF Corr!Opens(campaigns[e.ip], Seen(e, t))
                        THEN opened \cup {[ip |-> e.ip, id |-> t \div PerSecond, at |-> Len(log)]}
                        ELSE opened
           /\ UNCHANGED pruned /\ e.ip \in IP
    BY <1>3, Handling DEF Inv
  <2> DEFINE x == Seen(e, t)
             d0 == [ip |-> e.ip, id |-> t \div PerSecond, at |-> Len(log)]
  <2>2. x \in Corr!Events /\ log' = Append(log, x) /\ d0.ip = e.ip
        /\ campaigns' = [campaigns EXCEPT ![e.ip] = Corr!Ingested(campaigns[e.ip], x)]
        /\ (opened' = opened \/ opened' = opened \cup {d0})
    BY <2>1
  <2> HIDE DEF x, d0
  <2>3. log' # <<>>
    BY <1>1, <2>2
  <2>4. CASE ip = e.ip
    <3>1. Corr!Ingested(campaigns[e.ip], x) # NoCampaign
      BY <1>1, <2>2, <2>4, Ingesting
    <3> QED BY <1>1, <2>1, <2>2, <2>3, <2>4, <3>1
  <2>5. CASE ip # e.ip
    BY <1>1, <2>1, <2>2, <2>3, <2>5
  <2> QED BY <2>4, <2>5
<1>4. CASE Stop
  BY <1>1, <1>4 DEF Stop, corrVars
<1>5. CASE Tick
  BY <1>1, <1>5 DEF Tick, Corr!Tick
<1>6. CASE PruneExpired
  <2> DEFINE Stale == campaigns[ip] # NoCampaign /\ now - campaigns[ip].last > SessionWindow
  <2>1. /\ campaigns'[ip] = IF Stale THEN NoCampaign ELSE campaigns[ip]
        /\ pruned'[ip] = IF Stale THEN Len(log) ELSE pruned[ip]
        /\ log' = log /\ opened' = opened
    BY <1>6 DEF PruneExpired, Corr!PruneExpired
  <2>2. Stale => Len(log) # 0
    BY <1>1
  <2> HIDE DEF Stale
  <2>3. CASE Stale
    BY <2>1, <2>2, <2>3
  <2>4. CASE ~ Stale
    BY <1>1, <2>1, <2>4
  <2> QED BY <2>3, <2>4
<1>7. CASE UNCHANGED vars
  BY <1>1, <1>7 DEF vars, corrVars
<1> QED BY <1>2, <1>3, <1>4, <1>5, <1>6, <1>7 DEF Next

LEMMA ContinuesStep == Inv /\ NoneYet /\ Continues /\ [Next]_vars => Continues'
<1> SUFFICES ASSUME Inv, NoneYet, Continues, [Next]_vars,
                    NEW ip \in IP, NEW f \in [0..Len(log') -> MaybeCampaign], Continued(f, ip)'
             PROVE  Pair(f[Len(log)], ip)'
  BY DEF Continues, MaybeCampaign
<1> DEFINE n == Len(log)
           Meets(c) == /\ c # NoCampaign => c.first <= now'
                       /\ campaigns'[ip] = NoCampaign /\ c # NoCampaign
                            => c.first <= born' \/ c.first + Skew <= now'
                       /\ campaigns'[ip] # NoCampaign
                            => /\ c # NoCampaign /\ Extends(c, campaigns'[ip])
                               /\ c.first <= c.last + Skew
                               /\ Sessions(ip)' > 1 /\ pruned'[ip] = 0 => c = campaigns'[ip]
<1>0. SUFFICES Meets(f[Len(log')])
  BY DEF Pair, Extends
<1>1. /\ campaigns \in [IP -> MaybeCampaign] /\ log \in Seq(Corr!Events) /\ n \in Nat
      /\ now \in Nat /\ born \in Nat /\ born <= now /\ Skew \in Nat /\ SessionWindow \in Nat
      /\ 2 * Skew <= SessionWindow
  <2>1. /\ Skew \in Nat /\ SessionWindow \in Nat /\ PerSecond \in Nat \ {0} /\ MaxTime \in Nat
        /\ 2 * Skew + PerSecond <= SessionWindow + 1
    BY HistoryAssumption DEF Corr!CorrelatorConstants
  <2>2. /\ now \in 0..MaxTime /\ born \in 0..now /\ campaigns \in [IP -> MaybeCampaign]
        /\ log \in Seq(Corr!Events)
    BY DEF Inv, TypeOK
  <2> QED BY <2>1, <2>2
<1>2. \A c \in MaybeCampaign :
        c # NoCampaign => c \in Corr!Campaign /\ c.first \in Nat /\ c.last \in Nat
  BY DEF MaybeCampaign, Corr!Campaign
<1>3. ASSUME UNCHANGED <<campaigns, log, pruned, opened, born>>, now' \in Nat, now <= now'
      PROVE  Meets(f[Len(log')])
  <2>1. f \in [0..n -> MaybeCampaign] /\ Continued(f, ip)
    BY <1>3 DEF Continued, Old
  <2>2. Pair(f[n], ip) /\ f[n] \in MaybeCampaign
    BY <1>1, <2>1 DEF Continues
  <2> DEFINE c == f[n]
  <2>3. c # NoCampaign => c.first \in Nat
    BY <1>2, <2>2
  <2>4. Len(log') = n /\ Sessions(ip)' = Sessions(ip)
    BY <1>3 DEF Sessions
  <2> HIDE DEF c
  <2>5. Pair(c, ip)
    BY <2>2 DEF c
  <2>6. /\ c # NoCampaign => c.first <= now'
        /\ campaigns'[ip] = NoCampaign /\ c # NoCampaign
             => c.first <= born' \/ c.first + Skew <= now'
    BY <1>1, <1>3, <2>3, <2>5 DEF Pair
  <2>7. campaigns'[ip] # NoCampaign
          => /\ c # NoCampaign /\ Extends(c, campaigns'[ip]) /\ c.first <= c.last + Skew
             /\ Sessions(ip)' > 1 /\ pruned'[ip] = 0 => c = campaigns'[ip]
    BY <1>3, <2>4, <2>5 DEF Pair
  <2>8. Meets(c)
    BY <2>6, <2>7
  <2> QED BY <2>4, <2>8 DEF c
<1>4. CASE Start
  <2>1. /\ log' = <<>> /\ born' = now /\ now' = now /\ campaigns'[ip] = NoCampaign
    BY <1>4 DEF Start, Corr!NoCampaigns
  <2>2. Len(log') = 0 /\ f[0] \in MaybeCampaign
    BY <2>1
  <2>3. f[0] # NoCampaign => f[0].first <= now
    BY <2>1 DEF Continued, Old
  <2> QED BY <1>1, <2>1, <2>2, <2>3
<1>5. CASE Handle
  <2>1. PICK e \in Event, t \in Nat :
           /\ e.ip \in IP /\ t \in born..now /\ now <= t + Skew
           /\ Seen(e, t) \in Corr!Events /\ Seen(e, t).time = t /\ Seen(e, t).ip = e.ip
           /\ campaigns' = [campaigns EXCEPT ![e.ip] = Corr!Ingested(campaigns[e.ip], Seen(e, t))]
           /\ log' = Append(log, Seen(e, t))
           /\ opened' = IF Corr!Opens(campaigns[e.ip], Seen(e, t))
                        THEN opened \cup {[ip |-> e.ip, id |-> t \div PerSecond, at |-> Len(log)]}
                        ELSE opened
           /\ UNCHANGED <<now, pruned, born>>
    BY <1>5, Handling DEF Inv
  <2> DEFINE x == Seen(e, t)
             d0 == [ip |-> e.ip, id |-> t \div PerSecond, at |-> Len(log)]
             live == campaigns[ip]
  <2>2. /\ x \in Corr!Events /\ log' = Append(log, x) /\ d0.ip = e.ip /\ x.ip = e.ip /\ x.time = t
        /\ campaigns' = [campaigns EXCEPT ![e.ip] = Corr!Ingested(campaigns[e.ip], x)]
        /\ opened' = IF Corr!Opens(campaigns[e.ip], x) THEN opened \cup {d0} ELSE opened
    BY <2>1
  <2> HIDE DEF x, d0
  <2>3. /\ Len(log') = n + 1 /\ log'[n + 1] = x /\ \A k \in 1..n : log'[k] = log[k]
    BY <1>1, <2>2
  <2> DEFINE g == [k \in 0..n |-> f[k]]
  <2>4. g \in [0..n -> MaybeCampaign] /\ Continued(g, ip)
    <3>1. \A k \in 0..n : g[k] = f[k] /\ f[k] \in MaybeCampaign
      BY <1>1, <2>3
    <3>2. g \in [0..n -> MaybeCampaign]
      BY <3>1
    <3> HIDE DEF g
    <3>3. Old(g[0])
      BY <1>1, <2>1, <3>1 DEF Continued, Old
    <3>4. ASSUME NEW k \in 1..n
          PROVE  g[k] = IF log[k].ip = ip THEN Corr!Ingested(g[k - 1], log[k]) ELSE g[k - 1]
      <4>1. k \in 1..Len(log') /\ k \in 0..n /\ k - 1 \in 0..n
        BY <1>1, <2>3
      <4>2. f[k] = IF log'[k].ip = ip THEN Corr!Ingested(f[k - 1], log'[k]) ELSE f[k - 1]
        BY <4>1 DEF Continued
      <4> QED BY <2>3, <3>1, <4>1, <4>2
    <3> QED BY <3>2, <3>3, <3>4 DEF Continued
  <2> DEFINE c == f[n]
             cc == f[n + 1]
  <2>5. Pair(c, ip) /\ c \in MaybeCampaign
    <3>1. g[n] = f[n] /\ f[n] \in MaybeCampaign
      BY <1>1, <2>3
    <3>2. Pair(g[n], ip)
      <4> HIDE DEF g
      <4> QED BY <2>4 DEF Continues
    <3> QED BY <3>1, <3>2
  <2>6. cc = IF x.ip = ip THEN Corr!Ingested(c, x) ELSE c
    <3>1. n + 1 \in 1..Len(log') /\ (n + 1) - 1 = n
      BY <1>1, <2>3
    <3>2. f[n + 1] = IF log'[n + 1].ip = ip THEN Corr!Ingested(f[(n + 1) - 1], log'[n + 1])
                                            ELSE f[(n + 1) - 1]
      BY <3>1 DEF Continued
    <3> QED BY <2>3, <3>1, <3>2
  <2> HIDE DEF c, cc
  <2>7. CASE x.ip # ip
    <3>1. campaigns'[ip] = campaigns[ip] /\ cc = c
      BY <2>2, <2>6, <2>7
    <3>2. Sessions(ip)' = Sessions(ip)
      <4>1. {d \in opened' : d.ip = ip} = {d \in opened : d.ip = ip}
        BY <2>2, <2>7
      <4> QED BY <4>1 DEF Sessions
    <3>3. UNCHANGED <<campaigns[ip], now, born, pruned, Sessions(ip)>>
      BY <2>1, <3>1, <3>2
    <3>4. Meets(c)
      BY <2>5, <3>3 DEF Pair
    <3> HIDE DEF Meets
    <3> QED BY <2>3, <3>1, <3>4 DEF c, cc
  <2>8. CASE x.ip = ip
    <3> DEFINE ll == Corr!Ingested(live, x)
    <3>1. campaigns'[ip] = ll /\ cc = Corr!Ingested(c, x) /\ live \in MaybeCampaign
      BY <1>1, <2>2, <2>6, <2>8
    <3>2. /\ Extends(cc, ll) /\ cc.first <= now /\ cc.first <= cc.last + Skew
          /\ live # NoCampaign /\ Corr!Opens(live, x) => cc = ll
      BY <2>1, <2>2, <2>5, <3>1, PairIngests
    <3>3. ll # NoCampaign /\ cc # NoCampaign
      BY <2>2, <2>5, <3>1, Ingesting
    <3>4. ASSUME Sessions(ip)' > 1, pruned'[ip] = 0
          PROVE  cc = ll
      <4>1. CASE live = NoCampaign
        <5>1. \A d \in opened : d.ip # ip
          BY <2>1, <3>4, <4>1 DEF NoneYet
        <5>2. opened' = opened \cup {d0}
          BY <2>2, <2>8, <4>1 DEF Corr!Opens
        <5>3. {d \in opened' : d.ip = ip} = {d0}
          BY <2>2, <2>8, <5>1, <5>2
        <5>4. Sessions(ip)' = 1
          BY <5>3, FS_Singleton DEF Sessions
        <5> QED BY <3>4, <5>4
      <4>2. CASE live # NoCampaign /\ Corr!Opens(live, x)
        BY <3>2, <4>2
      <4>3. CASE live # NoCampaign /\ ~ Corr!Opens(live, x)
        <5>1. opened' = opened
          BY <2>2, <2>8, <4>3
        <5>2. Sessions(ip) > 1 /\ pruned[ip] = 0
          BY <2>1, <3>4, <5>1 DEF Sessions
        <5>3. c = live
          BY <2>5, <4>3, <5>2 DEF Pair
        <5> QED BY <3>1, <5>3
      <4> QED BY <4>1, <4>2, <4>3
    <3> HIDE DEF ll
    <3>5. Meets(cc)
      BY <2>1, <3>1, <3>2, <3>3, <3>4
    <3> HIDE DEF Meets
    <3> QED BY <2>3, <3>5 DEF cc
  <2> QED BY <2>7, <2>8
<1>6. CASE Stop
  BY <1>1, <1>3, <1>6 DEF Stop, corrVars
<1>7. CASE Tick
  BY <1>1, <1>3, <1>7 DEF Tick, Corr!Tick
<1>8. CASE PruneExpired
  <2> DEFINE live == campaigns[ip]
             Stale == live # NoCampaign /\ now - live.last > SessionWindow
             c == f[n]
  <2>1. /\ campaigns'[ip] = IF Stale THEN NoCampaign ELSE live
        /\ pruned'[ip] = IF Stale THEN Len(log) ELSE pruned[ip]
        /\ log' = log /\ opened' = opened /\ now' = now /\ born' = born
    BY <1>8 DEF PruneExpired, Corr!PruneExpired
  <2>2. Pair(c, ip) /\ c \in MaybeCampaign /\ Len(log') = n
    <3>1. f \in [0..n -> MaybeCampaign] /\ Continued(f, ip)
      BY <2>1 DEF Continued, Old
    <3> QED BY <1>1, <2>1, <3>1 DEF Continues
  <2>3. Sessions(ip)' = Sessions(ip)
    BY <2>1 DEF Sessions
  <2> HIDE DEF c
  <2>4. CASE Stale
    <3>1. /\ c # NoCampaign /\ c.last = live.last /\ c.first <= c.last + Skew /\ c.first <= now
          /\ c.first \in Nat /\ c.last \in Nat
      BY <1>2, <2>2, <2>4 DEF Pair, Extends
    <3>2. c.first + Skew <= now
      BY <1>1, <2>4, <3>1
    <3>3. campaigns'[ip] = NoCampaign
      BY <2>1, <2>4
    <3>4. Meets(c)
      BY <2>1, <3>1, <3>2, <3>3
    <3> HIDE DEF Meets
    <3> QED BY <2>2, <3>4 DEF c
  <2>5. CASE ~ Stale
    <3>1. UNCHANGED <<campaigns[ip], pruned[ip], now, born, Sessions(ip)>>
      BY <2>1, <2>3, <2>5
    <3>2. Meets(c)
      BY <2>2, <3>1 DEF Pair
    <3> HIDE DEF Meets
    <3> QED BY <2>2, <3>2 DEF c
  <2> QED BY <2>4, <2>5
<1>9. CASE UNCHANGED vars
  BY <1>1, <1>3, <1>9 DEF vars, corrVars
<1> QED BY <1>4, <1>5, <1>6, <1>7, <1>8, <1>9 DEF Next

-----------------------------------------------------------------------------
(* What the command rebuilds. *)

\* The fold over the file, event by event.
LEMMA RebuildSteps ==
  ASSUME NEW q \in Seq(Event)
  PROVE  \E g : /\ g[0] = Corr!NoCampaigns /\ g[Len(q)] = Rebuild(q)
                /\ \A k \in 1..Len(q) :
                     g[k] = [g[k - 1] EXCEPT ![q[k].ip] =
                               Corr!Ingested(@, Seen(q[k], stamp[q[k].n]))]
<1> DEFINE base == Corr!NoCampaigns
           n == Len(q)
           Op(cs, e) == [cs EXCEPT ![e.ip] = Corr!Ingested(@, Seen(e, stamp[e.n]))]
           Pass(it, m) == it = [s \in SUBSET (1..m) |->
                                  IF s = {} THEN base ELSE Op(it[s \ {Max(s)}], q[Max(s)])]
           iter == CHOOSE it : Pass(it, n)
<1>1. Rebuild(q) = iter[1..n]
  <2>1. DOMAIN q = 1..n
    OBVIOUS
  <2>2. Rebuild(q) = LET it == CHOOSE it : it = [s \in SUBSET (DOMAIN q) |->
                                  IF s = {} THEN base ELSE Op(it[s \ {Max(s)}], q[Max(s)])]
                     IN  it[DOMAIN q]
    BY DEF Rebuild, FoldLeft, MapThenFoldSet
  <2> QED BY <2>1, <2>2
<1> HIDE DEF Op, base
<1>2. ASSUME NEW m \in Nat, NEW s \in SUBSET (1..(m + 1)), m + 1 \in s
      PROVE  Max(s) = m + 1
  <2>1. \A x \in s : x \in Nat /\ x <= m + 1
    OBVIOUS
  <2>2. \A x \in s : (\A y \in s : x >= y) <=> x = m + 1
    BY <1>2, <2>1
  <2> QED BY <1>2, <2>2 DEF Max
<1>3. \E it : Pass(it, n)
  <2> DEFINE T == {m \in Nat : \E it : Pass(it, m)}
  <2>1. 0 \in T
    <3>1. Pass([s \in SUBSET (1..0) |-> base], 0)
      OBVIOUS
    <3>2. \E it : Pass(it, 0)
      BY <3>1
    <3> HIDE DEF Pass
    <3> QED BY <3>2
  <2>2. ASSUME NEW m \in Nat, m \in T
        PROVE  m + 1 \in T
    <3>1. PICK it : Pass(it, m)
      BY <2>2
    <3> DEFINE up1 == [s \in SUBSET (1..(m + 1)) |->
                         IF m + 1 \in s THEN Op(it[s \ {m + 1}], q[m + 1]) ELSE it[s]]
    <3>2. ASSUME NEW s \in SUBSET (1..(m + 1))
          PROVE  up1[s] = IF s = {} THEN base ELSE Op(up1[s \ {Max(s)}], q[Max(s)])
      <4>1. CASE m + 1 \in s
        <5>1. Max(s) = m + 1 /\ s # {}
          BY <1>2, <4>1
        <5>2. s \ {m + 1} \in SUBSET (1..(m + 1)) /\ m + 1 \notin s \ {m + 1}
          OBVIOUS
        <5>3. up1[s \ {m + 1}] = it[s \ {m + 1}]
          BY <5>2
        <5>4. up1[s] = Op(it[s \ {m + 1}], q[m + 1])
          BY <4>1
        <5> HIDE DEF up1
        <5> QED BY <5>1, <5>3, <5>4
      <4>2. CASE m + 1 \notin s
        <5>1. s \in SUBSET (1..m)
          BY <4>2
        <5>2. up1[s] = it[s]
          BY <4>2
        <5>3. it[s] = IF s = {} THEN base ELSE Op(it[s \ {Max(s)}], q[Max(s)])
          BY <3>1, <5>1
        <5>4. up1[s \ {Max(s)}] = it[s \ {Max(s)}]
          BY <4>2
        <5> HIDE DEF up1
        <5> QED BY <5>2, <5>3, <5>4
      <4> QED BY <4>1, <4>2
    <3>3. up1 = [s \in SUBSET (1..(m + 1)) |-> up1[s]]
      OBVIOUS
    <3> HIDE DEF up1
    <3>4. Pass(up1, m + 1)
      BY <3>2, <3>3
    <3>5. \E h : Pass(h, m + 1)
      BY <3>4
    <3> HIDE DEF Pass
    <3> QED BY <3>5
  <2>3. n \in T
    <3> HIDE DEF T
    <3> QED BY <2>1, <2>2, Induction, n \in Nat
  <2> QED BY <2>3
<1>4. Pass(iter, n)
  <2> HIDE DEF Pass
  <2> QED BY <1>3
<1> HIDE DEF iter
<1>5. ASSUME NEW s \in SUBSET (1..n)
      PROVE  iter[s] = IF s = {} THEN base ELSE Op(iter[s \ {Max(s)}], q[Max(s)])
  BY <1>4
<1> DEFINE g == [k \in 0..n |-> iter[1..k]]
<1>6. n \in Nat /\ \A k \in 0..n : g[k] = iter[1..k]
  OBVIOUS
<1> HIDE DEF g, Pass
<1>7. g[0] = base
  <2>1. 1..0 = {} /\ {} \in SUBSET (1..n) /\ 0 \in 0..n
    BY <1>6
  <2>2. iter[{}] = base
    BY <1>5, <2>1
  <2> QED BY <1>6, <2>1, <2>2
<1>8. ASSUME NEW k \in 1..n
      PROVE  g[k] = Op(g[k - 1], q[k])
  <2>1. /\ 1..k \in SUBSET (1..n) /\ 1..k # {} /\ k - 1 \in Nat /\ (k - 1) + 1 = k
        /\ k \in 1..k /\ k \in 0..n /\ k - 1 \in 0..n
    <3> HIDE DEF n
    <3>1. /\ k - 1 \in Nat /\ (k - 1) + 1 = k /\ k \in 1..k /\ k \in 0..n /\ k - 1 \in 0..n
      BY <1>6
    <3>2. \A i \in 1..k : i \in 1..n
      BY <1>6
    <3> QED BY <3>1, <3>2
  <2>2. Max(1..k) = k
    <3>1. 1..k \in SUBSET (1..((k - 1) + 1)) /\ (k - 1) + 1 \in 1..k
      BY <2>1
    <3>2. Max(1..k) = (k - 1) + 1
      BY <1>2, <2>1, <3>1
    <3> QED BY <2>1, <3>2
  <2>3. (1..k) \ {k} = 1..(k - 1)
    <3>1. k \in Nat
      BY <1>6
    <3>2. \A i : i \in 1..k /\ i # k <=> i \in 1..(k - 1)
      BY <3>1
    <3> QED BY <3>2
  <2>4. iter[1..k] = Op(iter[(1..k) \ {Max(1..k)}], q[Max(1..k)])
    BY <1>5, <2>1
  <2> QED BY <1>6, <2>1, <2>2, <2>3, <2>4
<1>9. g[n] = Rebuild(q)
  BY <1>1, <1>6
<1> QED BY <1>7, <1>8, <1>9 DEF Op, base

\* When an address's events of this run can all be read, its campaign is rebuilt from
\* some old one and just these events, in the order they were ingested in.
LEMMA RebuiltContinues ==
  ASSUME Inv, Stamped, LogOfThisRun, Continues, up, NEW ip \in IP,
         {e \in ThisRun : e.ip = ip} \subseteq Range(Store!Readable(file))
  PROVE  Rebuilt[ip] \in MaybeCampaign /\ Pair(Rebuilt[ip], ip)
<1> DEFINE q == Store!Readable(file)
           m == Len(q)
           n == Len(log)
           b == Earlier
           x(k) == Seen(q[k], stamp[q[k].n])
<1>1. /\ tried \in Seq(Event) /\ stamp \in Seq(Nat) /\ log \in Seq(Corr!Events)
      /\ Len(tried) \in Nat /\ n \in Nat /\ b \in Nat /\ b + n = Len(tried)
      /\ now \in 0..MaxTime /\ MaxTime \in Nat /\ born \in Nat
      /\ \A i \in 1..Len(tried) : stamp[i] \in Nat /\ stamp[i] <= now
      /\ \A i \in 1..b : stamp[i] <= born
      /\ \A i \in 1..n : log[i] = Seen(tried[b + i], stamp[b + i])
  <2>1. MaxTime \in Nat
    BY HistoryAssumption DEF Corr!CorrelatorConstants
  <2>2. /\ tried \in Seq(Event) /\ log \in Seq(Corr!Events) /\ now \in 0..MaxTime
        /\ born \in 0..now
    BY DEF Inv, TypeOK
  <2>3. /\ stamp \in Seq(Nat) /\ Len(stamp) = Len(tried)
        /\ \A i \in 1..Len(tried) : stamp[i] <= now
    BY DEF Stamped
  <2>4. /\ b \in Nat /\ (\A i \in 1..b : stamp[i] <= born)
        /\ \A i \in 1..n : log[i] = Seen(tried[b + i], stamp[b + i])
    BY DEF LogOfThisRun
  <2>5. b + n = Len(tried)
    BY <2>2, <2>4 DEF Earlier
  <2> HIDE DEF b, n
  <2>6. born \in Nat /\ Len(tried) \in Nat /\ \A i \in 1..Len(tried) : stamp[i] \in Nat
    BY <2>1, <2>2, <2>3
  <2>7. n \in Nat
    BY <2>2 DEF n
  <2> QED BY <2>1, <2>2, <2>3, <2>4, <2>5, <2>6, <2>7
<1>2. /\ q \in Seq(Event) /\ m \in Nat
      /\ \A k \in 1..m : q[k].n \in 1..Len(tried) /\ q[k] = tried[q[k].n] /\ q[k] \in Event
      /\ \A k, l \in 1..m : k < l => q[k].n < q[l].n
  <2>1. /\ file \in Seq(Piece) /\ Numbered(file)
        /\ \A i \in DOMAIN file : file[i].ev \in Range(tried)
        /\ \A i \in DOMAIN tried : tried[i].n = i
    BY DEF Inv, TypeOK, FileOrdered
  <2>2. /\ q \in Seq(Event)
        /\ \A k \in DOMAIN q : \E i \in DOMAIN file : q[k] = file[i].ev
        /\ \A k, l \in DOMAIN q : k < l => q[k].n < q[l].n
    BY <2>1, Reading
  <2> HIDE DEF q
  <2>3. m \in Nat /\ DOMAIN q = 1..m /\ DOMAIN tried = 1..Len(tried) /\ \A k \in 1..m : q[k] \in Event
    BY <1>1, <2>2
  <2>4. ASSUME NEW k \in 1..m
        PROVE  q[k].n \in 1..Len(tried) /\ q[k] = tried[q[k].n]
    <3>1. q[k] \in Range(tried)
      BY <2>1, <2>2, <2>3
    <3>2. PICK i \in DOMAIN tried : q[k] = tried[i]
      BY <3>1 DEF Range
    <3> QED BY <2>1, <2>3, <3>2
  <2> QED BY <2>2, <2>3, <2>4
<1>3. {e \in ThisRun : e.ip = ip} \subseteq {q[k] : k \in 1..m}
  BY <1>2 DEF Range
<1>4. Rebuilt = Rebuild(q)
  BY DEF Rebuilt, Store!RecentEvents
<1> HIDE DEF q
<1>5. PICK g : /\ g[0] = Corr!NoCampaigns /\ g[m] = Rebuild(q)
               /\ \A k \in 1..m : g[k] = [g[k - 1] EXCEPT ![q[k].ip] = Corr!Ingested(@, x(k))]
  BY <1>2, RebuildSteps
<1>6. ASSUME NEW k \in 1..m
      PROVE  /\ x(k) \in Corr!Events /\ x(k).ip = q[k].ip /\ x(k).time = stamp[q[k].n]
             /\ q[k].ip \in IP
  <2>1. q[k] \in Event /\ stamp[q[k].n] \in 0..MaxTime
    <3>1. q[k] \in Event /\ q[k].n \in 1..Len(tried)
      BY <1>2
    <3>2. stamp[q[k].n] \in Nat /\ stamp[q[k].n] <= now
      BY <1>1, <3>1
    <3> QED BY <1>1, <3>1, <3>2
  <2>2. q[k].n \in 1..MaxEvents /\ q[k].ip \in IP /\ q[k].decoy \in Decoy
    BY <2>1 DEF Event
  <2> QED BY <2>1, <2>2 DEF Seen, Corr!Events
<1> DEFINE c(k) == g[k][ip]
<1>7. \A k \in 0..m : g[k] \in [IP -> MaybeCampaign]
  <2> DEFINE T == {k \in Nat : k <= m => g[k] \in [IP -> MaybeCampaign]}
  <2>1. 0 \in T
    BY <1>5 DEF Corr!NoCampaigns, MaybeCampaign
  <2>2. ASSUME NEW k \in Nat, k \in T
        PROVE  k + 1 \in T
    <3>1. SUFFICES ASSUME k + 1 <= m PROVE g[k + 1] \in [IP -> MaybeCampaign]
      OBVIOUS
    <3>2. k + 1 \in 1..m /\ (k + 1) - 1 = k /\ g[k] \in [IP -> MaybeCampaign]
      BY <1>2, <2>2, <3>1
    <3>3. g[k + 1] = [g[k] EXCEPT ![q[k + 1].ip] = Corr!Ingested(@, x(k + 1))]
      BY <1>5, <3>2
    <3>4. q[k + 1].ip \in IP /\ x(k + 1) \in Corr!Events
      BY <1>6, <3>2
    <3> HIDE DEF x
    <3>5. Corr!Ingested(g[k][q[k + 1].ip], x(k + 1)) \in MaybeCampaign
      BY <3>2, <3>4, Ingesting DEF MaybeCampaign
    <3> QED BY <3>2, <3>3, <3>5
  <2>3. \A k \in Nat : k \in T
    <3> HIDE DEF T
    <3> QED BY <2>1, <2>2, Induction
  <2> QED BY <1>2, <2>3
<1>8. ASSUME NEW k \in 1..m
      PROVE  /\ k - 1 \in 0..m /\ c(k - 1) \in MaybeCampaign
             /\ c(k) = IF q[k].ip = ip THEN Corr!Ingested(c(k - 1), x(k)) ELSE c(k - 1)
  <2>1. k - 1 \in 0..m /\ g[k - 1] \in [IP -> MaybeCampaign]
    BY <1>2, <1>7
  <2> HIDE DEF x
  <2> QED BY <1>5, <2>1
<1>9. \A k \in 0..m : (k = 0 \/ q[k].n <= b) => Old(c(k))
  <2> DEFINE T == {k \in Nat : k <= m /\ (k = 0 \/ q[k].n <= b) => Old(c(k))}
  <2>1. 0 \in T
    BY <1>5 DEF Corr!NoCampaigns, Old
  <2>2. ASSUME NEW k \in Nat, k \in T
        PROVE  k + 1 \in T
    <3> SUFFICES ASSUME k + 1 <= m, q[k + 1].n <= b
                 PROVE  Old(c(k + 1))
      BY <1>1
    <3>1. k + 1 \in 1..m /\ (k + 1) - 1 = k /\ k <= m
      BY <1>2
    <3>2. k # 0 => q[k].n <= b
      <4>1. k # 0 => k \in 1..m /\ q[k].n < q[k + 1].n
        BY <1>2, <3>1
      <4>2. k # 0 => q[k].n \in Nat /\ q[k + 1].n \in Nat
        BY <1>1, <1>2, <3>1, <4>1
      <4> QED BY <1>1, <4>1, <4>2
    <3>3. Old(c(k)) /\ c(k) \in MaybeCampaign
      BY <1>8, <2>2, <3>1, <3>2
    <3>4. c(k + 1) = IF q[k + 1].ip = ip THEN Corr!Ingested(c(k), x(k + 1)) ELSE c(k)
      BY <1>8, <3>1
    <3>5. x(k + 1) \in Corr!Events /\ x(k + 1).time <= born
      <4>1. q[k + 1].n \in 1..b
        <5>1. q[k + 1].n \in 1..Len(tried) /\ q[k + 1].n <= b
          BY <1>2, <3>1
        <5> HIDE DEF b
        <5> QED BY <1>1, <5>1
      <4> QED BY <1>1, <1>6, <3>1, <4>1
    <3> HIDE DEF c, x
    <3>6. Old(Corr!Ingested(c(k), x(k + 1)))
      <4>1. Corr!Ingested(c(k), x(k + 1)).first = IF Corr!Opens(c(k), x(k + 1))
                                                    THEN x(k + 1).time ELSE c(k).first
        BY <3>3, <3>5, BeginsAt
      <4> QED BY <3>3, <3>5, <4>1 DEF Old, Corr!Opens
    <3> QED BY <3>3, <3>4, <3>6
  <2>3. \A k \in Nat : k \in T
    <3> HIDE DEF T
    <3> QED BY <2>1, <2>2, Induction
  <2> QED BY <1>2, <2>3
<1> HIDE DEF c, x, m, n, b
\* The events read that were handed over before or with the j-th of this run.
<1> DEFINE Upto(j) == {k \in 0..m : k = 0 \/ q[k].n <= b + j}
           at(j) == CHOOSE k \in Upto(j) : \A l \in Upto(j) : l <= k
<1>10. ASSUME NEW j \in 0..n
       PROVE  at(j) \in Upto(j) /\ (\A l \in Upto(j) : l <= at(j)) /\ at(j) \in 0..m
  <2>1. Upto(j) \subseteq Nat /\ 0 \in Upto(j) /\ \A l \in Upto(j) : l <= m
    BY <1>2
  <2>2. \E k \in Upto(j) : \A l \in Upto(j) : l <= k
    <3> HIDE DEF Upto
    <3>1. Upto(j) # {}
      BY <2>1
    <3> QED BY <1>2, <2>1, <3>1, Greatest
  <2>3. at(j) \in Upto(j) /\ \A l \in Upto(j) : l <= at(j)
    <3> HIDE DEF Upto
    <3> QED BY <2>2
  <2> QED BY <2>3
<1>11. ASSUME NEW j \in 0..n, NEW k \in 0..m
       PROVE  k \in Upto(j) <=> k = 0 \/ q[k].n <= b + j
  OBVIOUS
<1> HIDE DEF Upto, at
<1> DEFINE f == [j \in 0..n |-> c(at(j))]
<1>12. f \in [0..n -> MaybeCampaign] /\ \A j \in 0..n : f[j] = c(at(j))
  <2>1. \A j \in 0..n : c(at(j)) \in MaybeCampaign
    BY <1>7, <1>10 DEF c
  <2> QED BY <2>1
<1> HIDE DEF f
<1>13. Old(f[0])
  <2>1. 0 \in 0..n /\ b + 0 = b
    BY <1>1
  <2>2. at(0) = 0 \/ q[at(0)].n <= b
    BY <1>10, <1>11, <2>1
  <2> QED BY <1>9, <1>10, <1>12, <2>1, <2>2
<1>14. ASSUME NEW j \in 1..n
       PROVE  f[j] = IF log[j].ip = ip THEN Corr!Ingested(f[j - 1], log[j]) ELSE f[j - 1]
  <2> DEFINE e == tried[b + j]
  <2>1. /\ j \in 0..n /\ j - 1 \in 0..n /\ b + j \in 1..Len(tried)
        /\ b + (j - 1) = (b + j) - 1 /\ b + j \in Nat
    BY <1>1
  <2>2. e \in Event /\ e.n = b + j
    <3>1. DOMAIN tried = 1..Len(tried)
      BY <1>1
    <3>2. \A i \in 1..Len(tried) : tried[i].n = i
      BY <3>1 DEF Inv, FileOrdered
    <3>3. tried[b + j] \in Event
      <4>1. tried \in Seq(Event) /\ b + j \in 1..Len(tried)
        BY <1>1, <2>1
      <4> QED BY <4>1
    <3> QED BY <2>1, <3>2, <3>3
  <2>3. log[j] = Seen(e, stamp[e.n]) /\ log[j].ip = e.ip
    BY <1>1, <2>2 DEF Seen
  <2>4. e \in ThisRun
    <3>1. /\ Len(tried) - Len(log) + 1 = b + 1 /\ b + j \in (b + 1)..Len(tried)
      BY <1>1 DEF b, n, Earlier
    <3> QED BY <3>1 DEF ThisRun
  <2> HIDE DEF e
  <2>5. f[j] = c(at(j)) /\ f[j - 1] = c(at(j - 1))
    BY <1>12, <2>1
  <2>6. /\ at(j) \in 0..m /\ at(j) \in Upto(j) /\ \A l \in Upto(j) : l <= at(j)
        /\ at(j - 1) \in 0..m /\ at(j - 1) \in Upto(j - 1) /\ \A l \in Upto(j - 1) : l <= at(j - 1)
    BY <1>10, <2>1
  <2>7. /\ \A k \in 0..m : k \in Upto(j) <=> k = 0 \/ q[k].n <= b + j
        /\ \A k \in 0..m : k \in Upto(j - 1) <=> k = 0 \/ q[k].n <= (b + j) - 1
    BY <1>11, <2>1
  <2>8. /\ \A k \in 1..m : q[k].n \in Nat /\ q[k] = tried[q[k].n]
        /\ \A k, l \in 1..m : k < l => q[k].n < q[l].n
        /\ m \in Nat
    BY <1>1, <1>2
  <2>9. CASE \E l \in 1..m : q[l] = e
    <3>1. PICK l \in 1..m : q[l] = e
      BY <2>9
    <3>2. q[l].n = b + j /\ l \in 0..m /\ l - 1 \in 0..m
      BY <2>2, <2>8, <3>1
    <3>3. at(j) = l
      <4>1. l \in Upto(j) /\ l <= at(j)
        BY <2>6, <2>7, <2>1, <3>2
      <4>2. ~ (l < at(j))
        <5>1. SUFFICES ASSUME l < at(j) PROVE FALSE
          OBVIOUS
        <5>2. at(j) \in 1..m /\ at(j) # 0
          BY <2>6, <2>8, <5>1
        <5>3. q[at(j)].n <= b + j /\ q[l].n < q[at(j)].n
          BY <2>6, <2>7, <2>8, <5>1, <5>2
        <5> QED BY <2>1, <2>8, <3>2, <5>2, <5>3
      <4> QED BY <2>6, <2>8, <4>1, <4>2
    <3>4. at(j - 1) = l - 1
      <4>1. l - 1 \in Upto(j - 1) /\ l - 1 <= at(j - 1)
        <5>1. l - 1 # 0 => l - 1 \in 1..m /\ l - 1 < l /\ q[l - 1].n < q[l].n /\ q[l - 1].n \in Nat
          BY <2>8
        <5>2. l - 1 = 0 \/ q[l - 1].n <= (b + j) - 1
          BY <2>1, <3>2, <5>1
        <5> QED BY <2>6, <2>7, <3>2, <5>2
      <4>2. ~ (l - 1 < at(j - 1))
        <5>1. SUFFICES ASSUME l - 1 < at(j - 1) PROVE FALSE
          OBVIOUS
        <5>2. at(j - 1) \in 1..m /\ at(j - 1) # 0 /\ (l = at(j - 1) \/ l < at(j - 1))
          BY <2>6, <2>8, <5>1
        <5>3. q[at(j - 1)].n <= (b + j) - 1 /\ q[l].n <= q[at(j - 1)].n
          <6>1. q[at(j - 1)].n <= (b + j) - 1
            BY <2>6, <2>7, <5>2
          <6>2. l < at(j - 1) => q[l].n < q[at(j - 1)].n
            BY <2>8, <5>2
          <6> QED BY <2>8, <5>2, <6>1, <6>2
        <5> QED BY <2>1, <2>8, <3>2, <5>2, <5>3
      <4> QED BY <2>6, <2>8, <4>1, <4>2
    <3>5. c(l) = IF q[l].ip = ip THEN Corr!Ingested(c(l - 1), x(l)) ELSE c(l - 1)
      BY <1>8
    <3>6. x(l) = log[j]
      BY <2>3, <3>1 DEF x
    <3> QED BY <2>3, <2>5, <3>1, <3>3, <3>4, <3>5, <3>6
  <2>10. CASE ~ \E l \in 1..m : q[l] = e
    <3>1. log[j].ip # ip
      BY <1>3, <2>3, <2>4, <2>10
    <3>2. \A k \in 1..m : q[k].n # b + j
      BY <2>8, <2>10 DEF e
    <3>3. \A k \in 0..m : k \in Upto(j) <=> k \in Upto(j - 1)
      <4>1. \A k \in 0..m : k # 0 => k \in 1..m
        BY <2>8
      <4>2. \A k \in 1..m : q[k].n <= b + j <=> q[k].n <= (b + j) - 1
        BY <2>1, <2>8, <3>2
      <4> QED BY <2>7, <4>1, <4>2
    <3>4. at(j) = at(j - 1)
      BY <2>6, <2>8, <3>3
    <3> QED BY <2>5, <3>1, <3>4
  <2> QED BY <2>9, <2>10
<1>15. f[n] = Rebuilt[ip]
  <2>1. n \in 0..n /\ m \in 0..m
    BY <1>1, <1>2
  <2>2. m = 0 \/ q[m].n <= b + n
    BY <1>1, <1>2
  <2>3. at(n) = m
    BY <1>2, <1>10, <1>11, <2>1, <2>2
  <2>4. f[n] = c(m)
    BY <1>12, <2>1, <2>3
  <2> QED BY <1>4, <1>5, <2>4 DEF c
<1>16. Continued(f, ip)
  BY <1>13, <1>14 DEF Continued, n
<1>17. f \in [0..Len(log) -> MaybeCampaign] /\ n \in 0..n
  BY <1>1, <1>12 DEF n
<1>18. Pair(f[n], ip) /\ f[n] \in MaybeCampaign
  BY <1>16, <1>17 DEF Continues, n
<1> QED BY <1>15, <1>18

\* The campaigns command and the screen of the running process do not contradict each
\* other: while an address's events of this run can be read, the campaign rebuilt from
\* the file is the one in memory, continued backwards by what earlier runs left, and
\* the same once the address was away for a window (campaigns_feeds_coverage.go:36-46
\* with engine.go:32 and correlator.go:58).
THEOREM CommandExtendsScreen == Spec => []RebuiltExtendsLive
<1> DEFINE Both == Stamped /\ LogOfThisRun /\ NoneYet /\ Continues
<1>1. Init => Both
  <2> SUFFICES ASSUME Init PROVE Both
    OBVIOUS
  <2>1. /\ tried = <<>> /\ stamp = <<>> /\ log = <<>> /\ up = FALSE /\ opened = {}
        /\ \A ip \in IP : campaigns[ip] = NoCampaign
        /\ now = 0 /\ born = 0
    BY DEF Init, Store!Init, Corr!Init, Corr!NoCampaigns
  <2>2. Stamped /\ LogOfThisRun
    BY <2>1 DEF Stamped, LogOfThisRun
  <2>3. NoneYet
    BY <2>1 DEF NoneYet
  <2>4. Continues
    <3> SUFFICES ASSUME NEW ip \in IP, NEW f \in [0..Len(log) -> MaybeCampaign], Continued(f, ip)
                 PROVE  Pair(f[Len(log)], ip)
      BY DEF Continues
    <3>1. Len(log) = 0 /\ f[0] \in MaybeCampaign
      BY <2>1
    <3>2. f[0] # NoCampaign => f[0].first \in Nat /\ f[0].first <= 0
      BY <2>1, <3>1 DEF Continued, Old, MaybeCampaign, Corr!Campaign
    <3> QED BY <2>1, <3>1, <3>2 DEF Pair
  <2> QED BY <2>2, <2>3, <2>4
<1>2. Inv /\ Both /\ [Next]_vars => Both'
  BY StampsStep, NoneYetStep, ContinuesStep
<1>3. Inv /\ Both => RebuiltExtendsLive
  <2> SUFFICES ASSUME Inv, Both, NEW ip \in IP, up, campaigns[ip] # NoCampaign,
                      {e \in ThisRun : e.ip = ip} \subseteq Range(Store!Readable(file))
               PROVE  LET live == campaigns[ip]
                          cli == Rebuilt[ip]
                      IN  /\ cli # NoCampaign
                          /\ cli.first <= live.first /\ cli.last = live.last
                          /\ cli.total >= live.total /\ cli.max >= live.max
                          /\ IsSuffix(live.hops, cli.hops)
                          /\ Range(live.decoys) \subseteq Range(cli.decoys)
                          /\ Sessions(ip) > 1 /\ pruned[ip] = 0 => cli = live
    BY DEF RebuiltExtendsLive
  <2>1. Pair(Rebuilt[ip], ip)
    BY RebuiltContinues
  <2>2. /\ Rebuilt[ip] # NoCampaign /\ Extends(Rebuilt[ip], campaigns[ip])
        /\ Sessions(ip) > 1 /\ pruned[ip] = 0 => Rebuilt[ip] = campaigns[ip]
    BY <2>1 DEF Pair
  <2>3. IsSuffix(campaigns[ip].hops, Rebuilt[ip].hops)
    <3>1. /\ campaigns[ip].hops \in Seq(Decoy) /\ Rebuilt[ip].hops \in Seq(Decoy)
          /\ Ends(campaigns[ip].hops, Rebuilt[ip].hops)
      BY <2>2 DEF Extends, Corr!Campaign
    <3> QED BY <3>1, EndsIsSuffix
  <2> QED BY <2>2, <2>3 DEF Extends
<1> QED BY <1>1, <1>2, <1>3, Inductive, PTL DEF Spec

=============================================================================
