------------------------- MODULE OperatorTuiProofs -------------------------
(***************************************************************************)
(* Proofs about OperatorTui for any events and addresses, any number of    *)
(* rows, any feed and any file of earlier runs.                            *)
(***************************************************************************)
EXTENDS OperatorTui, SequenceTheorems, FiniteSetTheorems, TLAPS

Distinct(s) == \A i, j \in DOMAIN s : s[i] = s[j] => i = j

\* What sorting and cutting leave: as many of the rows kept as there is room for, and
\* none of them twice.
LEMMA SortedRows ==
  ASSUME NEW S, NEW s \in Seq(S), NEW kept \in SUBSET DOMAIN s,
         NEW score \in [DOMAIN s -> Int], NEW time \in [DOMAIN s -> Int]
  PROVE  LET r == SortRows(s, kept, score, time)
         IN  /\ IsFiniteSet(kept) /\ Cardinality(kept) \in Nat
             /\ r \in Seq(S) /\ DOMAIN r = 1..Len(r)
             /\ Len(r) = IF Cardinality(kept) < Rows THEN Cardinality(kept) ELSE Rows
             /\ \A k \in DOMAIN r : r[k] \in {s[i] : i \in kept}
             /\ Distinct(s) => Distinct(r)
<1> DEFINE r == SortRows(s, kept, score, time)
           n == Cardinality(kept)
           Lower(i) == {j \in kept : Above(score, time, j, i)}
           Place(i) == 1 + Cardinality(Lower(i))
           m == IF n < Rows THEN n ELSE Rows
<1>1. /\ DOMAIN s = 1..Len(s) /\ Len(s) \in Nat
      /\ IsFiniteSet(kept) /\ n \in Nat
  <2>1. DOMAIN s = 1..Len(s) /\ Len(s) \in Nat
    BY LenProperties
  <2>2. IsFiniteSet(1..Len(s))
    BY <2>1, FS_Interval
  <2>3. IsFiniteSet(kept)
    BY <2>1, <2>2, FS_Subset
  <2> QED BY <2>1, <2>3, FS_CardinalityType
\* Above orders the rows strictly, one after the other.
<1>2. \A i, j, k \in kept :
        /\ ~Above(score, time, i, i)
        /\ i # j => Above(score, time, i, j) \/ Above(score, time, j, i)
        /\ Above(score, time, i, j) /\ Above(score, time, j, k) => Above(score, time, i, k)
  <2>1. \A i \in kept : i \in Int /\ score[i] \in Int /\ time[i] \in Int
    BY <1>1
  <2> QED BY <2>1 DEF Above
<1>3. \A i \in kept : /\ IsFiniteSet(Lower(i)) /\ Cardinality(Lower(i)) \in Nat
                      /\ Place(i) \in 1..n
  <2> SUFFICES ASSUME NEW i \in kept
               PROVE  /\ IsFiniteSet(Lower(i)) /\ Cardinality(Lower(i)) \in Nat
                      /\ Place(i) \in 1..n
    OBVIOUS
  <2>1. IsFiniteSet(kept \ {i}) /\ Cardinality(kept \ {i}) = n - 1
    BY <1>1, FS_RemoveElement
  <2>2. Lower(i) \in SUBSET (kept \ {i})
    BY <1>2
  <2>3. IsFiniteSet(Lower(i)) /\ Cardinality(Lower(i)) <= n - 1
    BY <2>1, <2>2, FS_Subset
  <2>4. Cardinality(Lower(i)) \in Nat
    BY <2>3, FS_CardinalityType
  <2> QED BY <1>1, <2>3, <2>4
<1>4. ASSUME NEW i \in kept, NEW j \in kept, Above(score, time, i, j)
      PROVE  Place(i) < Place(j)
  <2>1. IsFiniteSet(Lower(i) \cup {i}) /\ Cardinality(Lower(i) \cup {i}) = Cardinality(Lower(i)) + 1
    <3>1. i \notin Lower(i)
      BY <1>2
    <3> QED BY <1>3, <3>1, FS_AddElement
  <2>2. Lower(i) \cup {i} \in SUBSET Lower(j)
    BY <1>2, <1>4
  <2>3. Cardinality(Lower(i) \cup {i}) <= Cardinality(Lower(j))
    BY <1>3, <2>2, FS_Subset
  <2>4. Cardinality(Lower(i)) \in Nat /\ Cardinality(Lower(j)) \in Nat
    BY <1>3
  <2> HIDE DEF Lower
  <2> QED BY <2>1, <2>3, <2>4
<1> HIDE DEF Lower
<1>5. \A k \in 1..n : \E i \in kept : Place(i) = k
  <2> DEFINE f == [i \in kept |-> Place(i)]
  <2>1. f \in Injection(kept, 1..n)
    <3>1. \A i, j \in kept : Place(i) = Place(j) => i = j
      <4>1. \A i, j \in kept : Above(score, time, i, j) => Place(i) < Place(j)
        BY <1>4
      <4>2. \A i \in kept : Place(i) \in Nat
        BY <1>1, <1>3
      <4> HIDE DEF Place
      <4> QED BY <1>2, <4>1, <4>2
    <3>2. f \in [kept -> 1..n]
      BY <1>3
    <3> QED BY <3>1, <3>2 DEF Injection, IsInjective
  <2>2. IsFiniteSet(1..n) /\ Cardinality(1..n) = n
    BY <1>1, FS_Interval
  <2> HIDE DEF f, n
  <2>3. f \in Surjection(kept, 1..n)
    BY <1>1, <2>1, <2>2, FS_Injection DEF n
  <2> QED BY <2>3 DEF Surjection, f
<1>6. m \in Nat /\ m <= n
  BY <1>1, TuiAssumption
<1> DEFINE row(k) == CHOOSE i \in kept : Place(i) = k
<1>7. \A k \in 1..m : row(k) \in kept /\ Place(row(k)) = k
  <2> HIDE DEF Place
  <2>1. \A k \in 1..m : k \in 1..n
    BY <1>1, <1>6
  <2> QED BY <1>5, <2>1
<1>8. r = [k \in 1..m |-> s[row(k)]]
  BY DEF SortRows, Lower
<1> HIDE DEF row, m, Place, r
<1>9. /\ r \in Seq(S) /\ DOMAIN r = 1..m /\ Len(r) = m
      /\ \A k \in 1..m : r[k] = s[row(k)]
  <2>1. \A k \in 1..m : s[row(k)] \in S
    BY <1>1, <1>7
  <2>2. r \in [1..m -> S]
    BY <1>8, <2>1
  <2> QED BY <1>6, <1>8, <2>2
<1>10. Distinct(s) => Distinct(r)
  BY <1>7, <1>9 DEF Distinct
<1> QED BY <1>1, <1>7, <1>9, <1>10 DEF m, r

-----------------------------------------------------------------------------
\* An event on its way to the screen, or on it.
OnTheWay == received \o (inHand \o feed)
Active == {ip \in IP : board[ip] # NoCampaign}
Since == SubSeq(received, loaded.at + 1, Len(received))

Typed ==
  /\ bus \in {<<>>} \union {<<e>> : e \in Event}
  /\ store \in Seq(Event) /\ feed \in Seq(Event) /\ inHand \in Seq(Event)
  /\ received \in Seq(Event)
  /\ board \in [IP -> [score : Nat, seen : Int]]
  /\ events \in Seq(Event) /\ Len(events) <= Rows
  /\ cursor \in Nat /\ focus \in {"events", "campaigns"}
  /\ loaded.store \in Seq(Event) /\ loaded.at \in 0..Len(received)

\* The correlator forgets no address, and the pane lists some of what it had when the
\* pane was made.
PaneFitsBoard ==
  /\ IsFiniteSet(Active)
  /\ \E n \in Nat : /\ n <= Cardinality(Active)
                    /\ campaigns \in Seq(IP) /\ Len(campaigns) = IF n < Rows THEN n ELSE Rows

CursorInPane == cursor < PaneLen \/ (cursor = 0 /\ PaneLen = 0)

\* The bus persists an event once, and offers it to the feed once, after that.
OnceOnTheWay ==
  /\ Distinct(store) /\ Distinct(OnTheWay) /\ Distinct(loaded.store)
  /\ \A i \in DOMAIN OnTheWay : \E k \in DOMAIN store : OnTheWay[i] = store[k]
  /\ \A e \in Event : bus = <<e>> => \A k \in DOMAIN store : store[k] # e

PaneIsFeed == events = Capped(Reverse(Since) \o HighScoreEvents(loaded.store))

Inv == Typed /\ PaneFitsBoard /\ CursorInPane /\ OnceOnTheWay /\ PaneIsFeed

\* What the panes are made of.
LEMMA Panes ==
  ASSUME NEW s \in Seq(Event)
  PROVE  /\ RecentEvents(s) \in Seq(Event) /\ (Distinct(s) => Distinct(RecentEvents(s)))
         /\ HighScoreEvents(s) \in Seq(Event) /\ Len(HighScoreEvents(s)) <= Rows
         /\ \A k \in DOMAIN HighScoreEvents(s) : \E i \in DOMAIN s : HighScoreEvents(s)[k] = s[i]
         /\ Distinct(s) => Distinct(HighScoreEvents(s))
         /\ Capped(s) \in Seq(Event) /\ DOMAIN Capped(s) = 1..Len(Capped(s))
         /\ Len(Capped(s)) = IF Len(s) < Rows THEN Len(s) ELSE Rows
         /\ \A i \in DOMAIN Capped(s) : i \in DOMAIN s /\ Capped(s)[i] = s[i]
<1>1. DOMAIN s = 1..Len(s) /\ Len(s) \in Nat /\ \A i \in DOMAIN s : s[i] \in Event
  BY LenProperties
<1>2. Rows \in Nat /\ Rows > 0 /\ LoadCap \in Nat /\ LoadCap > 0
  BY TuiAssumption
<1>3. RecentEvents(s) \in Seq(Event) /\ (Distinct(s) => Distinct(RecentEvents(s)))
  <2> DEFINE from == IF Len(s) > LoadCap THEN 1 + Len(s) - LoadCap ELSE 1
             r == SubSeq(s, from, Len(s))
  <2>1. from \in Nat /\ from >= 1
    BY <1>1, <1>2
  <2> HIDE DEF from
  <2>2. /\ r \in Seq(Event) /\ DOMAIN r = 1..Len(r) /\ Len(r) \in Nat
        /\ Len(r) = IF from <= Len(s) THEN Len(s) - from + 1 ELSE 0
        /\ \A i \in 1..Len(r) : r[i] = s[from + i - 1]
    BY <1>1, <2>1, SubSeqProperties
  <2> HIDE DEF r
  <2>3. \A i \in DOMAIN r : i \in Nat /\ from + i - 1 \in DOMAIN s
    BY <1>1, <2>1, <2>2
  <2>4. Distinct(s) => Distinct(r)
    BY <2>1, <2>2, <2>3 DEF Distinct
  <2> QED BY <2>2, <2>4 DEF RecentEvents, r, from
<1>4. /\ HighScoreEvents(s) \in Seq(Event) /\ Len(HighScoreEvents(s)) <= Rows
      /\ \A k \in DOMAIN HighScoreEvents(s) : \E i \in DOMAIN s : HighScoreEvents(s)[k] = s[i]
      /\ Distinct(s) => Distinct(HighScoreEvents(s))
  <2> DEFINE kept == {i \in DOMAIN s : ThreatScore[s[i]] >= MinScore}
             score == [i \in DOMAIN s |-> ThreatScore[s[i]]]
             time == [i \in DOMAIN s |-> Stamp[s[i]]]
  <2>1. kept \in SUBSET DOMAIN s
    OBVIOUS
  <2>2. score \in [DOMAIN s -> Int] /\ time \in [DOMAIN s -> Int]
    BY <1>1, TuiAssumption
  <2>3. HighScoreEvents(s) = SortRows(s, kept, score, time)
    BY DEF HighScoreEvents
  <2> HIDE DEF kept, score, time
  <2> DEFINE r == SortRows(s, kept, score, time)
  <2>4. /\ r \in Seq(Event) /\ Cardinality(kept) \in Nat
        /\ Len(r) = IF Cardinality(kept) < Rows THEN Cardinality(kept) ELSE Rows
        /\ \A k \in DOMAIN r : r[k] \in {s[i] : i \in kept}
        /\ Distinct(s) => Distinct(r)
    BY <2>1, <2>2, SortedRows
  <2> QED BY <1>2, <2>1, <2>3, <2>4
<1>5. /\ Capped(s) \in Seq(Event) /\ DOMAIN Capped(s) = 1..Len(Capped(s))
      /\ Len(Capped(s)) = IF Len(s) < Rows THEN Len(s) ELSE Rows
      /\ \A i \in DOMAIN Capped(s) : i \in DOMAIN s /\ Capped(s)[i] = s[i]
  <2> DEFINE n == IF Len(s) < Rows THEN Len(s) ELSE Rows
  <2>1. n \in Nat /\ n <= Len(s)
    BY <1>1, <1>2
  <2> HIDE DEF n
  <2>2. /\ SubSeq(s, 1, n) \in Seq(Event) /\ DOMAIN SubSeq(s, 1, n) = 1..n
        /\ Len(SubSeq(s, 1, n)) = n
        /\ \A i \in 1..n : SubSeq(s, 1, n)[i] = s[i]
    BY <1>1, <2>1, SubSeqProperties
  <2> QED BY <1>1, <2>1, <2>2 DEF Capped, n
<1> QED BY <1>3, <1>4, <1>5

\* The campaign pane is full, or lists every campaign.
LEMMA CampaignRows ==
  ASSUME Typed, IsFiniteSet(Active), NEW c \in CampaignPanes
  PROVE  /\ c \in Seq(IP) /\ Cardinality(Active) \in Nat
         /\ Len(c) = IF Cardinality(Active) < Rows THEN Cardinality(Active) ELSE Rows
<1> DEFINE n == Cardinality(Active)
           score(s) == [i \in DOMAIN s |-> board[s[i]].score]
           time(s) == [i \in DOMAIN s |-> board[s[i]].seen]
<1>1. PICK s \in SetToSeqs(Active) : c = SortRows(s, DOMAIN s, score(s), time(s))
  BY DEF CampaignPanes, Active
<1>2. n \in Nat
  BY FS_CardinalityType
<1> HIDE DEF n
<1>3. s \in [1..n -> Active]
  BY <1>1 DEF SetToSeqs, n
<1>4. s \in Seq(IP) /\ DOMAIN s = 1..n /\ \A i \in DOMAIN s : s[i] \in IP
  BY <1>2, <1>3 DEF Active
<1>5. score(s) \in [DOMAIN s -> Int] /\ time(s) \in [DOMAIN s -> Int]
  BY <1>4 DEF Typed
<1>6. Cardinality(DOMAIN s) = n
  BY <1>2, <1>4, FS_Interval
<1> HIDE DEF score, time
<1>7. /\ c \in Seq(IP)
      /\ Len(c) = IF Cardinality(DOMAIN s) < Rows THEN Cardinality(DOMAIN s) ELSE Rows
  <2> DEFINE r == SortRows(s, DOMAIN s, score(s), time(s))
  <2>1. r \in Seq(IP) /\ Len(r) = IF Cardinality(DOMAIN s) < Rows THEN Cardinality(DOMAIN s) ELSE Rows
    BY <1>4, <1>5, SortedRows
  <2> QED BY <1>1, <2>1
<1> QED BY <1>2, <1>6, <1>7 DEF n

\* Cutting twice is cutting once: an event put on top of a cut pane.
LEMMA OnTop ==
  ASSUME NEW q \in Seq(Event), NEW h \in Seq(Event), NEW e \in Event
  PROVE  /\ Reverse(q) \in Seq(Event) /\ Len(Reverse(q)) = Len(q)
         /\ \A i \in 1..Len(q) : Reverse(q)[i] = q[Len(q) - i + 1]
         /\ Capped(Reverse(Append(q, e)) \o h) = Capped(<<e>> \o Capped(Reverse(q) \o h))
<1>1. \A x \in Seq(Event) : /\ Len(x) \in Nat /\ DOMAIN x = 1..Len(x)
                            /\ Reverse(x) \in Seq(Event) /\ Len(Reverse(x)) = Len(x)
                            /\ \A i \in 1..Len(x) : Reverse(x)[i] = x[Len(x) - i + 1]
  <2> SUFFICES ASSUME NEW x \in Seq(Event)
               PROVE  /\ Len(x) \in Nat /\ DOMAIN x = 1..Len(x)
                      /\ Reverse(x) \in Seq(Event) /\ Len(Reverse(x)) = Len(x)
                      /\ \A i \in 1..Len(x) : Reverse(x)[i] = x[Len(x) - i + 1]
    OBVIOUS
  <2>1. Len(x) \in Nat /\ DOMAIN x = 1..Len(x) /\ \A i \in 1..Len(x) : x[i] \in Event
    BY LenProperties
  <2>2. \A i \in 1..Len(x) : x[(Len(x) - i) + 1] \in Event
    BY <2>1
  <2>3. Reverse(x) \in [1..Len(x) -> Event]
    BY <2>2 DEF Reverse
  <2> QED BY <2>1, <2>3 DEF Reverse
<1>2. Reverse(Append(q, e)) = <<e>> \o Reverse(q)
  <2> DEFINE a == Append(q, e)
             u == Reverse(a)
             v == <<e>> \o Reverse(q)
  <2>1. /\ a \in Seq(Event) /\ Len(a) = Len(q) + 1 /\ a[Len(q) + 1] = e
        /\ \A i \in 1..Len(q) : a[i] = q[i]
    BY AppendProperties
  <2> HIDE DEF a
  <2>2. /\ v \in Seq(Event) /\ Len(v) = Len(q) + 1 /\ v[1] = e
        /\ \A i \in 2..(Len(q) + 1) : v[i] = Reverse(q)[i - 1]
    <3>1. <<e>> \in Seq(Event) /\ Len(<<e>>) = 1 /\ <<e>>[1] = e
      OBVIOUS
    <3> QED BY <1>1, <3>1, ConcatProperties
  <2>3. u \in Seq(Event) /\ Len(u) = Len(q) + 1
        /\ \A i \in 1..(Len(q) + 1) : u[i] = a[(Len(q) + 1) - i + 1]
    BY <1>1, <2>1
  <2> HIDE DEF u, v
  <2>4. ASSUME NEW i \in 1..Len(u) PROVE u[i] = v[i]
    <3>1. CASE i = 1
      BY <1>1, <2>1, <2>2, <2>3, <3>1
    <3>2. CASE i # 1
      <4>1. /\ i \in 2..(Len(q) + 1) /\ i - 1 \in 1..Len(q)
            /\ (Len(q) + 1) - i + 1 \in 1..Len(q)
            /\ (Len(q) + 1) - i + 1 = Len(q) - (i - 1) + 1
        BY <1>1, <2>3, <3>2
      <4>2. u[i] = q[(Len(q) + 1) - i + 1]
        BY <2>1, <2>3, <4>1
      <4>3. v[i] = q[Len(q) - (i - 1) + 1]
        BY <1>1, <2>2, <4>1
      <4> QED BY <4>1, <4>2, <4>3
    <3> QED BY <3>1, <3>2
  <2> QED BY <2>2, <2>3, <2>4, SeqEqual DEF u, v, a
<1>3. ASSUME NEW x \in Seq(Event) PROVE Capped(<<e>> \o Capped(x)) = Capped(<<e>> \o x)
  <2> DEFINE c == Capped(x)
             u == <<e>> \o c
             v == <<e>> \o x
  <2>1. /\ c \in Seq(Event) /\ Len(c) = IF Len(x) < Rows THEN Len(x) ELSE Rows
        /\ \A i \in 1..Len(c) : c[i] = x[i]
    BY Panes
  <2>2. Rows \in Nat /\ Rows > 0 /\ Len(x) \in Nat /\ Len(c) \in Nat /\ Len(c) <= Len(x)
    BY <1>1, <2>1, TuiAssumption
  <2> HIDE DEF c
  <2>3. /\ u \in Seq(Event) /\ Len(u) = 1 + Len(c) /\ v \in Seq(Event) /\ Len(v) = 1 + Len(x)
        /\ \A i \in 1..(1 + Len(c)) : u[i] = IF i <= 1 THEN e ELSE c[i - 1]
        /\ \A i \in 1..(1 + Len(x)) : v[i] = IF i <= 1 THEN e ELSE x[i - 1]
    <3>1. <<e>> \in Seq(Event) /\ Len(<<e>>) = 1 /\ \A i \in Int : 1 <= i /\ i <= 1 => <<e>>[i] = e
      OBVIOUS
    <3> QED BY <2>1, <2>2, <3>1, ConcatProperties
  <2> HIDE DEF u, v
  <2>4. /\ Capped(u) \in Seq(Event) /\ Capped(v) \in Seq(Event)
        /\ DOMAIN Capped(u) = 1..Len(Capped(u)) /\ DOMAIN Capped(v) = 1..Len(Capped(v))
        /\ Len(Capped(u)) = IF Len(u) < Rows THEN Len(u) ELSE Rows
        /\ Len(Capped(v)) = IF Len(v) < Rows THEN Len(v) ELSE Rows
        /\ \A i \in DOMAIN Capped(u) : Capped(u)[i] = u[i]
        /\ \A i \in DOMAIN Capped(v) : Capped(v)[i] = v[i]
    BY <2>3, Panes
  <2>5. Len(Capped(u)) = Len(Capped(v)) /\ Len(Capped(u)) <= Len(u) /\ Len(Capped(v)) <= Len(v)
        /\ Len(Capped(u)) \in Nat
    <3> DEFINE lu == Len(Capped(u))
               lv == Len(Capped(v))
    <3>1. lu = (IF 1 + Len(c) < Rows THEN 1 + Len(c) ELSE Rows)
          /\ lv = (IF 1 + Len(x) < Rows THEN 1 + Len(x) ELSE Rows)
      BY <2>3, <2>4
    <3> HIDE DEF lu, lv
    <3>2. lu = lv /\ lu <= 1 + Len(c) /\ lv <= 1 + Len(x) /\ lu \in Nat
      BY <2>1, <2>2, <3>1
    <3> QED BY <2>3, <3>2 DEF lu, lv
  <2>6. \A i \in 1..Len(Capped(u)) : u[i] = v[i]
    <3> SUFFICES ASSUME NEW i \in 1..Len(Capped(u)) PROVE u[i] = v[i]
      OBVIOUS
    <3>1. i \in 1..(1 + Len(c)) /\ i \in 1..(1 + Len(x)) /\ (~(i <= 1) => i - 1 \in 1..Len(c))
      BY <2>2, <2>3, <2>5
    <3> QED BY <2>1, <2>3, <3>1
  <2>7. \A i \in 1..Len(Capped(u)) : Capped(u)[i] = Capped(v)[i]
    BY <2>4, <2>5, <2>6
  <2> QED BY <2>4, <2>5, <2>7, SeqEqual DEF u, v, c
<1>4. Reverse(Append(q, e)) \o h = <<e>> \o (Reverse(q) \o h)
  BY <1>1, <1>2, ConcatAssociative
<1>5. Reverse(q) \o h \in Seq(Event)
  BY <1>1, ConcatProperties
<1> QED BY <1>1, <1>3, <1>4, <1>5
\* Every step keeps the invariant.
LEMMA InvStep == ASSUME Inv, [Next]_vars PROVE Inv'
<1> USE DEF Inv
<1>1. /\ \A s \in Seq(Event) : /\ Len(s) \in Nat /\ DOMAIN s = 1..Len(s)
                               /\ \A i \in DOMAIN s : s[i] \in Event
      /\ Len(campaigns) \in Nat /\ Len(events) \in Nat /\ PaneLen \in Nat
  <2>1. \A s \in Seq(Event) : /\ Len(s) \in Nat /\ DOMAIN s = 1..Len(s)
                              /\ \A i \in DOMAIN s : s[i] \in Event
    BY LenProperties
  <2>2. Len(campaigns) \in Nat
    BY LenProperties DEF PaneFitsBoard
  <2> QED BY <2>1, <2>2 DEF Typed, PaneLen
\* What is taken from one end of the way is put on the other.
<1>2. ASSUME NEW s \in Seq(Event), NEW t \in Seq(Event), t # <<>>
      PROVE  /\ Append(s, Head(t)) \o Tail(t) = s \o t
             /\ Head(t) \in Event /\ Tail(t) \in Seq(Event) /\ Append(s, Head(t)) \in Seq(Event)
  <2>1. t = <<Head(t)>> \o Tail(t) /\ Head(t) \in Event /\ Tail(t) \in Seq(Event)
    BY <1>2
  <2>2. Append(s, Head(t)) = s \o <<Head(t)>> /\ <<Head(t)>> \in Seq(Event)
    BY <1>2, <2>1
  <2> QED BY <2>1, <2>2, ConcatAssociative
\* One more event that is not there yet.
<1>3. ASSUME NEW s \in Seq(Event), NEW e \in Event
      PROVE  /\ s \o <<e>> \in Seq(Event) /\ DOMAIN (s \o <<e>>) = 1..(Len(s) + 1)
             /\ \A i \in DOMAIN s : (s \o <<e>>)[i] = s[i]
             /\ (s \o <<e>>)[Len(s) + 1] = e
             /\ Distinct(s) /\ (\A k \in DOMAIN s : s[k] # e) => Distinct(s \o <<e>>)
  <2>1. s \o <<e>> = Append(s, e)
    OBVIOUS
  <2>2. /\ Append(s, e) \in Seq(Event) /\ Len(Append(s, e)) = Len(s) + 1
        /\ \A i \in 1..Len(s) : Append(s, e)[i] = s[i]
        /\ Append(s, e)[Len(s) + 1] = e
    BY AppendProperties
  <2> DEFINE a == Append(s, e)
  <2> HIDE DEF a
  <2>3. /\ a \in Seq(Event) /\ DOMAIN a = 1..(Len(s) + 1) /\ Len(s) \in Nat /\ DOMAIN s = 1..Len(s)
        /\ \A i \in 1..Len(s) : a[i] = s[i]
        /\ a[Len(s) + 1] = e
    BY <1>1, <2>2 DEF a
  <2>4. Distinct(s) /\ (\A k \in DOMAIN s : s[k] # e) => Distinct(a)
    BY <2>3 DEF Distinct
  <2> QED BY <2>1, <2>3, <2>4 DEF a
<1>4. ASSUME NEW e \in Event, Correlate(e) PROVE Inv'
  <2>1. UNCHANGED <<store, feed, waiting, inHand, quit, events, campaigns, cursor, focus,
                    received, loaded>>
    BY <1>4 DEF Correlate, wire, model, history
  <2> DEFINE ip == RemoteIP[e]
  <2>2. ip \in IP /\ Stamp[e] \in Nat /\ ThreatScore[e] \in Nat
    BY TuiAssumption
  <2>3. PICK score \in {ThreatScore[e], board[ip].score} :
               board' = [board EXCEPT ![ip] = [score |-> score, seen |-> Stamp[e]]]
    BY <1>4 DEF Correlate
  <2>4. score \in Nat
    BY <2>2, <2>3 DEF Typed
  <2>5. Active' = Active \cup {ip}
    <3>1. [score |-> score, seen |-> Stamp[e]] # NoCampaign
      BY <2>2 DEF NoCampaign
    <3> QED BY <2>2, <2>3, <3>1 DEF Active, Typed
  <2>6. /\ IsFiniteSet(Active') /\ Cardinality(Active) \in Nat /\ Cardinality(Active') \in Nat
        /\ Cardinality(Active) <= Cardinality(Active')
    <3>1. IsFiniteSet(Active)
      BY DEF PaneFitsBoard
    <3>2. /\ IsFiniteSet(Active \cup {ip}) /\ Cardinality(Active) \in Nat
          /\ Cardinality(Active \cup {ip}) = Cardinality(Active)
             \/ Cardinality(Active \cup {ip}) = Cardinality(Active) + 1
      BY <3>1, FS_AddElement, FS_CardinalityType
    <3> QED BY <2>5, <3>2
  <2>7. Typed'
    BY <1>4, <2>1, <2>2, <2>3, <2>4 DEF Typed, Correlate
  <2>8. PaneFitsBoard'
    <3>1. PICK n \in Nat : /\ n <= Cardinality(Active)
                           /\ campaigns \in Seq(IP)
                           /\ Len(campaigns) = IF n < Rows THEN n ELSE Rows
      BY DEF PaneFitsBoard
    <3>2. n <= Cardinality(Active')
      BY <2>6, <3>1
    <3> QED BY <2>1, <2>6, <3>1, <3>2 DEF PaneFitsBoard
  <2>9. OnceOnTheWay'
    <3>1. bus' = <<e>> /\ \A k \in DOMAIN store : store[k] # e
      BY <1>1, <1>4 DEF Correlate, Contains, Typed
    <3> QED BY <2>1, <3>1 DEF OnceOnTheWay, OnTheWay
  <2> QED BY <2>1, <2>7, <2>8, <2>9 DEF CursorInPane, PaneLen, PaneIsFeed, Since
<1>5. CASE Publish
  <2>1. UNCHANGED <<board, waiting, inHand, quit, events, campaigns, cursor, focus, received,
                    loaded>> /\ bus' = <<>>
    BY <1>5 DEF Publish, model, history
  <2>2. PICK e \in Event : bus = <<e>>
    BY <1>5 DEF Publish, Typed
  <2>3. /\ Typed' /\ OnceOnTheWay'
    <3>1. CASE UNCHANGED <<store, feed>>
      BY <2>1, <3>1 DEF Typed, OnceOnTheWay, OnTheWay
    <3>2. CASE /\ store' = store \o bus
               /\ feed' = IF Len(feed) < FeedCap THEN feed \o bus ELSE feed
      <4>1. /\ store' = store \o <<e>> /\ store \in Seq(Event) /\ store' \in Seq(Event)
            /\ DOMAIN store' = 1..(Len(store) + 1) /\ store'[Len(store) + 1] = e
            /\ \A i \in DOMAIN store : store'[i] = store[i]
            /\ Distinct(store')
        BY <1>3, <2>2, <3>2 DEF Typed, OnceOnTheWay
      <4>2. feed' \in Seq(Event)
        BY <1>3, <2>2, <3>2 DEF Typed
      <4>3. OnTheWay \in Seq(Event)
        BY ConcatProperties DEF OnTheWay, Typed
      <4>4. OnTheWay' = OnTheWay \/ OnTheWay' = OnTheWay \o <<e>>
        <5>1. CASE Len(feed) < FeedCap
          <6>1. \A a, b, c \in Seq(Event) : a \o (b \o c) = (a \o b) \o c
            BY ConcatAssociative
          <6> DEFINE one == <<e>>
                     rest == inHand \o feed
          <6>2. one \in Seq(Event) /\ rest \in Seq(Event)
            BY ConcatProperties DEF Typed
          <6>3. received \in Seq(Event) /\ inHand \in Seq(Event) /\ feed \in Seq(Event)
            BY DEF Typed
          <6> HIDE DEF one, rest
          <6>4. inHand \o (feed \o one) = (inHand \o feed) \o one
            BY <6>1, <6>2, <6>3
          <6>5. received \o (rest \o one) = (received \o rest) \o one
            BY <6>1, <6>2, <6>3
          <6> QED BY <2>1, <2>2, <3>2, <5>1, <6>4, <6>5 DEF OnTheWay, one, rest
        <5>2. CASE ~(Len(feed) < FeedCap)
          BY <2>1, <3>2, <5>2 DEF OnTheWay
        <5> QED BY <5>1, <5>2
      <4> DEFINE way == OnTheWay
                 way2 == OnTheWay'
      <4>5. /\ way \in Seq(Event) /\ Distinct(way)
            /\ \A i \in DOMAIN way : \E k \in DOMAIN store : way[i] = store[k]
            /\ \A k \in DOMAIN store : store[k] # e
        BY <2>2, <4>3 DEF OnceOnTheWay
      <4>6. way2 = way \/ way2 = way \o <<e>>
        BY <4>4
      <4> HIDE DEF way, way2
      <4>7. \A k \in DOMAIN store : k \in DOMAIN store'
        BY <1>1, <4>1
      <4>8. Len(store) + 1 \in DOMAIN store'
        BY <1>1, <4>1
      <4>9. Distinct(way2) /\ \A i \in DOMAIN way2 : \E k \in DOMAIN store' : way2[i] = store'[k]
        <5>1. CASE way2 = way
          BY <4>1, <4>5, <4>7, <5>1
        <5>2. CASE way2 = way \o <<e>>
          <6>1. /\ DOMAIN way2 = 1..(Len(way) + 1) /\ way2[Len(way) + 1] = e
                /\ \A i \in DOMAIN way : way2[i] = way[i]
                /\ DOMAIN way = 1..Len(way) /\ Len(way) \in Nat
            BY <1>1, <1>3, <4>5, <5>2
          <6>2. \A i \in DOMAIN way : way[i] # e
            BY <4>5
          <6>3. Distinct(way2)
            BY <1>3, <4>5, <5>2, <6>2
          <6>4. \A i \in DOMAIN way2 : i \in DOMAIN way \/ i = Len(way) + 1
            BY <6>1
          <6>5. \A i \in DOMAIN way : \E k \in DOMAIN store' : way2[i] = store'[k]
            BY <4>1, <4>5, <4>7, <6>1
          <6>6. \E k \in DOMAIN store' : way2[Len(way) + 1] = store'[k]
            BY <4>1, <4>8, <6>1
          <6> QED BY <6>3, <6>4, <6>5, <6>6
        <5> QED BY <4>6, <5>1, <5>2
      <4>10. Typed'
        BY <2>1, <4>1, <4>2 DEF Typed
      <4>11. OnceOnTheWay'
        BY <2>1, <4>1, <4>9 DEF OnceOnTheWay, way2
      <4> QED BY <4>10, <4>11
    <3> QED BY <1>5, <3>1, <3>2 DEF Publish
  <2> QED BY <2>1, <2>3 DEF PaneFitsBoard, Active, CursorInPane, PaneLen, PaneIsFeed, Since
<1>6. CASE WaitForEvent
  <2>1. UNCHANGED <<bus, store, board, quit, events, campaigns, cursor, focus, received, loaded>>
    BY <1>6 DEF WaitForEvent, backend, model, history
  <2>2. inHand' = Append(inHand, Head(feed)) /\ feed' = Tail(feed) /\ feed # <<>>
    BY <1>6 DEF WaitForEvent
  <2>3. inHand' \o feed' = inHand \o feed /\ inHand' \in Seq(Event) /\ feed' \in Seq(Event)
    BY <1>2, <2>2 DEF Typed
  <2>4. Typed'
    BY <2>1, <2>3 DEF Typed
  <2>5. OnceOnTheWay'
    BY <2>1, <2>3 DEF OnceOnTheWay, OnTheWay
  <2> QED BY <2>1, <2>4, <2>5 DEF PaneFitsBoard, Active, CursorInPane, PaneLen, PaneIsFeed, Since
<1>7. CASE ReceiveEvent
  <2> DEFINE e == Head(inHand)
  <2>1. /\ UNCHANGED <<bus, store, board, feed, quit, focus, loaded>>
        /\ inHand # <<>> /\ inHand' = Tail(inHand)
        /\ events' = Capped(<<e>> \o events) /\ received' = Append(received, e)
        /\ campaigns' \in CampaignPanes
        /\ cursor' = IF focus = "events" THEN Clamp(cursor + 1, Len(events')) ELSE cursor
    BY <1>7 DEF ReceiveEvent, backend
  <2>2. /\ received' \o inHand' = received \o inHand
        /\ e \in Event /\ inHand' \in Seq(Event) /\ received' \in Seq(Event)
    BY <1>2, <2>1 DEF Typed
  <2> HIDE DEF e
  <2>3. /\ Len(received') = Len(received) + 1
        /\ \A i \in 1..Len(received) : received'[i] = received[i]
        /\ received'[Len(received) + 1] = e
    BY <2>1, <2>2, AppendProperties DEF Typed
  <2>4. /\ <<e>> \o events \in Seq(Event) /\ Len(<<e>> \o events) = Len(events) + 1
    <3>1. <<e>> \in Seq(Event) /\ Len(<<e>>) = 1
      BY <2>2
    <3>2. /\ <<e>> \o events \in Seq(Event)
          /\ Len(<<e>> \o events) = Len(<<e>>) + Len(events)
      BY <3>1, ConcatProperties DEF Typed
    <3> QED BY <1>1, <3>1, <3>2
  <2>5. events' \in Seq(Event) /\ Len(events') \in Nat
        /\ Len(events') = IF Len(events) + 1 < Rows THEN Len(events) + 1 ELSE Rows
    BY <1>1, <2>1, <2>4, Panes
  <2>6. Rows \in Nat /\ Rows > 0
    BY TuiAssumption
  <2>7. /\ campaigns' \in Seq(IP) /\ Cardinality(Active) \in Nat
        /\ Len(campaigns') = IF Cardinality(Active) < Rows THEN Cardinality(Active) ELSE Rows
    BY <2>1, CampaignRows DEF PaneFitsBoard
  <2>8. Len(campaigns) <= Len(campaigns') /\ Len(campaigns') \in Nat
    <3>1. PICK n \in Nat : /\ n <= Cardinality(Active)
                           /\ Len(campaigns) = IF n < Rows THEN n ELSE Rows
      BY DEF PaneFitsBoard
    <3> QED BY <2>6, <2>7, <3>1
  <2>9. cursor' \in Nat /\ CursorInPane'
    <3>1. CASE focus = "events"
      <4>1. cursor' = Clamp(cursor + 1, Len(events')) /\ PaneLen' = Len(events')
        BY <2>1, <3>1 DEF PaneLen
      <4>2. cursor \in Nat
        BY DEF Typed
      <4> QED BY <2>5, <4>1, <4>2 DEF Clamp, CursorInPane
    <3>2. CASE focus = "campaigns"
      <4>1. cursor' = cursor /\ PaneLen = Len(campaigns) /\ PaneLen' = Len(campaigns')
        BY <2>1, <3>2 DEF PaneLen
      <4>2. CASE cursor < PaneLen
        BY <2>8, <4>1, <4>2, <1>1 DEF Typed, CursorInPane
      <4>3. CASE cursor = 0 /\ PaneLen = 0
        BY <2>8, <4>1, <4>3 DEF CursorInPane
      <4> QED BY <4>2, <4>3 DEF CursorInPane
    <3> QED BY <3>1, <3>2 DEF Typed
  <2>10. Typed'
    <3>1. loaded'.at \in 0..Len(received')
      BY <1>1, <2>1, <2>3 DEF Typed
    <3>2. Len(events') <= Rows
      BY <1>1, <2>5, <2>6
    <3> QED BY <2>1, <2>2, <2>5, <2>9, <3>1, <3>2 DEF Typed
  <2>11. PaneFitsBoard'
    <3>1. Active' = Active
      BY <2>1 DEF Active
    <3> QED BY <2>7, <3>1 DEF PaneFitsBoard
  <2>12. OnceOnTheWay'
    <3>1. \A a, b, c \in Seq(Event) : a \o (b \o c) = (a \o b) \o c
      BY ConcatAssociative
    <3>2. received \in Seq(Event) /\ inHand \in Seq(Event) /\ feed \in Seq(Event)
      BY DEF Typed
    <3>3. OnTheWay' = OnTheWay
      <4>1. received \o (inHand \o feed) = (received \o inHand) \o feed
        BY <3>1, <3>2, Zenon
      <4>2. received' \o (inHand' \o feed) = (received' \o inHand') \o feed
        BY <2>2, <3>1, <3>2, Zenon
      <4>3. feed' = feed /\ received' \o inHand' = received \o inHand
        BY <2>1, <2>2
      <4> QED BY <4>1, <4>2, <4>3, Zenon DEF OnTheWay
    <3> QED BY <2>1, <3>3 DEF OnceOnTheWay
  <2>13. PaneIsFeed'
    <3> DEFINE h == HighScoreEvents(loaded.store)
    <3>1. h \in Seq(Event)
      BY Panes DEF Typed
    <3>2. Since \in Seq(Event) /\ Since' = Append(Since, e)
      <4> DEFINE from == loaded.at + 1
      <4>1. from \in Nat /\ from >= 1 /\ from <= Len(received) + 1 /\ Len(received) \in Nat
        BY <1>1 DEF Typed
      <4>2. Since = SubSeq(received, from, Len(received)) /\ Since' = SubSeq(received', from, Len(received'))
        BY <2>1 DEF Since
      <4> HIDE DEF from
      <4>3. /\ Since \in Seq(Event) /\ Len(Since) = Len(received) - from + 1
            /\ \A i \in 1..Len(Since) : Since[i] = received[from + i - 1]
        BY <4>1, <4>2, SubSeqProperties DEF Typed
      <4>4. /\ Since' \in Seq(Event) /\ Len(Since') = Len(received) - from + 2
            /\ \A i \in 1..Len(Since') : Since'[i] = received'[from + i - 1]
        BY <2>2, <2>3, <4>1, <4>2, SubSeqProperties
      <4>5. /\ Append(Since, e) \in Seq(Event) /\ Len(Append(Since, e)) = Len(Since) + 1
            /\ \A i \in 1..Len(Since) : Append(Since, e)[i] = Since[i]
            /\ Append(Since, e)[Len(Since) + 1] = e
        BY <2>2, <4>3, AppendProperties
      <4> DEFINE u == Since'
                 v == Append(Since, e)
      <4>6. ASSUME NEW i \in 1..Len(u) PROVE u[i] = v[i]
        <5>1. i \in 1..Len(Since) \/ i = Len(Since) + 1
          BY <4>1, <4>3, <4>4
        <5>2. CASE i \in 1..Len(Since)
          <6>1. from + i - 1 \in 1..Len(received)
            BY <4>1, <4>3, <5>2
          <6> QED BY <2>3, <4>3, <4>4, <4>5, <5>2, <6>1
        <5>3. CASE i = Len(Since) + 1
          <6>1. from + i - 1 = Len(received) + 1
            BY <4>1, <4>3, <5>3
          <6> QED BY <2>3, <4>4, <4>5, <5>3, <6>1
        <5> QED BY <5>1, <5>2, <5>3
      <4>7. Len(u) = Len(v) /\ u \in Seq(Event) /\ v \in Seq(Event)
        BY <4>1, <4>3, <4>4, <4>5
      <4> HIDE DEF u, v
      <4>8. u = v
        BY <4>6, <4>7, SeqEqual
      <4> QED BY <4>3, <4>8 DEF u, v
    <3>3. Capped(Reverse(Append(Since, e)) \o h) = Capped(<<e>> \o Capped(Reverse(Since) \o h))
      BY <2>2, <3>1, <3>2, OnTop
    <3> QED BY <2>1, <3>2, <3>3 DEF PaneIsFeed
  <2> QED BY <2>9, <2>10, <2>11, <2>12, <2>13
<1>8. CASE Tab
  <2>1. UNCHANGED <<bus, store, board, feed, inHand, events, campaigns, received, loaded>>
        /\ cursor' = 0 /\ focus' \in {"events", "campaigns"}
    BY <1>8 DEF Tab, backend, wire, history
  <2>2. PaneLen' \in Nat
    BY <1>1, <2>1 DEF PaneLen
  <2>3. CursorInPane'
    BY <2>1, <2>2 DEF CursorInPane
  <2>4. Typed'
    BY <2>1 DEF Typed
  <2> QED BY <2>1, <2>3, <2>4 DEF PaneFitsBoard, Active, OnceOnTheWay, OnTheWay, PaneIsFeed, Since
<1>9. ASSUME NEW delta \in {-1, 1}, MoveCursor(delta) PROVE Inv'
  <2>1. UNCHANGED <<bus, store, board, feed, inHand, events, campaigns, focus, received, loaded>>
        /\ cursor' = Clamp(cursor + delta, PaneLen)
    BY <1>9 DEF MoveCursor, backend, wire, history
  <2>2. cursor' \in Nat /\ (cursor' < PaneLen \/ (cursor' = 0 /\ PaneLen = 0))
    BY <1>1, <2>1 DEF Clamp, Typed
  <2>3. PaneLen' = PaneLen
    BY <2>1 DEF PaneLen
  <2>4. CursorInPane'
    BY <2>2, <2>3 DEF CursorInPane
  <2>5. Typed'
    BY <2>1, <2>2 DEF Typed
  <2> QED BY <2>1, <2>4, <2>5 DEF PaneFitsBoard, Active, OnceOnTheWay, OnTheWay, PaneIsFeed, Since
<1>10. CASE NewModel \/ Reload
  <2> DEFINE s == RecentEvents(store)
             h == HighScoreEvents(s)
  <2>1. /\ UNCHANGED <<bus, store, board, feed, inHand, focus, received>>
        /\ events' = h /\ campaigns' \in CampaignPanes
        /\ cursor' = Clamp(cursor, IF focus = "events" THEN Len(events') ELSE Len(campaigns'))
        /\ loaded' = [store |-> s, at |-> Len(received)]
    BY <1>10 DEF NewModel, Reload, RefreshFromStore, backend
  <2>2. s \in Seq(Event) /\ Distinct(s)
    BY Panes DEF Typed, OnceOnTheWay
  <2> HIDE DEF s
  <2>3. h \in Seq(Event) /\ Len(h) <= Rows
    BY <2>2, Panes
  <2> HIDE DEF h
  <2>4. /\ campaigns' \in Seq(IP) /\ Cardinality(Active) \in Nat
        /\ Len(campaigns') = IF Cardinality(Active) < Rows THEN Cardinality(Active) ELSE Rows
    BY <2>1, CampaignRows DEF PaneFitsBoard
  <2>5. Len(events') \in Nat /\ Len(campaigns') \in Nat
    BY <1>1, <2>1, <2>3, <2>4, TuiAssumption
  <2>6. cursor' \in Nat /\ CursorInPane'
    <3>1. cursor' = Clamp(cursor, PaneLen') /\ PaneLen' \in Nat
      BY <2>1, <2>5 DEF PaneLen
    <3>2. cursor' \in Nat /\ (cursor' < PaneLen' \/ (cursor' = 0 /\ PaneLen' = 0))
      <4>1. cursor \in Nat
        BY DEF Typed
      <4> DEFINE n == PaneLen'
      <4>2. cursor' = Clamp(cursor, n) /\ n \in Nat
        BY <3>1
      <4> HIDE DEF n
      <4>3. cursor' \in Nat /\ (cursor' < n \/ (cursor' = 0 /\ n = 0))
        BY <4>1, <4>2 DEF Clamp
      <4> QED BY <4>3 DEF n
    <3> QED BY <3>2 DEF CursorInPane
  <2>7. Typed'
    <3>1. Len(received) \in 0..Len(received')
      BY <1>1, <2>1 DEF Typed
    <3> QED BY <2>1, <2>2, <2>3, <2>6, <3>1 DEF Typed
  <2>8. PaneFitsBoard'
    <3>1. Active' = Active
      BY <2>1 DEF Active
    <3> QED BY <2>4, <3>1 DEF PaneFitsBoard
  <2>9. OnceOnTheWay'
    BY <2>1, <2>2 DEF OnceOnTheWay, OnTheWay
  <2>10. PaneIsFeed'
    <3>1. Since' = <<>>
      <4>1. Since' = SubSeq(received, Len(received) + 1, Len(received)) /\ Len(received) \in Nat
        BY <1>1, <2>1 DEF Since, Typed
      <4> QED BY <4>1, SubSeqProperties DEF Typed
    <3>2. Reverse(<<>>) \o h = h
      <4>1. Reverse(<<>>) = <<>>
        BY DEF Reverse
      <4> QED BY <2>3, <4>1
    <3>3. Capped(h) = h
      <4>1. /\ Capped(h) \in Seq(Event) /\ Len(Capped(h)) = Len(h)
            /\ \A i \in 1..Len(Capped(h)) : Capped(h)[i] = h[i]
        <5>1. /\ Capped(h) \in Seq(Event) /\ DOMAIN Capped(h) = 1..Len(Capped(h))
              /\ Len(Capped(h)) = IF Len(h) < Rows THEN Len(h) ELSE Rows
              /\ \A i \in DOMAIN Capped(h) : Capped(h)[i] = h[i]
          BY <2>3, Panes
        <5>2. Len(h) \in Nat /\ Rows \in Nat
          BY <1>1, <2>3, TuiAssumption
        <5> QED BY <2>3, <5>1, <5>2
      <4> QED BY <2>3, <4>1, SeqEqual
    <3> QED BY <2>1, <3>1, <3>2, <3>3 DEF PaneIsFeed, h
  <2> QED BY <2>6, <2>7, <2>8, <2>9, <2>10
<1>11. CASE Quit \/ UNCHANGED vars
  <2>1. UNCHANGED <<bus, store, board, feed, inHand, events, campaigns, cursor, focus, received,
                    loaded>>
    BY <1>11 DEF Quit, vars, backend, wire, model, history
  <2> QED BY <2>1 DEF Typed, PaneFitsBoard, Active, CursorInPane, PaneLen, OnceOnTheWay, OnTheWay,
                      PaneIsFeed, Since
<1> QED BY <1>4, <1>5, <1>6, <1>7, <1>8, <1>9, <1>10, <1>11 DEF Next, Key
LEMMA Inductive == Spec => []Inv
<1>1. Init => Inv
  <2> SUFFICES ASSUME Init PROVE Inv
    OBVIOUS
  <2> USE DEF Init
  <2>1. store \in Seq(Event) /\ Distinct(store)
    BY TuiAssumption DEF Distinct
  <2>2. /\ loaded.store = <<>> /\ loaded.store \in Seq(Event) /\ Distinct(loaded.store)
        /\ loaded.at = 0 /\ events = <<>>
    BY DEF Distinct
  <2>3. events \in Seq(Event) /\ Len(events) <= Rows /\ Len(events) \in Nat
    BY <2>2, TuiAssumption
  <2>4. board \in [IP -> [score : Nat, seen : Int]]
    BY DEF NoCampaign
  <2>5. Typed
    BY <2>1, <2>2, <2>3, <2>4 DEF Typed
  <2>6. PaneFitsBoard
    <3>1. Active = {}
      BY DEF Active
    <3>2. IsFiniteSet(Active) /\ Cardinality(Active) = 0
      BY <3>1, FS_EmptySet
    <3>3. campaigns \in Seq(IP) /\ Len(campaigns) = IF 0 < Rows THEN 0 ELSE Rows
      BY TuiAssumption
    <3> QED BY <3>2, <3>3 DEF PaneFitsBoard
  <2>7. CursorInPane
    BY <2>3 DEF CursorInPane, PaneLen
  <2>8. OnTheWay = <<>>
    BY DEF OnTheWay
  <2>9. OnceOnTheWay
    BY <2>1, <2>2, <2>8 DEF OnceOnTheWay, Distinct
  <2>10. PaneIsFeed
    <3>1. Since = <<>>
      BY <2>2 DEF Since
    <3>2. Reverse(<<>>) = <<>>
      BY DEF Reverse
    <3>3. Capped(events) = events
      <4>1. /\ Capped(events) \in Seq(Event) /\ DOMAIN Capped(events) = 1..Len(Capped(events))
            /\ Len(Capped(events)) = IF Len(events) < Rows THEN Len(events) ELSE Rows
            /\ \A i \in DOMAIN Capped(events) : Capped(events)[i] = events[i]
        BY <2>3, Panes
      <4>2. Rows \in Nat
        BY TuiAssumption
      <4> QED BY <2>3, <4>1, <4>2, SeqEqual
    <3>4. <<>> \o events = events
      BY <2>3
    <3>5. HighScoreEvents(<<>>) = <<>>
      <4> DEFINE h == HighScoreEvents(loaded.store)
      <4>1. /\ h \in Seq(Event)
            /\ \A k \in DOMAIN h : \E i \in DOMAIN loaded.store : h[k] = loaded.store[i]
        BY <2>2, Panes
      <4>2. DOMAIN loaded.store = {}
        BY <2>2
      <4> HIDE DEF h
      <4>3. Len(h) = 0
        <5>1. Len(h) \in Nat /\ DOMAIN h = 1..Len(h)
          BY <4>1, LenProperties
        <5>2. DOMAIN h = {}
          BY <4>1, <4>2
        <5>3. 1 \notin 1..Len(h)
          BY <5>1, <5>2
        <5> QED BY <5>1, <5>3
      <4>4. h = <<>>
        BY <4>1, <4>3
      <4> QED BY <2>2, <4>4 DEF h
    <3> QED BY <2>2, <3>1, <3>2, <3>3, <3>4, <3>5 DEF PaneIsFeed
  <2> QED BY <2>5, <2>6, <2>7, <2>9, <2>10 DEF Inv
<1> QED BY <1>1, InvStep, PTL DEF Spec

-----------------------------------------------------------------------------
\* The row the cursor is on exists, whatever the panes are made of meanwhile: no
\* campaign is forgotten, so the campaign pane never gets shorter under the cursor.
THEOREM CursorStaysOnRow == Spec => []CursorOnRow
<1>1. Inv => CursorOnRow
  <2>1. ASSUME Inv, ~(cursor < PaneLen) PROVE cursor = 0 /\ PaneLen = 0
    BY <2>1 DEF Inv, CursorInPane
  <2>2. ASSUME Inv, cursor < PaneLen PROVE SelectedIP # {}
    <3>1. cursor \in Nat /\ PaneLen \in Nat
      <4>1. Len(events) \in Nat /\ Len(campaigns) \in Nat
        BY <2>2, LenProperties DEF Inv, Typed, PaneFitsBoard
      <4> QED BY <2>2, <4>1 DEF Inv, Typed, PaneLen
    <3>2. ~(cursor >= PaneLen)
      BY <2>2, <3>1
    <3> QED BY <3>2 DEF SelectedIP
  <2> QED BY <2>1, <2>2 DEF CursorOnRow
<1> QED BY <1>1, Inductive, PTL

\* An event that comes in moves the rows and the cursor together.
THEOREM SelectionStays == Spec => SelectionSticks
<1>1. ASSUME Inv, [Next]_vars, received' # received, focus = "events", events # <<>>
      PROVE  \/ events'[cursor' + 1] = events[cursor + 1]
             \/ cursor + 1 = Rows /\ cursor' = cursor
  <2>1. ReceiveEvent
    BY <1>1 DEF Next, vars, Key, Correlate, Publish, WaitForEvent, Tab, MoveCursor,
                NewModel, Reload, RefreshFromStore, Quit, history
  <2> DEFINE e == Head(inHand)
             c == <<e>> \o events
  <2>2. /\ inHand # <<>> /\ events' = Capped(c) /\ cursor' = Clamp(cursor + 1, Len(events'))
    BY <1>1, <2>1 DEF ReceiveEvent
  <2>3. /\ e \in Event /\ events \in Seq(Event) /\ Len(events) \in Nat /\ Len(events) <= Rows
        /\ cursor \in Nat /\ Rows \in Nat
    BY <1>1, <2>2, HeadTailProperties, LenProperties, TuiAssumption DEF Inv, Typed
  <2>4. cursor < Len(events)
    <3>1. Len(events) # 0
      BY <1>1, <2>3
    <3> QED BY <1>1, <2>3, <3>1 DEF Inv, CursorInPane, PaneLen
  <2> HIDE DEF e
  <2>5. /\ c \in Seq(Event) /\ Len(c) = Len(events) + 1
        /\ \A i \in 2..(Len(events) + 1) : c[i] = events[i - 1]
    <3>1. <<e>> \in Seq(Event) /\ Len(<<e>>) = 1
      BY <2>3
    <3> QED BY <2>3, <3>1, ConcatProperties
  <2> HIDE DEF c
  <2>6. /\ DOMAIN events' = 1..Len(events')
        /\ Len(events') = IF Len(c) < Rows THEN Len(c) ELSE Rows
        /\ \A i \in DOMAIN events' : events'[i] = c[i]
    BY <2>2, <2>5, Panes
  <2> DEFINE n == Len(events')
  <2>7. n \in Nat /\ n = IF Len(events) + 1 < Rows THEN Len(events) + 1 ELSE Rows
    BY <2>3, <2>5, <2>6
  <2>8. cursor' = Clamp(cursor + 1, n)
    BY <2>2
  <2> HIDE DEF n
  <2>9. CASE cursor + 1 < n
    <3>1. cursor' = cursor + 1
      BY <2>3, <2>7, <2>8, <2>9 DEF Clamp
    <3>2. cursor + 2 \in 1..n /\ cursor + 2 \in 2..(Len(events) + 1)
      BY <2>3, <2>4, <2>7, <2>9
    <3>3. events'[cursor + 2] = c[cursor + 2]
      BY <2>6, <3>2 DEF n
    <3>4. c[cursor + 2] = events[cursor + 1]
      <4>1. (cursor + 2) - 1 = cursor + 1
        BY <2>3
      <4> QED BY <2>5, <3>2, <4>1
    <3>5. cursor' + 1 = cursor + 2
      BY <2>3, <3>1
    <3> QED BY <3>3, <3>4, <3>5
  <2>10. CASE ~(cursor + 1 < n)
    <3>1. n = Rows /\ cursor + 1 = Rows
      BY <2>3, <2>4, <2>7, <2>10
    <3>2. cursor' = cursor
      BY <2>3, <2>8, <3>1 DEF Clamp
    <3> QED BY <3>1, <3>2
  <2> QED BY <2>9, <2>10
<1>2. Inv /\ [Next]_vars =>
        [received' # received /\ focus = "events" /\ events # <<>> =>
           \/ events'[cursor' + 1] = events[cursor + 1]
           \/ cursor + 1 = Rows /\ cursor' = cursor]_vars
  BY <1>1
<1> QED BY <1>2, Inductive, PTL DEF Spec, SelectionSticks

\* The pane is the feed above the store, and an event on it twice was reloaded while it
\* was on its way: the bus offers an event once, so the feed never repeats one.
THEOREM PaneShowsFeed == Spec => []PaneIsFeedOverStore
<1>1. ASSUME Inv PROVE PaneIsFeedOverStore
  <2> DEFINE h == HighScoreEvents(loaded.store)
             q == Since
             c == Reverse(q) \o h
             at == loaded.at
  <2>1. /\ loaded.store \in Seq(Event) /\ Distinct(loaded.store) /\ at \in 0..Len(received)
        /\ received \in Seq(Event) /\ Len(received) \in Nat /\ Distinct(OnTheWay)
    BY <1>1, LenProperties DEF Inv, Typed, OnceOnTheWay
  <2>2. /\ h \in Seq(Event) /\ Distinct(h) /\ Len(h) \in Nat /\ DOMAIN h = 1..Len(h)
        /\ \A k \in DOMAIN h : \E i \in DOMAIN loaded.store : h[k] = loaded.store[i]
    BY <2>1, Panes, LenProperties
  <2>3. /\ q \in Seq(Event) /\ Len(q) = Len(received) - at /\ Len(q) \in Nat
        /\ \A i \in 1..Len(q) : q[i] = received[at + i]
    <3>1. /\ at + 1 \in Nat /\ at + 1 >= 1 /\ at + 1 <= Len(received) + 1 /\ at \in Nat
      BY <2>1
    <3> HIDE DEF at
    <3>2. q = SubSeq(received, at + 1, Len(received))
      BY DEF Since, at
    <3> HIDE DEF q
    <3>3. /\ q \in Seq(Event)
          /\ Len(q) = IF at + 1 <= Len(received) THEN Len(received) - (at + 1) + 1 ELSE 0
          /\ \A i \in 1..Len(q) : q[i] = received[(at + 1) + i - 1]
      BY <2>1, <3>1, <3>2, SubSeqProperties
    <3> QED BY <2>1, <3>1, <3>3
  <2>4. Distinct(received)
    <3>1. inHand \o feed \in Seq(Event)
      BY <1>1, ConcatProperties DEF Inv, Typed
    <3>2. /\ OnTheWay \in Seq(Event) /\ \A i \in 1..Len(received) : OnTheWay[i] = received[i]
          /\ Len(OnTheWay) = Len(received) + Len(inHand \o feed)
          /\ Len(inHand \o feed) \in Nat
      BY <2>1, <3>1, ConcatProperties, LenProperties DEF OnTheWay
    <3>3. \A i \in DOMAIN received : i \in DOMAIN OnTheWay /\ OnTheWay[i] = received[i]
      BY <2>1, <3>2
    <3> QED BY <2>1, <3>3 DEF Distinct
  <2> HIDE DEF h, q, at
  <2>5. /\ c \in Seq(Event) /\ DOMAIN c = 1..Len(c) /\ Len(c) = Len(q) + Len(h)
        /\ \A i \in 1..Len(q) : c[i] = received[at + (Len(q) - i + 1)]
        /\ \A i \in 1..Len(q) : c[i] = q[Len(q) - i + 1]
        /\ \A i \in DOMAIN c : i > Len(q) => i - Len(q) \in DOMAIN h /\ c[i] = h[i - Len(q)]
    <3>1. /\ Reverse(q) \in Seq(Event) /\ Len(Reverse(q)) = Len(q)
          /\ \A i \in 1..Len(q) : Reverse(q)[i] = q[Len(q) - i + 1]
      <4>1. CASE Event = {}
        BY <2>3, <4>1 DEF Reverse
      <4>2. CASE Event # {}
        BY <2>2, <2>3, <4>2, OnTop
      <4> QED BY <4>1, <4>2
    <3> DEFINE r == Reverse(q)
    <3> HIDE DEF r
    <3>2. /\ r \o h \in Seq(Event) /\ Len(r \o h) = Len(q) + Len(h)
          /\ \A i \in 1..Len(q) : (r \o h)[i] = r[i]
          /\ \A i \in (Len(q) + 1)..(Len(q) + Len(h)) : (r \o h)[i] = h[i - Len(q)]
      <4>1. r \in Seq(Event) /\ Len(r) = Len(q)
        BY <3>1 DEF r
      <4>2. /\ r \o h \in Seq(Event) /\ Len(r \o h) = Len(r) + Len(h)
            /\ \A i \in 1..(Len(r) + Len(h)) :
                 (r \o h)[i] = IF i <= Len(r) THEN r[i] ELSE h[i - Len(r)]
        BY <2>2, <4>1, ConcatProperties
      <4> QED BY <2>2, <2>3, <4>1, <4>2
    <3>3. \A i \in 1..Len(q) : Len(q) - i + 1 \in 1..Len(q)
      BY <2>3
    <3>4. \A i \in 1..Len(q) : q[Len(q) - i + 1] = received[at + (Len(q) - i + 1)]
      BY <2>3, <3>3
    <3>5. \A i \in (Len(q) + 1)..(Len(q) + Len(h)) : i - Len(q) \in 1..Len(h)
      BY <2>2, <2>3
    <3> QED BY <2>2, <2>3, <3>1, <3>2, <3>4, <3>5 DEF r
  <2> HIDE DEF c
  <2>6. /\ events = Capped(c)
        /\ \A i \in DOMAIN events : i \in DOMAIN c /\ events[i] = c[i]
    BY <1>1, <2>5, Panes DEF Inv, PaneIsFeed, c, h, q
  <2>7. ASSUME NEW i \in DOMAIN events, NEW j \in DOMAIN events, i < j, events[i] = events[j]
        PROVE  Contains(q, events[i]) /\ Contains(loaded.store, events[i])
    <3>1. i \in 1..(Len(q) + Len(h)) /\ j \in 1..(Len(q) + Len(h)) /\ c[i] = c[j]
      BY <2>5, <2>6, <2>7
    <3>2. i <= Len(q)
      <4> SUFFICES ASSUME ~(i <= Len(q)) PROVE FALSE
        OBVIOUS
      <4>1. i > Len(q) /\ j > Len(q) /\ i - Len(q) # j - Len(q)
        BY <2>2, <2>3, <2>7, <3>1
      <4> QED BY <2>2, <2>5, <2>6, <3>1, <4>1 DEF Distinct
    <3>3. j > Len(q)
      <4> SUFFICES ASSUME ~(j > Len(q)) PROVE FALSE
        OBVIOUS
      <4>1. i \in 1..Len(q) /\ j \in 1..Len(q)
        BY <2>2, <2>3, <3>1, <3>2
      <4>2. at + (Len(q) - i + 1) # at + (Len(q) - j + 1)
        <5>1. i \in Int /\ j \in Int /\ i # j /\ Len(q) \in Int /\ at \in Int
          BY <2>1, <2>3, <2>7, <4>1 DEF at
        <5> QED BY <5>1
      <4>3. at + (Len(q) - i + 1) \in DOMAIN received /\ at + (Len(q) - j + 1) \in DOMAIN received
        <5>1. DOMAIN received = 1..Len(received) /\ at \in Nat
          BY <2>1, LenProperties DEF at
        <5>2. Len(q) - i + 1 \in 1..Len(q) /\ Len(q) - j + 1 \in 1..Len(q)
          BY <2>3, <4>1
        <5> QED BY <2>1, <2>3, <5>1, <5>2
      <4> QED BY <2>4, <2>5, <3>1, <4>1, <4>2, <4>3 DEF Distinct
    <3>4. Contains(q, events[i])
      <4>1. i \in 1..Len(q) /\ Len(q) - i + 1 \in 1..Len(q)
        BY <2>2, <2>3, <3>1, <3>2
      <4> QED BY <2>5, <2>6, <4>1 DEF Contains
    <3>5. Contains(loaded.store, events[i])
      <4>1. PICK k \in DOMAIN loaded.store : events[i] = loaded.store[k]
        BY <2>2, <2>5, <2>6, <2>7, <3>3
      <4>2. k \in 1..Len(loaded.store)
        BY <2>1, LenProperties
      <4> QED BY <4>1, <4>2 DEF Contains
    <3> QED BY <3>4, <3>5
  <2> QED BY <2>6, <2>7 DEF PaneIsFeedOverStore, c, h, q, Since
<1> QED BY <1>1, Inductive, PTL
=============================================================================
