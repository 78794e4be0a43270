----------------------- MODULE OnDemandCaptureProofs -----------------------
(***************************************************************************)
(* Proofs about OnDemandCapture for every set of events and addresses, any *)
(* scores and timestamps, and any number of writes, failures, closings and *)
(* restarts.                                                               *)
(***************************************************************************)
EXTENDS OnDemandCapture, SequenceTheorems, TLAPS

\* A file is named after the address it was opened for (ondemand.go:133-146).
PathsNameTheirKey ==
  \A k \in Key : paths[k] # NoFile => paths[k] \in File /\ paths[k].key = k

\* What is in a file came from that address.
FramesAreOfTheKey ==
  \A f \in File : \A i \in DOMAIN disk[f] :
    disk[f][i].item = "frame" => KeyOf[disk[f][i].ev] = f.key

\* A file that is open has something in it: its header, if nothing else.
OpenedHasContent ==
  \A k \in Key : opened[k] # NoFile => disk[opened[k]] # <<>>

HeaderFirstAndOnce(s) ==
  (s # <<>> /\ \A i \in DOMAIN s : s[i] # Torn) =>
    s[1] = Header /\ \A i \in DOMAIN s : i > 1 => s[i] # Header

\* A call was answered only with its frame in the file.
AnsweredWritten ==
  \A a \in answered : \E i \in DOMAIN disk[a.path] :
    disk[a.path][i] = Frame(a.ev, a.operator)

Inv ==
  /\ TypeOK
  /\ PathsNameTheirKey /\ FramesAreOfTheKey /\ OpenedHasContent
  /\ \A f \in File : HeaderFirstAndOnce(disk[f])
  /\ AnsweredWritten

\* A frame is none of the other items, names its event, and says of its length
\* what holds of the payload (pcap.go:61-77).
LEMMA FrameFacts ==
  ASSUME NEW e \in Event, NEW operator \in BOOLEAN
  PROVE  /\ Frame(e, operator) \in Item
         /\ Frame(e, operator).item = "frame" /\ Frame(e, operator).ev = e
         /\ Frame(e, operator).operator = operator
         /\ Frame(e, operator) # Header /\ Frame(e, operator) # Torn
         /\ LET x == Frame(e, operator)
                n == PayloadLen[[ev |-> e, operator |-> operator]]
            IN  /\ x.len = n /\ x.caplen = x.bytes
                /\ x.bytes = n \/ (x.bytes = SnapLen /\ n > SnapLen)
<1>1. PayloadLen[[ev |-> e, operator |-> operator]] \in Nat /\ SnapLen \in Nat
  BY CaptureAssumption
<1> QED BY <1>1 DEF Frame, Item, FrameItem, Header, Torn

LEMMA ItemFacts ==
  /\ Header \in Item /\ Torn \in Item /\ Header # Torn
  /\ Header.item = "header" /\ Torn.item = "torn"
BY DEF Header, Torn, Item

\* What one write makes of a file that held s: `items` went to its end, a header
\* only at the beginning of an empty one.
Appended(s, t, items) ==
  /\ t \in Seq(Item) /\ Len(t) = Len(s) + Len(items)
  /\ \A i \in 1..Len(s) : t[i] = s[i]
  /\ \A i \in 1..Len(items) : t[Len(s) + i] = items[i]

\* The call of WriteLocked for e on file f: only f changes, by at most a header
\* and then e's frame or a piece of it.
Wrote(e, operator, f) ==
  /\ disk' \in [File -> Seq(Item)]
  /\ \A g \in File : g # f => disk'[g] = disk[g]
  /\ \/ disk'[f] = disk[f]
     \/ \E items \in {<<Torn>>, <<Header>>, <<Header, Frame(e, operator)>>, <<Header, Torn>>} :
          disk[f] = <<>> /\ Appended(disk[f], disk'[f], items)
     \/ \E items \in {<<Frame(e, operator)>>, <<Torn>>} :
          disk[f] # <<>> /\ Appended(disk[f], disk'[f], items)
  /\ \/ answered' = answered
     \/ /\ answered' = answered \cup {[ev |-> e, operator |-> operator, path |-> f]}
        /\ \E i \in DOMAIN disk'[f] : disk'[f][i] = Frame(e, operator)
        /\ paths'[KeyOf[e]] = f /\ opened'[KeyOf[e]] = f
        /\ paths[KeyOf[e]] \in {f, NoFile}
  /\ \/ UNCHANGED <<paths, opened>>
     \/ /\ paths' = [paths EXCEPT ![KeyOf[e]] = f]
        /\ opened' = [opened EXCEPT ![KeyOf[e]] = f]
        /\ disk'[f] # <<>>
  /\ panicked' \in BOOLEAN

LEMMA WriteStep ==
  ASSUME Inv, NEW e \in Event, NEW operator \in BOOLEAN, WriteLocked(e, operator),
         NEW f, f = PathFor(e, operator)
  PROVE  f \in File /\ f.key = KeyOf[e] /\ Wrote(e, operator, f)
<1> DEFINE key == KeyOf[e]
<1> USE CaptureAssumption
<1>0. key \in Key /\ disk \in [File -> Seq(Item)] /\ Frame(e, operator) \in Item /\ Torn \in Item
      /\ Header \in Item /\ panicked \in BOOLEAN
  BY FrameFacts, ItemFacts DEF Inv, TypeOK
<1>1. f \in File /\ f.key = key
  <2>1. CASE paths[key] # NoFile
    BY <1>0, <2>1 DEF PathFor, Inv, PathsNameTheirKey
  <2>2. CASE paths[key] = NoFile
    BY <1>0, <2>2 DEF PathFor, File
  <2> QED BY <2>1, <2>2
<1> SUFFICES Wrote(e, operator, f)
  BY <1>1
<1>2. disk[f] \in Seq(Item)
  BY <1>0, <1>1
<1>3. CASE paths[key] = NoFile /\ NotOpened(f)
  <2>0. UNCHANGED <<paths, opened, answered>> /\ panicked' \in BOOLEAN
    BY <1>0, <1>3 DEF NotOpened
  <2>1. CASE UNCHANGED disk
    BY <1>0, <2>0, <2>1 DEF Wrote
  <2>2. CASE disk[f] = <<>> /\ disk' = [disk EXCEPT ![f] = <<Torn>>]
    <3>1. Appended(disk[f], disk'[f], <<Torn>>)
      BY <1>0, <1>1, <2>2 DEF Appended
    <3>2. disk' \in [File -> Seq(Item)] /\ \A g \in File : g # f => disk'[g] = disk[g]
      BY <1>0, <1>1, <2>2
    <3>3. <<Torn>> \in {<<Torn>>, <<Header>>, <<Header, Frame(e, operator)>>, <<Header, Torn>>}
      OBVIOUS
    <3> QED BY <2>0, <2>2, <3>1, <3>2, <3>3, Zenon DEF Wrote
  <2> QED BY <1>3, <2>1, <2>2 DEF NotOpened
<1>4. ASSUME NEW content \in Seq(Item), content # <<>>, WriteFrame(e, operator, f, content),
             \/ content = disk[f]
             \/ disk[f] = <<>> /\ content = <<Header>>,
             paths'[key] = f /\ opened'[key] = f,
             paths[key] \in {f, NoFile},
             \/ UNCHANGED <<paths, opened>>
             \/ paths' = [paths EXCEPT ![key] = f] /\ opened' = [opened EXCEPT ![key] = f]
      PROVE  Wrote(e, operator, f)
  <2>1. PICK tail \in {<<Frame(e, operator)>>, <<Torn>>, <<>>} :
          /\ disk' = [disk EXCEPT ![f] = content \o tail]
          /\ \/ answered' = answered
             \/ /\ answered' = answered \cup {[ev |-> e, operator |-> operator, path |-> f]}
                /\ tail = <<Frame(e, operator)>>
    <3>1. Append(content, Frame(e, operator)) = content \o <<Frame(e, operator)>>
      BY <1>0, <1>4, AppendIsConcat
    <3> QED BY <1>4, <3>1, Zenon DEF WriteFrame
  <2>2. tail \in Seq(Item)
    <3>1. <<Frame(e, operator)>> \in Seq(Item) /\ <<Torn>> \in Seq(Item) /\ <<>> \in Seq(Item)
      BY <1>0
    <3> QED BY <3>1
  <2>3. Appended(content, content \o tail, tail) /\ content \o tail # <<>>
    BY <1>4, <2>2, ConcatProperties, ConcatEqualIffEmpty DEF Appended
  <2>4. /\ disk' \in [File -> Seq(Item)] /\ disk'[f] = content \o tail
        /\ \A g \in File : g # f => disk'[g] = disk[g]
    BY <1>0, <1>1, <2>1, <2>3 DEF Appended
  <2>5. tail = <<Frame(e, operator)>> => \E i \in DOMAIN disk'[f] : disk'[f][i] = Frame(e, operator)
    <3> SUFFICES ASSUME tail = <<Frame(e, operator)>> PROVE \E i \in DOMAIN disk'[f] : disk'[f][i] = Frame(e, operator)
      OBVIOUS
    <3>1. Len(content) \in Nat /\ Len(tail) = 1 /\ 1 \in 1..Len(tail) /\ tail[1] = Frame(e, operator)
      BY <1>4
    <3>2. (content \o tail)[Len(content) + 1] = Frame(e, operator) /\ Len(content \o tail) = Len(content) + 1
      BY <2>3, <3>1 DEF Appended
    <3>3. DOMAIN (content \o tail) = 1..(Len(content) + 1)
      BY <2>3, <3>2 DEF Appended
    <3>4. Len(content) + 1 \in 1..(Len(content) + 1)
      BY <3>1
    <3> QED BY <2>4, <3>2, <3>3, <3>4
  <2>6. \/ disk'[f] = disk[f]
        \/ \E items \in {<<Torn>>, <<Header>>, <<Header, Frame(e, operator)>>, <<Header, Torn>>} :
             disk[f] = <<>> /\ Appended(disk[f], disk'[f], items)
        \/ \E items \in {<<Frame(e, operator)>>, <<Torn>>} :
             disk[f] # <<>> /\ Appended(disk[f], disk'[f], items)
    <3>1. CASE disk[f] = <<>> /\ content = <<Header>>
      <4> DEFINE t == content \o tail
      <4>1. /\ t \in Seq(Item) /\ Len(t) = 1 + Len(tail) /\ t[1] = Header
            /\ \A i \in 1..Len(tail) : t[1 + i] = tail[i]
        BY <2>3, <3>1 DEF Appended
      <4> HIDE DEF t
      <4>2. CASE tail = <<Frame(e, operator)>>
        <5>1. Len(t) = 2 /\ t[1] = Header /\ t[2] = Frame(e, operator)
          BY <4>1, <4>2
        <5>2. Appended(<<>>, t, <<Header, Frame(e, operator)>>)
          <6> DEFINE items == <<Header, Frame(e, operator)>>
          <6>1. Len(items) = 2 /\ items[1] = Header /\ items[2] = Frame(e, operator) /\ Len(<<>>) = 0
            OBVIOUS
          <6> HIDE DEF items
          <6>2. \A i \in 1..Len(items) : t[Len(<<>>) + i] = items[i]
            BY <5>1, <6>1
          <6>3. Len(t) = Len(<<>>) + Len(items) /\ \A i \in 1..Len(<<>>) : t[i] = <<>>[i]
            BY <5>1, <6>1
          <6>4. Appended(<<>>, t, items)
            BY <4>1, <6>2, <6>3, Zenon DEF Appended
          <6> QED BY <6>4 DEF items
        <5> QED BY <2>4, <3>1, <5>2, Zenon DEF t
      <4>3. CASE tail = <<Torn>>
        <5>1. Len(t) = 2 /\ t[1] = Header /\ t[2] = Torn
          BY <4>1, <4>3
        <5>2. Appended(<<>>, t, <<Header, Torn>>)
          <6> DEFINE items == <<Header, Torn>>
          <6>1. Len(items) = 2 /\ items[1] = Header /\ items[2] = Torn /\ Len(<<>>) = 0
            OBVIOUS
          <6> HIDE DEF items
          <6>2. \A i \in 1..Len(items) : t[Len(<<>>) + i] = items[i]
            BY <5>1, <6>1
          <6>3. Len(t) = Len(<<>>) + Len(items) /\ \A i \in 1..Len(<<>>) : t[i] = <<>>[i]
            BY <5>1, <6>1
          <6>4. Appended(<<>>, t, items)
            BY <4>1, <6>2, <6>3, Zenon DEF Appended
          <6> QED BY <6>4 DEF items
        <5> QED BY <2>4, <3>1, <5>2, Zenon DEF t
      <4>4. CASE tail = <<>>
        <5>1. Appended(<<>>, t, <<Header>>)
          BY <4>1, <4>4 DEF Appended
        <5> QED BY <2>4, <3>1, <5>1, Zenon DEF t
      <4> QED BY <4>2, <4>3, <4>4
    <3>2. CASE content = disk[f]
      <4>1. CASE tail = <<>>
        BY <1>4, <2>4, <3>2, <4>1, ConcatEmptySeq
      <4>2. CASE tail \in {<<Frame(e, operator)>>, <<Torn>>}
        BY <1>4, <2>3, <2>4, <3>2, <4>2
      <4> QED BY <4>1, <4>2
    <3> QED BY <1>4, <3>1, <3>2
  <2>7. panicked' \in BOOLEAN
    BY <1>4 DEF WriteFrame, Inv, TypeOK
  <2> QED BY <1>4, <2>1, <2>3, <2>4, <2>5, <2>6, <2>7 DEF Wrote
<1>5. CASE /\ paths[key] = NoFile
           /\ paths' = [paths EXCEPT ![key] = f]
           /\ opened' = [opened EXCEPT ![key] = f]
           /\ WriteFrame(e, operator, f, OpenedContent(f))
  <2>1. OpenedContent(f) \in Seq(Item) /\ OpenedContent(f) # <<>>
    BY <1>0, <1>2 DEF OpenedContent
  <2>2. \/ OpenedContent(f) = disk[f]
        \/ disk[f] = <<>> /\ OpenedContent(f) = <<Header>>
    BY DEF OpenedContent
  <2>3. paths'[key] = f /\ opened'[key] = f
    BY <1>0, <1>5 DEF Inv, TypeOK
  <2> QED BY <1>4, <1>5, <2>1, <2>2, <2>3, Zenon
<1>6. CASE /\ paths[key] # NoFile /\ opened[key] # NoFile
           /\ WriteFrame(e, operator, f, disk[f])
           /\ UNCHANGED <<paths, opened>>
  <2>1. paths[key] = f /\ opened[key] = f
    BY <1>0, <1>6 DEF PathFor, Inv, TypeOK
  <2>2. disk[f] # <<>>
    BY <1>0, <1>6, <2>1 DEF Inv, OpenedHasContent
  <2> QED BY <1>2, <1>4, <1>6, <2>1, <2>2, Zenon
<1>7. CASE panicked' = TRUE /\ UNCHANGED <<paths, opened, disk, answered>>
  <2>1. panicked' \in BOOLEAN
    BY <1>7
  <2> QED BY <1>0, <1>7, <2>1 DEF Wrote
<1> QED BY <1>1, <1>3, <1>5, <1>6, <1>7 DEF WriteLocked

LEMMA FileStep ==
  ASSUME Inv, NEW e \in Event, NEW f \in File, f.key = KeyOf[e],
         NEW operator \in BOOLEAN, Wrote(e, operator, f), NEW g \in File
  PROVE  /\ \A i \in DOMAIN disk[g] : i \in DOMAIN disk'[g] /\ disk'[g][i] = disk[g][i]
         /\ \A i \in DOMAIN disk'[g] : disk'[g][i].item = "frame" => KeyOf[disk'[g][i].ev] = g.key
         /\ HeaderFirstAndOnce(disk'[g])
<1> DEFINE s == disk[g]
           t == disk'[g]
<1> USE CaptureAssumption
<1>0. /\ Header # Torn /\ Header.item # "frame" /\ Torn.item # "frame"
      /\ Frame(e, operator) # Header /\ Frame(e, operator) # Torn
      /\ Frame(e, operator).ev = e
  BY FrameFacts, ItemFacts
<1>1. /\ s \in Seq(Item) /\ HeaderFirstAndOnce(s)
      /\ \A i \in DOMAIN s : s[i].item = "frame" => KeyOf[s[i].ev] = g.key
  BY DEF Inv, TypeOK, FramesAreOfTheKey, Item
<1>2. CASE t = s
  BY <1>1, <1>2
<1>3. ASSUME NEW items \in {<<Torn>>, <<Header>>, <<Header, Frame(e, operator)>>, <<Header, Torn>>},
             s = <<>>, Appended(s, t, items), g = f
      PROVE  /\ \A i \in DOMAIN s : i \in DOMAIN t /\ t[i] = s[i]
             /\ \A i \in DOMAIN t : t[i].item = "frame" => KeyOf[t[i].ev] = g.key
             /\ HeaderFirstAndOnce(t)
  <2>1. t \in Seq(Item) /\ Len(t) = Len(items) /\ \A i \in 1..Len(items) : t[i] = items[i]
    BY <1>3 DEF Appended
  <2>2. DOMAIN t = 1..Len(items)
    BY <2>1
  <2> HIDE DEF t
  <2>3. CASE items = <<Torn>>
    BY <1>0, <1>3, <2>1, <2>2, <2>3 DEF HeaderFirstAndOnce
  <2>4. CASE items = <<Header>>
    BY <1>0, <1>3, <2>1, <2>2, <2>4 DEF HeaderFirstAndOnce
  <2>5. CASE items = <<Header, Frame(e, operator)>>
    <3>1. Len(items) = 2 /\ items[1] = Header /\ items[2] = Frame(e, operator)
      BY <2>5
    <3>2. DOMAIN t = {1, 2} /\ t[1] = Header /\ t[2] = Frame(e, operator)
      BY <2>1, <2>2, <3>1
    <3> QED BY <1>0, <1>3, <3>2 DEF HeaderFirstAndOnce
  <2>6. CASE items = <<Header, Torn>>
    BY <1>0, <1>3, <2>1, <2>2, <2>6 DEF HeaderFirstAndOnce
  <2> QED BY <2>3, <2>4, <2>5, <2>6
<1>4. ASSUME NEW items \in {<<Frame(e, operator)>>, <<Torn>>}, s # <<>>, Appended(s, t, items), g = f
      PROVE  /\ \A i \in DOMAIN s : i \in DOMAIN t /\ t[i] = s[i]
             /\ \A i \in DOMAIN t : t[i].item = "frame" => KeyOf[t[i].ev] = g.key
             /\ HeaderFirstAndOnce(t)
  <2>1. Len(items) = 1 /\ items[1] \in {Frame(e, operator), Torn} /\ Len(s) \in Nat /\ DOMAIN s = 1..Len(s)
    BY <1>1
  <2>2. /\ t \in Seq(Item) /\ Len(t) = Len(s) + 1
        /\ \A i \in 1..Len(s) : t[i] = s[i]
        /\ t[Len(s) + 1] \in {Frame(e, operator), Torn}
    BY <1>4, <2>1 DEF Appended
  <2>3. DOMAIN t = 1..(Len(s) + 1) /\ Len(s) > 0
    BY <1>1, <1>4, <2>2
  <2> HIDE DEF s, t
  <2>4. \A i \in DOMAIN t : i \in 1..Len(s) \/ i = Len(s) + 1
    BY <2>1, <2>3
  <2>5. \A i \in DOMAIN t : t[i].item = "frame" => KeyOf[t[i].ev] = g.key
    BY <1>0, <1>1, <1>4, <2>1, <2>2, <2>4
  <2>6. HeaderFirstAndOnce(t)
    <3> SUFFICES ASSUME \A i \in DOMAIN t : t[i] # Torn
                 PROVE  t[1] = Header /\ \A i \in DOMAIN t : i > 1 => t[i] # Header
      BY DEF HeaderFirstAndOnce
    <3>1. \A i \in DOMAIN s : s[i] # Torn
      BY <2>1, <2>2, <2>3
    <3>2. s[1] = Header /\ \A i \in DOMAIN s : i > 1 => s[i] # Header
      BY <1>1, <1>4, <3>1 DEF HeaderFirstAndOnce
    <3> QED BY <1>0, <2>1, <2>2, <2>3, <2>4, <3>2
  <2> QED BY <2>1, <2>2, <2>3, <2>5, <2>6
<1> QED BY <1>2, <1>3, <1>4 DEF Wrote

LEMMA Inductive == Spec => []Inv
<1>1. Init => Inv
  <2> SUFFICES ASSUME Init PROVE Inv
    OBVIOUS
  <2> USE CaptureAssumption DEF Init
  <2>1. TypeOK
    <3>1. disk \in [File -> Seq(Item)]
      OBVIOUS
    <3>2. /\ paths \in [Key -> File \cup {NoFile}] /\ opened \in [Key -> File \cup {NoFile}]
          /\ \A k \in Key : opened[k] \in {paths[k], NoFile}
      OBVIOUS
    <3> QED BY <3>1, <3>2 DEF TypeOK
  <2>2. PathsNameTheirKey /\ FramesAreOfTheKey /\ OpenedHasContent /\ AnsweredWritten
    BY DEF PathsNameTheirKey, FramesAreOfTheKey, OpenedHasContent, AnsweredWritten
  <2>3. \A f \in File : HeaderFirstAndOnce(disk[f])
    BY DEF HeaderFirstAndOnce
  <2> QED BY <2>1, <2>2, <2>3 DEF Inv
<1>2. ASSUME Inv, [Next]_vars PROVE Inv'
  <2> USE <1>2, CaptureAssumption
  <2>0. /\ paths \in [Key -> File \cup {NoFile}] /\ opened \in [Key -> File \cup {NoFile}]
        /\ disk \in [File -> Seq(Item)]
        /\ answered \subseteq [ev : Event, operator : BOOLEAN, path : File]
        /\ asked \subseteq [ev : Event, operator : BOOLEAN] /\ panicked \in BOOLEAN
    BY DEF Inv, TypeOK, Item
  <2>1. ASSUME NEW e \in Event, NEW operator \in BOOLEAN, WriteLocked(e, operator),
               asked' = asked \cup {[ev |-> e, operator |-> operator]}
        PROVE  Inv'
    <3> DEFINE f == PathFor(e, operator)
               key == KeyOf[e]
    <3>1. f \in File /\ f.key = key /\ Wrote(e, operator, f)
      BY <2>1, WriteStep
    <3> HIDE DEF f
    <3>2. key \in Key /\ f # NoFile
      BY <3>1
    <3>3. \A g \in File :
            /\ \A i \in DOMAIN disk[g] : i \in DOMAIN disk'[g] /\ disk'[g][i] = disk[g][i]
            /\ \A i \in DOMAIN disk'[g] : disk'[g][i].item = "frame" => KeyOf[disk'[g][i].ev] = g.key
            /\ HeaderFirstAndOnce(disk'[g])
      BY <2>1, <3>1, FileStep
    <3>4. disk' \in [File -> Seq(Item)]
      BY <3>1 DEF Wrote
    <3>5. \A g \in File : disk[g] # <<>> => disk'[g] # <<>>
      <4> SUFFICES ASSUME NEW g \in File, disk[g] # <<>> PROVE disk'[g] # <<>>
        OBVIOUS
      <4>1. 1 \in DOMAIN disk[g]
        BY <2>0
      <4> QED BY <3>3, <4>1
    <3>6. TypeOK'
      <4>1. answered' \subseteq [ev : Event, operator : BOOLEAN, path : File]
        BY <2>0, <3>1 DEF Wrote
      <4>2. panicked' \in BOOLEAN /\ asked' \subseteq [ev : Event, operator : BOOLEAN]
        BY <2>0, <2>1, <3>1 DEF Wrote
      <4>3. /\ paths' \in [Key -> File \cup {NoFile}]
            /\ opened' \in [Key -> File \cup {NoFile}]
            /\ \A k \in Key : opened'[k] \in {paths'[k], NoFile}
        <5>1. CASE UNCHANGED <<paths, opened>>
          BY <2>0, <5>1 DEF Inv, TypeOK
        <5>2. CASE paths' = [paths EXCEPT ![key] = f] /\ opened' = [opened EXCEPT ![key] = f]
          <6>1. \A k \in Key : opened[k] \in {paths[k], NoFile}
            BY DEF Inv, TypeOK
          <6> QED BY <2>0, <3>1, <3>2, <5>2, <6>1
        <5> QED BY <3>1, <5>1, <5>2 DEF Wrote
      <4> QED BY <3>4, <4>1, <4>2, <4>3 DEF TypeOK, Item
    <3>7. PathsNameTheirKey' /\ OpenedHasContent'
      <4>1. CASE UNCHANGED <<paths, opened>>
        BY <2>0, <3>5, <4>1 DEF Inv, PathsNameTheirKey, OpenedHasContent
      <4>2. CASE /\ paths' = [paths EXCEPT ![key] = f] /\ opened' = [opened EXCEPT ![key] = f]
                 /\ disk'[f] # <<>>
        <5>1. PathsNameTheirKey'
          BY <2>0, <3>1, <3>2, <4>2 DEF Inv, PathsNameTheirKey
        <5>2. OpenedHasContent'
          BY <2>0, <3>1, <3>2, <3>5, <4>2 DEF Inv, OpenedHasContent
        <5> QED BY <5>1, <5>2
      <4> QED BY <3>1, <4>1, <4>2 DEF Wrote
    <3>8. AnsweredWritten'
      <4> SUFFICES ASSUME NEW a \in answered'
                   PROVE  \E i \in DOMAIN disk'[a.path] : disk'[a.path][i] = Frame(a.ev, a.operator)
        BY DEF AnsweredWritten
      <4>1. CASE a \in answered
        <5>1. PICK i \in DOMAIN disk[a.path] : disk[a.path][i] = Frame(a.ev, a.operator)
          BY <4>1 DEF Inv, AnsweredWritten
        <5>2. a.path \in File
          BY <2>0, <4>1
        <5> QED BY <3>3, <5>1, <5>2
      <4>2. CASE /\ a = [ev |-> e, operator |-> operator, path |-> f]
                 /\ \E i \in DOMAIN disk'[f] : disk'[f][i] = Frame(e, operator)
        BY <4>2
      <4> QED BY <3>1, <4>1, <4>2 DEF Wrote
    <3>9. FramesAreOfTheKey' /\ \A g \in File : HeaderFirstAndOnce(disk'[g])
      BY <3>3 DEF FramesAreOfTheKey
    <3> QED BY <3>6, <3>7, <3>8, <3>9 DEF Inv
  <2>2. ASSUME UNCHANGED <<disk, answered>>,
               \A k \in Key : paths'[k] \in {paths[k], NoFile} /\ opened'[k] \in {opened[k], NoFile},
               TypeOK'
        PROVE  Inv'
    BY <2>2 DEF Inv, PathsNameTheirKey, FramesAreOfTheKey, OpenedHasContent, AnsweredWritten, Frames
  <2>3. ASSUME NEW e \in Event, MaybeCapture(e) PROVE Inv'
    <3>1. asked' = asked \cup {[ev |-> e, operator |-> FALSE]}
      BY <2>3 DEF MaybeCapture
    <3>2. CASE UNCHANGED <<paths, opened, disk, answered, panicked>>
      <4>1. TypeOK'
        <5>1. asked' \subseteq [ev : Event, operator : BOOLEAN]
          <6>1. [ev |-> e, operator |-> FALSE] \in [ev : Event, operator : BOOLEAN]
            BY Zenon
          <6> QED BY <2>0, <3>1, <6>1, Zenon
        <5> QED BY <2>0, <3>2, <5>1 DEF Inv, TypeOK
      <4> QED BY <2>2, <3>2, <4>1
    <3>3. CASE WriteLocked(e, FALSE)
      BY <2>1, <3>1, <3>3
    <3> QED BY <2>3, <3>2, <3>3 DEF MaybeCapture
  <2>4. ASSUME NEW e \in Event, CaptureNow(e) PROVE Inv'
    BY <2>1, <2>4 DEF CaptureNow
  <2>5. CASE Close \/ Restart \/ UNCHANGED vars
    BY <2>0, <2>2, <2>5 DEF Close, Restart, vars, Inv, TypeOK
  <2> QED BY <2>3, <2>4, <2>5 DEF Next
<1> QED BY <1>1, <1>2, PTL DEF Spec

\* Every path handed to the sink, and so every pcap_path in events.jsonl, is that
\* of a file with the event's frame in it, whole, or cut at SnapLen bytes and
\* saying so, and with no frame of another address, whatever writes failed
\* (ondemand.go:117-169, pcap.go:57-79).
THEOREM AnswersAreOnDisk == Spec => []AnsweredOnDisk
<1>1. Inv => AnsweredOnDisk
  <2> SUFFICES ASSUME Inv, NEW a \in answered
               PROVE  /\ OnDisk(a)
                      /\ \A x \in Frames(a.path) : KeyOf[x.ev] = KeyOf[a.ev]
    BY DEF AnsweredOnDisk
  <2> DEFINE x == Frame(a.ev, a.operator)
  <2>1. a.path \in File /\ a.ev \in Event /\ a.operator \in BOOLEAN
    BY DEF Inv, TypeOK
  <2>2. /\ x.item = "frame" /\ x.ev = a.ev /\ x.operator = a.operator
        /\ x.caplen = x.bytes
        /\ x.len = PayloadLen[[ev |-> a.ev, operator |-> a.operator]]
        /\ x.bytes = x.len \/ (x.bytes = SnapLen /\ x.len > SnapLen)
    BY <2>1, FrameFacts
  <2>3. \E i \in DOMAIN disk[a.path] : disk[a.path][i] = x
    BY DEF Inv, AnsweredWritten
  <2> HIDE DEF x
  <2>4. x \in Frames(a.path)
    BY <2>2, <2>3 DEF Frames, ToSet
  <2>5. \A y \in Frames(a.path) : KeyOf[y.ev] = a.path.key
    BY <2>1 DEF Inv, FramesAreOfTheKey, Frames, ToSet
  <2> QED BY <2>2, <2>4, <2>5 DEF OnDisk
<1> QED BY <1>1, Inductive, PTL

\* A file in which every write succeeded has one global header, at its start
\* (pcap.go:88-112).
THEOREM FilesAreReadable == Spec => []ReadableUnlessTorn
<1>1. Inv => ReadableUnlessTorn
  <2> SUFFICES ASSUME Inv, NEW f \in File, disk[f] # <<>>, ~Contains(disk[f], Torn)
               PROVE  Head(disk[f]) = Header /\ ~Contains(Tail(disk[f]), Header)
    BY DEF ReadableUnlessTorn
  <2> DEFINE s == disk[f]
  <2>1. s \in Seq(Item) /\ HeaderFirstAndOnce(s)
    BY DEF Inv, TypeOK, Item
  <2> HIDE DEF s
  <2>2. DOMAIN s = 1..Len(s) /\ Len(s) \in Nat
    BY <2>1
  <2>3. s[1] = Header /\ \A i \in DOMAIN s : i > 1 => s[i] # Header
    BY <2>1, <2>2 DEF HeaderFirstAndOnce, Contains, s
  <2>4. Head(s) = s[1] /\ Len(Tail(s)) = Len(s) - 1 /\ \A i \in 1..Len(Tail(s)) : Tail(s)[i] = s[i + 1]
    BY <2>1, HeadTailProperties DEF s
  <2>5. \A i \in 1..Len(Tail(s)) : Tail(s)[i] # Header
    BY <2>2, <2>3, <2>4
  <2> QED BY <2>3, <2>4, <2>5 DEF Contains, s
<1> QED BY <1>1, Inductive, PTL

\* Between two starts an address keeps the file it got first, and that file is
\* open whenever a capture is answered with it (ondemand.go:126-147).
THEOREM AddressesKeepTheirFile == Spec => OneFilePerAddress
<1> DEFINE Step == \A a \in answered' \ answered :
                     LET k == KeyOf[a.ev]
                     IN  /\ a.path = paths'[k] /\ a.path = opened'[k]
                         /\ paths[k] \in {a.path, NoFile}
<1>1. ASSUME Inv, [Next]_vars PROVE [Step]_vars
  <2>1. ASSUME NEW e \in Event, NEW operator \in BOOLEAN, WriteLocked(e, operator) PROVE Step
    <3>1. Wrote(e, operator, PathFor(e, operator))
      BY <1>1, <2>1, WriteStep
    <3> QED BY <3>1 DEF Wrote
  <2>2. CASE answered' = answered
    BY <2>2
  <2> QED BY <1>1, <2>1, <2>2 DEF Next, MaybeCapture, CaptureNow, Close, Restart
<1> QED BY <1>1, Inductive, PTL DEF Spec, OneFilePerAddress
=============================================================================
