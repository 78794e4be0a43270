-------------------------- MODULE OnDemandCapture --------------------------
(***************************************************************************)
(* On-demand forensic captures (internal/pcap/ondemand.go, pcap.go): the   *)
(* sink offers every event to MaybeCapture, the operator's `p` key calls   *)
(* CaptureNow, both append a frame to one libpcap file per remote address, *)
(* and main closes the files on its way out.  Every call holds the hook's  *)
(* mutex to its end, so one action is one call; what a failing disk leaves *)
(* behind is one of its outcomes.                                          *)
(***************************************************************************)
EXTENDS Naturals, Sequences, SequencesExt

CONSTANTS
  Event,        \* the events captures are asked for
  Key,          \* sanitized remote addresses, "unknown" among them
  KeyOf,        \* Event -> Key: sanitizeIP of its RemoteIP
  ThreatScore,  \* Event -> Nat
  Second,       \* Event -> the second of its timestamp
  Threshold,    \* score gate of MaybeCapture
  PayloadLen,   \* event, by the operator -> bytes of the JSON written about it
  SnapLen,      \* bytes of a payload a frame holds at most, 65535
  MaxItems,     \* bound of the model: items written to all files
  NoFile

File == [prefix : {"highscore", "operator"}, key : Key, second : {Second[e] : e \in Event}]

ASSUME CaptureAssumption ==
  /\ KeyOf \in [Event -> Key]
  /\ ThreatScore \in [Event -> Nat]
  /\ Second \in [Event -> Nat]
  /\ Threshold \in Nat \ {0} /\ MaxItems \in Nat
  /\ NoFile \notin File
  /\ PayloadLen \in [[ev : Event, operator : BOOLEAN] -> Nat] /\ SnapLen \in Nat

\* What a file consists of: the global header, frames, and what a failed write
\* leaves.  A frame's own header says how long the payload was and how many bytes
\* of it follow.
Header == [item |-> "header"]
Torn == [item |-> "torn"]
FrameItem == [item : {"frame"}, ev : Event, operator : BOOLEAN,
              len : Nat, caplen : Nat, bytes : Nat]
Item == {Header, Torn} \cup FrameItem

VARIABLES
  paths,     \* OnDemandCapture.paths
  opened,    \* OnDemandCapture.opened, NoFile where the map has no entry
  disk,      \* File -> what was written: headers, frames, pieces of either
  asked,     \* calls made: which event, and whether by the operator
  answered,  \* calls answered with Triggered and a path
  panicked   \* a nil CaptureFile was written to

vars == <<paths, opened, disk, asked, answered, panicked>>

Init ==
  /\ paths = [k \in Key |-> NoFile]
  /\ opened = [k \in Key |-> NoFile]
  /\ disk = [f \in File |-> <<>>]
  /\ asked = {} /\ answered = {}
  /\ panicked = FALSE

PathFor_PerSecond(e, operator) ==
  [prefix |-> IF operator THEN "operator" ELSE "highscore",
   key |-> KeyOf[e], second |-> Second[e]]

\* The first capture of an address names the file all later ones go to.
PathFor(e, operator) ==
  IF paths[KeyOf[e]] # NoFile
    THEN paths[KeyOf[e]]
    ELSE [prefix |-> IF operator THEN "operator" ELSE "highscore",
          key |-> KeyOf[e], second |-> Second[e]]

OpenedContent_HeaderAlways(f) == Append(disk[f], Header)

\* OpenCapture: an empty file gets the global header, another one is continued.
OpenedContent(f) == IF disk[f] = <<>> THEN <<Header>> ELSE disk[f]

\* MkdirAll, Stat or the open failed, or the header could not be written, which
\* may leave a piece of it.
NotOpened(f) ==
  /\ \/ UNCHANGED disk
     \/ disk[f] = <<>> /\ disk' = [disk EXCEPT ![f] = <<Torn>>]
  /\ UNCHANGED <<paths, opened, answered, panicked>>

Frame_CutUnsaid(e, operator) ==
  LET n == PayloadLen[[ev |-> e, operator |-> operator]]
      capLen == IF n > SnapLen THEN SnapLen ELSE n
  IN  [item |-> "frame", ev |-> e, operator |-> operator,
       len |-> capLen, caplen |-> capLen, bytes |-> capLen]

\* WritePacket: a payload is cut at SnapLen bytes, without an error.
Frame(e, operator) ==
  LET n == PayloadLen[[ev |-> e, operator |-> operator]]
      capLen == IF n > SnapLen THEN SnapLen ELSE n
  IN  [item |-> "frame", ev |-> e, operator |-> operator,
       len |-> n, caplen |-> capLen, bytes |-> capLen]

\* The frame is appended to `content`, or only a piece of it, or nothing.
WriteFrame_ErrorIgnored(e, operator, f, content) ==
  /\ disk' \in {[disk EXCEPT ![f] = content \o tail] : tail \in {<<Frame(e, operator)>>, <<Torn>>, <<>>}}
  /\ answered' = answered \cup {[ev |-> e, operator |-> operator, path |-> f]}
  /\ UNCHANGED panicked

WriteFrame(e, operator, f, content) ==
  /\ \/ /\ disk' = [disk EXCEPT ![f] = Append(content, Frame(e, operator))]
        /\ answered' = answered \cup {[ev |-> e, operator |-> operator, path |-> f]}
     \/ /\ disk' \in {[disk EXCEPT ![f] = content \o tail] : tail \in {<<Torn>>, <<>>}}
        /\ UNCHANGED answered
  /\ UNCHANGED panicked

\* writeLocked.
WriteLocked(e, operator) ==
  LET key == KeyOf[e]
      f == PathFor(e, operator)
  IN  \/ /\ paths[key] = NoFile
         /\ NotOpened(f)
      \/ /\ paths[key] = NoFile
         /\ paths' = [paths EXCEPT ![key] = f]
         /\ opened' = [opened EXCEPT ![key] = f]
         /\ WriteFrame(e, operator, f, OpenedContent(f))
      \/ /\ paths[key] # NoFile /\ opened[key] # NoFile
         /\ WriteFrame(e, operator, f, disk[f])
         /\ UNCHANGED <<paths, opened>>
      \/ /\ paths[key] # NoFile /\ opened[key] = NoFile
         /\ panicked' = TRUE
         /\ UNCHANGED <<paths, opened, disk, answered>>

MaybeCapture(e) ==
  /\ ~panicked
  /\ asked' = asked \cup {[ev |-> e, operator |-> FALSE]}
  /\ IF ThreatScore[e] < Threshold
       THEN UNCHANGED <<paths, opened, disk, answered, panicked>>
       ELSE WriteLocked(e, FALSE)

CaptureNow(e) ==
  /\ ~panicked
  /\ asked' = asked \cup {[ev |-> e, operator |-> TRUE]}
  /\ WriteLocked(e, TRUE)

\* The files are closed and forgotten; their paths are remembered.
Close ==
  /\ ~panicked
  /\ opened' = [k \in Key |-> NoFile]
  /\ UNCHANGED <<paths, disk, asked, answered, panicked>>

\* Another `shinkiro up` on the same directory.
Restart ==
  /\ paths' = [k \in Key |-> NoFile]
  /\ opened' = [k \in Key |-> NoFile]
  /\ panicked' = FALSE
  /\ UNCHANGED <<disk, asked, answered>>

RoomLeft == MapThenSumSet(LAMBDA f : Len(disk[f]), File) < MaxItems
Next ==
  \/ \E e \in Event : RoomLeft /\ (MaybeCapture(e) \/ CaptureNow(e))
  \/ Close
  \/ Restart

Spec == Init /\ [][Next]_vars

-----------------------------------------------------------------------------
Frames(f) == {x \in ToSet(disk[f]) : x.item = "frame"}

\* The file of an answer holds the frame of its event and trigger; the frame says
\* how many bytes follow, and how many there were: all of them, or, of a payload
\* no frame can hold, the first SnapLen.
OnDisk(a) ==
  \E x \in Frames(a.path) :
    /\ x.ev = a.ev /\ x.operator = a.operator
    /\ x.caplen = x.bytes
    /\ x.len = PayloadLen[[ev |-> a.ev, operator |-> a.operator]]
    /\ x.bytes = x.len \/ (x.bytes = SnapLen /\ x.len > SnapLen)

TypeOK ==
  /\ paths \in [Key -> File \cup {NoFile}]
  /\ opened \in [Key -> File \cup {NoFile}]
  /\ \A k \in Key : opened[k] \in {paths[k], NoFile}
  /\ disk \in [File -> Seq(Item)]
  /\ asked \subseteq [ev : Event, operator : BOOLEAN]
  /\ answered \subseteq [ev : Event, operator : BOOLEAN, path : File]
  /\ panicked \in BOOLEAN

\* A path handed to the sink, and from there to events.jsonl, names a file that
\* holds the event's frame, whole unless its payload is longer than SnapLen, of
\* which the frame then tells, and no other address's frames
\* (ondemand.go:117-169, pcap.go:57-79).
AnsweredOnDisk ==
  \A a \in answered :
    /\ OnDisk(a)
    /\ \A x \in Frames(a.path) : KeyOf[x.ev] = KeyOf[a.ev]

\* Between a restart and the next one address has one file: a capture is
\* answered with the path the address got first, and that file is open, so the
\* frames of an address are never spread over files (ondemand.go:126-147).
OneFilePerAddress ==
  [][\A a \in answered' \ answered :
       LET k == KeyOf[a.ev]
       IN  /\ a.path = paths'[k] /\ a.path = opened'[k]
           /\ paths[k] \in {a.path, NoFile}]_vars

\* A file in which no write ever failed is a libpcap file: one global header,
\* at its start, however often the process was restarted onto it
\* (pcap.go:88-112).
ReadableUnlessTorn ==
  \A f \in File :
    (disk[f] # <<>> /\ ~Contains(disk[f], Torn)) =>
      /\ Head(disk[f]) = Header
      /\ ~Contains(Tail(disk[f]), Header)

=============================================================================
