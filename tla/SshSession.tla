----------------------------- MODULE SshSession -----------------------------
(***************************************************************************)
(* One session channel of the ssh decoy (internal/decoys/ssh/ssh.go,       *)
(* shell.go), the only one of its connection.  Two goroutines share a      *)
(* VirtualFS without a lock: the shell loop reads lines the peer types,    *)
(* the request loop serves one "exec".  Each reports a command before it   *)
(* runs it, and runs it in two steps, since the other may be inside        *)
(* VirtualFS.Execute at the same time.  In front of both stands the mux of *)
(* x/crypto/ssh, one goroutine that hands on what the peer sends in order  *)
(* and waits while the queue of requests is full.                          *)
(*                                                                         *)
(* A path is a sequence of names; commands other than cd, touch and those  *)
(* that read a file are "other"; "blank" is an empty line, or a request    *)
(* shorter than it says.  Requests of other kinds, which the request loop  *)
(* answers and drops, and what commands print are left out.                *)
(***************************************************************************)
EXTENDS Naturals, Sequences, FiniteSets, SequencesExt

CONSTANTS
  Command,      \* the commands the peer may send
  Length,       \* Command -> its length in bytes
  CutOf,        \* Command -> what its first Length % 256 bytes say
  Name,         \* names in paths, Up and Dot among them
  Up, Dot,      \* ".." and "."
  Torn,         \* stands for a string read while another goroutine writes it
  Home,         \* the argument of a plain `cd` and of `cd ~`
  HomeDir,      \* /root
  Seeds,        \* the paths NewVirtualFS seeds
  ReqCap,       \* requests the library queues for a channel: 16
  MaxInputs     \* bound of the model: lines and requests the peer sends

Path == [abs : BOOLEAN, parts : Seq(Name)]
Ops == {"cd", "touch", "read", "exit", "other", "blank"}

ASSUME SessionAssumption ==
  /\ \A c \in Command : /\ c.op \in Ops /\ c.sudo \in BOOLEAN
                        /\ c.path \in Path \/ (c.op = "cd" /\ c.path = Home)
  /\ Length \in [Command -> Nat]
  /\ CutOf \in [Command -> Command]
  /\ {Up, Dot} \subseteq Name /\ Torn \notin Name
  /\ HomeDir \in Seq(Name) /\ Seeds \subseteq Seq(Name)
  /\ ReqCap \in Nat \ {0} /\ MaxInputs \in Nat

VARIABLES
  wire,       \* what the peer has sent and the library's mux has not handed on
  typed,      \* lines on their way to the shell loop
  requested,  \* exec requests on their way to the request loop
  over,       \* the peer has closed the channel, or the connection is gone
  at,         \* goroutine -> control point
  cmd,        \* goroutine -> the command it works on
  sees,       \* goroutine -> what it may find in cwd while inside Execute
  cwd, files, \* the VirtualFS: files maps a path to what it holds
  reported,   \* commands reported, in order
  ran,        \* commands executed, in order, with whether cwd changed under them
  sent,       \* what the peer sent, in order
  crashed     \* the runtime ended the process

vars == <<wire, typed, requested, over, at, cmd, sees, cwd, files, reported, ran, sent, crashed>>
input == <<wire, typed, requested, over, sent>>
fs == <<cwd, files, ran, sees>>

Loops == {"shell", "exec"}
Nothing == [op |-> "none"]

-----------------------------------------------------------------------------
(* VirtualFS *)

\* resolvePath, in the working directory d.
Resolve(d, p) == IF p.abs THEN p.parts ELSE d \o p.parts

\* Mutant: ".." goes to the root.
Cd_UpToRoot(d, p) ==
  CASE p = Home -> HomeDir
    [] p # Home /\ p.parts = <<Up>> /\ ~p.abs -> <<>>
    [] OTHER -> Resolve(d, p)

\* cd: only a bare ".." goes up; any other name is appended as it is.
Cd(d, p) ==
  CASE p = Home -> HomeDir
    [] p # Home /\ p.parts = <<Up>> /\ ~p.abs -> IF d = <<>> THEN <<>> ELSE Front(d)
    [] OTHER -> Resolve(d, p)

\* touch: a file that exists is left alone.
Touch(f) == [p \in DOMAIN files \cup {f} |-> IF p \in DOMAIN files THEN files[p] ELSE "empty"]

\* Execute finds d in cwd; sudo runs the rest of the line the same way.
Execute(c, d) ==
  /\ cwd' = IF c.op = "cd" THEN Cd(d, c.path) ELSE cwd
  /\ files' = IF c.op = "touch" THEN Touch(Resolve(d, c.path)) ELSE files

\* Execute reads the map of files, or may write to it.
UsesFiles(l) == cmd[l].op \in {"touch", "read"}
WritesFiles(l) ==
  cmd[l].op = "touch" /\ \E d \in sees[l] : Resolve(d, cmd[l].path) \notin DOMAIN files

-----------------------------------------------------------------------------
Init ==
  /\ wire = <<>> /\ typed = <<>> /\ requested = <<>> /\ over = FALSE /\ sent = <<>>
  /\ at = [l \in Loops |-> IF l = "shell" THEN "answer" ELSE "read"]   \* the banner
  /\ cmd = [l \in Loops |-> Nothing]
  /\ cwd = HomeDir /\ sees = [l \in Loops |-> {}]
  /\ files = [p \in Seeds |-> "seed"]
  /\ reported = <<>> /\ ran = <<>>
  /\ crashed = FALSE

\* The peer types a line, or asks for an exec.
Send(c, l) ==
  /\ ~over /\ Len(sent) < MaxInputs
  /\ wire' = Append(wire, [cmd |-> c, to |-> l])
  /\ sent' = Append(sent, [cmd |-> c, to |-> l])
  /\ UNCHANGED <<typed, requested, over, at, cmd, fs, reported, crashed>>

\* The peer closes, or the connection breaks or is at its deadline, and what is
\* still on the way is lost.
PeerCloses ==
  /\ ~over
  /\ over' = TRUE
  /\ wire' \in {wire, <<>>}
  /\ UNCHANGED <<typed, requested, at, cmd, fs, reported, sent, crashed>>

\* The mux hands on the next line or request.
Deliver ==
  /\ wire # <<>>
  /\ wire' = Tail(wire)
  /\ \/ /\ Head(wire).to = "shell"
        /\ typed' = Append(typed, Head(wire).cmd)
        /\ UNCHANGED requested
     \/ /\ Head(wire).to = "exec" /\ Len(requested) < ReqCap
        /\ requested' = Append(requested, Head(wire).cmd)
        /\ UNCHANGED typed
  /\ UNCHANGED <<over, at, cmd, fs, reported, sent, crashed>>

\* The mux has told both loops of the end.
Ended == over /\ wire = <<>>

\* The shell loop's ReadString: a line; an empty one is only prompted after.
ReadLine ==
  /\ at["shell"] = "read" /\ typed # <<>>
  /\ typed' = Tail(typed)
  /\ IF Head(typed).op = "blank"
       THEN UNCHANGED <<cmd, at>>
       ELSE /\ cmd' = [cmd EXCEPT !["shell"] = Head(typed)]
            /\ at' = [at EXCEPT !["shell"] = "report"]
  /\ UNCHANGED <<wire, requested, over, sent, fs, reported, crashed>>

\* The length of an exec request is taken from the last of its four bytes.
Received(c) == IF Length[c] < 256 THEN c ELSE CutOf[c]

\* Mutant: after a blank request the loop goes on with the next one.
ReadRequest_SkipsBlank ==
  /\ at["exec"] = "read" /\ requested # <<>>
  /\ requested' = Tail(requested)
  /\ cmd' = [cmd EXCEPT !["exec"] = Received(Head(requested))]
  /\ at' = [at EXCEPT !["exec"] = IF Head(requested).op = "blank" THEN "read" ELSE "report"]
  /\ UNCHANGED <<wire, typed, over, sent, fs, reported, crashed>>

\* The request loop: an exec, answered even when there is no command in it.
ReadRequest ==
  /\ at["exec"] = "read" /\ requested # <<>>
  /\ requested' = Tail(requested)
  /\ IF Head(requested).op = "blank"
       THEN /\ at' = [at EXCEPT !["exec"] = "done"]
            /\ UNCHANGED cmd
       ELSE /\ cmd' = [cmd EXCEPT !["exec"] = Received(Head(requested))]
            /\ at' = [at EXCEPT !["exec"] = "report"]
  /\ UNCHANGED <<wire, typed, over, sent, fs, reported, crashed>>

\* Mutant: the shell loop takes the end of its input for an empty line.
EndOfInput_OnlyExec(l) ==
  /\ l = "exec" /\ at[l] = "read" /\ Ended /\ requested = <<>>
  /\ at' = [at EXCEPT ![l] = "done"]
  /\ UNCHANGED <<input, cmd, fs, reported, crashed>>

\* End of input ends either loop, once the mux comes to it.
EndOfInput(l) ==
  /\ at[l] = "read" /\ Ended
  /\ (IF l = "shell" THEN typed ELSE requested) = <<>>
  /\ at' = [at EXCEPT ![l] = "done"]
  /\ UNCHANGED <<input, cmd, fs, reported, crashed>>

\* Mutant: what sudo runs is not reported.
Report_NotSudo(l) ==
  /\ at[l] = "report"
  /\ reported' = IF cmd[l].sudo THEN reported ELSE Append(reported, [cmd |-> cmd[l], by |-> l])
  /\ at' = [at EXCEPT ![l] = "run"]
  /\ UNCHANGED <<input, cmd, fs, crashed>>

\* recordCommand; a line that says exit ends the shell loop there.
Report(l) ==
  /\ at[l] = "report"
  /\ reported' = Append(reported, [cmd |-> cmd[l], by |-> l])
  /\ at' = [at EXCEPT ![l] =
              IF l = "shell" /\ cmd[l].op = "exit" /\ ~cmd[l].sudo THEN "done" ELSE "run"]
  /\ UNCHANGED <<input, cmd, fs, crashed>>

\* Execute is entered.
Enter(l) ==
  /\ at[l] = "run"
  /\ at' = [at EXCEPT ![l] = "inside"]
  /\ sees' = [sees EXCEPT ![l] = {cwd}]
  /\ UNCHANGED <<input, cmd, cwd, files, ran, reported, crashed>>

\* Execute has read cwd, perhaps while the other loop changed it, and takes effect;
\* its own change is seen by the other if that is inside.
Land(l) ==
  /\ at[l] = "inside"
  /\ \E d \in sees[l] : Execute(cmd[l], d)
  /\ ran' = Append(ran, [cmd |-> cmd[l], by |-> l, raced |-> Cardinality(sees[l]) > 1])
  /\ sees' = [k \in Loops |-> CASE k = l -> {}
                               [] k # l /\ (sees[k] = {} \/ cmd[l].op # "cd") -> sees[k]
                               [] OTHER -> sees[k] \cup {cwd', <<Torn>>}]
  /\ at' = [at EXCEPT ![l] = "answer"]
  /\ UNCHANGED <<input, cmd, reported, crashed>>

\* Both loops inside Execute, one writing the map the other uses: the runtime may
\* notice and end the process.  Or a cd cuts one directory's name at the last
\* slash of another's (shell.go:108-112), out of its bounds.
Collide ==
  /\ \/ /\ \A l \in Loops : at[l] = "inside" /\ UsesFiles(l)
        /\ \E l \in Loops : WritesFiles(l)
     \/ \E l \in Loops : /\ at[l] = "inside" /\ Cardinality(sees[l]) > 1
                         /\ cmd[l].op = "cd" /\ cmd[l].path # Home
  /\ crashed' = TRUE
  /\ UNCHANGED <<input, at, cmd, fs, reported>>

\* The answer is written, when the peer has room for it, or fails; one exec ends
\* the request loop.
Answer(l) ==
  /\ at[l] = "answer"
  /\ cmd' = [cmd EXCEPT ![l] = Nothing]
  /\ at' = [at EXCEPT ![l] = IF l = "shell" THEN "read" ELSE "done"]
  /\ UNCHANGED <<input, fs, reported, crashed>>

Loop(l) == EndOfInput(l) \/ Report(l) \/ Enter(l) \/ Land(l)

Next ==
  /\ ~crashed
  /\ \/ \E c \in Command, l \in Loops : Send(c, l)
     \/ PeerCloses \/ Deliver
     \/ ReadLine \/ ReadRequest
     \/ \E l \in Loops : Loop(l) \/ Answer(l)
     \/ Collide

Spec == Init /\ [][Next]_vars

\* The goroutines run on, the library's too; the peer need neither send nor make
\* room for an answer, but a write fails once the mux has told of the end.
FairSpec ==
  /\ Spec
  /\ WF_vars(~crashed /\ Deliver)
  /\ WF_vars(~crashed /\ (ReadLine \/ Loop("shell") \/ (Ended /\ Answer("shell"))))
  /\ WF_vars(~crashed /\ (ReadRequest \/ Loop("exec") \/ (Ended /\ Answer("exec"))))

-----------------------------------------------------------------------------
(* Path resolution as Unix has it. *)

Normal(parts) ==
  FoldLeft(LAMBDA d, n : CASE n = Dot -> d
                           [] n = Up -> IF d = <<>> THEN d ELSE Front(d)
                           [] OTHER -> Append(d, n),
           <<>>, parts)

UnixPath(dir, p) == Normal(IF p.abs THEN p.parts ELSE dir \o p.parts)

UnixCwd ==
  FoldLeft(LAMBDA d, r : IF r.cmd.op # "cd" THEN d
                         ELSE IF r.cmd.path = Home THEN HomeDir
                         ELSE UnixPath(d, r.cmd.path),
           HomeDir, ran)

\* A path with no dot in it, or the bare "..".
Plain(p) ==
  p = Home \/ (~p.abs /\ p.parts = <<Up>>) \/ ~(Contains(p.parts, Up) \/ Contains(p.parts, Dot))

CommandsOf(l, seq) ==
  LET own == SelectSeq(seq, LAMBDA r : r.by = l) IN [i \in DOMAIN own |-> own[i].cmd]

\* Nothing runs in the decoy's shell that telemetry was not told of first: what
\* a loop has run is, in order, what it has reported, but for the command in its
\* hands (ssh.go:146-147, 175-181).
RunsAreReported ==
  \A l \in Loops :
    LET told == CommandsOf(l, reported)
        done == CommandsOf(l, ran)
    IN  IsPrefix(done, told) /\ Len(told) <= Len(done) + 1

\* What the loops report is what the peer sent them, in its order and none twice:
\* of the lines those that are not blank, of the exec requests the first alone,
\* as its length byte cuts it (ssh.go:135-158, 164-175).
ReportsFollowInput ==
  LET to(l) == SelectSeq(sent, LAMBDA s : s.to = l)
      lines == SelectSeq(to("shell"), LAMBDA s : s.cmd.op # "blank")
      told(l) == CommandsOf(l, reported)
  IN  /\ Len(told("shell")) <= Len(lines)
      /\ \A i \in DOMAIN told("shell") : told("shell")[i] = lines[i].cmd
      /\ told("exec") # <<>> =>
           /\ Len(told("exec")) = 1
           /\ to("exec")[1].cmd.op # "blank"
           /\ told("exec")[1] = Received(to("exec")[1].cmd)

\* A cd that leads where Unix leads from whatever directory; and one that does if
\* it starts where Unix is.
Resets(r) == ~r.raced /\ r.cmd.op = "cd" /\ Plain(r.cmd.path)
               /\ (r.cmd.path = Home \/ r.cmd.path.abs)
Follows(r) == r.cmd.op = "cd" => ~r.raced /\ Plain(r.cmd.path)

\* The decoy's working directory is the one a Unix shell would be in, while paths
\* are plain and no cd runs into one of the other loop: two that overlap may lose
\* or tear a change, since nothing guards cwd, and only the next cd to an absolute
\* path, alone, sets it right (shell.go:100-129).
CwdFollowsUnix ==
  (\E k \in 0..Len(ran) : /\ k = 0 \/ Resets(ran[k])
                          /\ \A i \in (k + 1)..Len(ran) : Follows(ran[i])) => cwd = UnixCwd

\* Nobody serves the queue of requests any more, or not before the answer to an exec
\* is written, it is full, and the mux waits with the next one.
Jammed ==
  /\ at["exec"] \in {"answer", "done"}
  /\ wire # <<>> /\ Head(wire).to = "exec" /\ Len(requested) = ReqCap

\* When the peer is gone both goroutines end, but for a session whose request loop
\* has left more requests behind than the library queues: no end of input reaches
\* it then (ssh.go:136, 151-153, 165-171).
LoopsEnd == over ~> \/ crashed \/ Jammed
                    \/ \A l \in Loops : at[l] = "done"
=============================================================================
