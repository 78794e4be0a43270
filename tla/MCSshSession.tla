---------------------------- MODULE MCSshSession ----------------------------
(* Instances of SshSession for TLC. *)
EXTENDS SshSession, TLC

CONSTANTS root, etc, env, tmp

Rel(parts) == [abs |-> FALSE, parts |-> parts]
Abs(parts) == [abs |-> TRUE, parts |-> parts]
Cmd(op, path) == [op |-> op, path |-> path, sudo |-> FALSE]

CdUp == Cmd("cd", Rel(<<Up>>))
CdHome == [Cmd("cd", Home) EXCEPT !.sudo = TRUE]
CdAbs == Cmd("cd", Abs(<<etc, tmp>>))
TouchTmp == Cmd("touch", Rel(<<tmp>>))
Exit == Cmd("exit", Rel(<<>>))
Long == Cmd("other", Rel(<<>>))
Blank == Cmd("blank", Rel(<<>>))

MCCommand == {CdUp, CdHome, CdAbs, TouchTmp, Exit, Long, Blank}

\* One command of 300 bytes, whose first 44 are another command.
MCLength == [c \in Command |-> IF c = Long THEN 300 ELSE 20]
MCCutOf == [c \in Command |-> IF c = Long THEN TouchTmp ELSE c]
MCHomeDir == <<root>>
MCSeeds == {<<root, env>>, <<etc>>}
=============================================================================
