----------------------------- MODULE MCHoneynet -----------------------------
(* Instances of Honeynet for TLC. *)
EXTENDS Honeynet, TLC

CONSTANTS ssh, c1, c2, login, command, a

\* One decoy and two connections from one address; the first logs in, which is
\* a quiet event, and may run a command in a session, which is not quiet
\* and whose payload is longer than a frame of 2 bytes takes.
MCPortOf == ssh :> 2222
MCRemoteIP == [e \in Event |-> a]
MCThreatScore == (login :> 1) @@ (command :> 2)
PanicThreatScore == [e \in Event |-> 2]
MCPayloadLen == [c \in [ev : Event, operator : BOOLEAN] |-> IF c.ev = login THEN 1 ELSE 3]
MCSecond == [e \in Event |-> 0]

\* An ISP database, and one of a type lookupPublic does not know by name.
MCDatabase ==
  {[type |-> "isp", supports |-> {"ASN"}, knows |-> (a :> {"asn", "org"})],
   [type |-> "other", supports |-> {"City", "Country"}, knows |-> (a :> {"country", "city"})]}
MCOrigin == (login :> [conn |-> c1, by |-> "handler"])
         @@ (command :> [conn |-> c1, by |-> "session"])
=============================================================================
