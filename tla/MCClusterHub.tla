---------------------------- MODULE MCClusterHub ----------------------------
(* Instances of ClusterHub for TLC. *)
EXTENDS ClusterHub, TLC

CONSTANTS s1, s2, good, bad

\* One sensor has the hub's token, the other a wrong one.
MCAgentToken == (s1 :> good) @@ (s2 :> bad)

\* A listing with the token in the other header, the same behind an empty bearer
\* token, and a join with a body nobody can decode.
HeaderOnly == [bearer |-> Absent, xToken |-> good]
EmptyBearer == [bearer |-> NoToken, xToken |-> good]
MCVisits == {<<"nodes", "GET", HeaderOnly>>, <<"nodes", "GET", EmptyBearer>>,
             <<"join", "POST", HeaderOnly>>}
=============================================================================
