---------------------------- MODULE MCOperatorTui ----------------------------
(* Instances of OperatorTui for TLC. *)
EXTENDS OperatorTui, TLC

CONSTANTS e1, e2, e3, e4, a, b

\* Two addresses; the second event of each outranks or equals the first.
MCRemoteIP == (e1 :> a) @@ (e2 :> b) @@ (e3 :> a) @@ (e4 :> b)
MCThreatScore == (e1 :> 1) @@ (e2 :> 2) @@ (e3 :> 2) @@ (e4 :> 3)
MCStamp == (e1 :> 0) @@ (e2 :> 1) @@ (e3 :> 1) @@ (e4 :> 2)

\* No earlier run, or one event from it.
MCEarlierFiles == {<<>>} \union {<<e>> : e \in Event}
=============================================================================
