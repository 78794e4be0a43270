-------------------------- MODULE MCEventPipeline --------------------------
(* Instances of EventPipeline for TLC. *)
EXTENDS EventPipeline, TLC

CONSTANTS e1, e2, e3, e4, a, b

\* Two addresses; a quiet, a high, a critical and a pre-mapped critical event.
MCRemoteIP == (e1 :> a) @@ (e2 :> a) @@ (e3 :> b) @@ (e4 :> b)
MCThreatScore == (e1 :> 1) @@ (e2 :> 2) @@ (e3 :> 3) @@ (e4 :> 3)
=============================================================================
