---------------------------- MODULE MCMultiplexer ----------------------------
(* Instances of Multiplexer for TLC. *)
EXTENDS Multiplexer, TLC

CONSTANTS ssh, redis, docker, c1, c2, c3

\* ssh and redis on ports of their own, docker configured onto redis's port.
MCPortOf == (ssh :> 2222) @@ (redis :> 6379) @@ (docker :> 6379)
=============================================================================
