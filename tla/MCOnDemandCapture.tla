-------------------------- MODULE MCOnDemandCapture --------------------------
(* Instances of OnDemandCapture for TLC. *)
EXTENDS OnDemandCapture, TLC

CONSTANTS quiet, loud, late, a, b

\* Two events of one address, a second apart, and one of another address.  The
\* operator's mark "true" is a byte shorter than "false": the payload of quiet
\* always fits a frame of 2 bytes, that of loud only at the operator's wish, that
\* of late never.
MCKeyOf == (quiet :> a) @@ (loud :> a) @@ (late :> b)
MCThreatScore == (quiet :> 1) @@ (loud :> 2) @@ (late :> 3)
MCSecond == (quiet :> 0) @@ (loud :> 1) @@ (late :> 1)
MCPayloadLen ==
  [c \in [ev : Event, operator : BOOLEAN] |->
     MCThreatScore[c.ev] + (IF c.operator THEN 0 ELSE 1)]
=============================================================================
