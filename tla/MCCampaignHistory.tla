------------------------- MODULE MCCampaignHistory --------------------------
(* Instances of CampaignHistory for TLC. *)
EXTENDS CampaignHistory, TLC

CONSTANTS a, b, ssh, redis

\* The highest score is neither the first nor the last.
MCScoreOf == <<1, 3, 2>>

\* Nothing tells one address from another, nor one decoy from another.
Interchangeable == Permutations(IP) \cup Permutations(Decoy)
=============================================================================
