------------------------------- MODULE MCSoar -------------------------------
(* Instances of Soar for TLC. *)
EXTENDS Soar, TLC

CONSTANTS a, b, ssh, redis

\* Two rules of one name, of two matches within one second and of three, for one
\* kind and a high score only, within two; and one with a name of its own.
MCRules == <<
  [name |-> "ratelimit", enabled |-> TRUE, kinds |-> {ssh, redis}, minScore |-> 0,
   threshold |-> 2, window |-> 1, then |-> <<"block_ip">>],
  [name |-> "ratelimit", enabled |-> TRUE, kinds |-> {redis}, minScore |-> 2,
   threshold |-> 3, window |-> 2, then |-> <<"alert">>],
  [name |-> "flood", enabled |-> TRUE, kinds |-> {ssh}, minScore |-> 0,
   threshold |-> 2, window |-> 2, then |-> <<>>] >>

\* No rule and no caller names an address.
Addresses == Permutations(IP)
=============================================================================
