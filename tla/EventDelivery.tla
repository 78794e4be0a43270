--------------------------- MODULE EventDelivery ---------------------------
(***************************************************************************)
(* What the event path of `shinkiro up` promises to a reader of            *)
(* data/events.jsonl, without saying how: an offered event is either       *)
(* refused on the spot or accepted; accepted events are settled one at a   *)
(* time in the order of acceptance; settling an event records it once or   *)
(* gives it up for good.  EventPipeline is shown to implement this.        *)
(***************************************************************************)
EXTENDS Naturals, Sequences

CONSTANT Event          \* the events decoys can emit, each offered at most once

VARIABLES offered,      \* events some decoy has tried to send
          accepted,     \* those taken in, in order of acceptance
          settled,      \* how many of them are settled
          recorded      \* those on record, in order of recording

dvars == <<offered, accepted, settled, recorded>>

Init == /\ offered = {}
        /\ accepted = <<>>
        /\ settled = 0
        /\ recorded = <<>>

Refuse(e) == /\ e \notin offered
             /\ offered' = offered \cup {e}
             /\ UNCHANGED <<accepted, settled, recorded>>

Accept(e) == /\ e \notin offered
             /\ offered' = offered \cup {e}
             /\ accepted' = Append(accepted, e)
             /\ UNCHANGED <<settled, recorded>>

Record == /\ settled < Len(accepted)
          /\ settled' = settled + 1
          /\ recorded' = Append(recorded, accepted[settled + 1])
          /\ UNCHANGED <<offered, accepted>>

GiveUp == /\ settled < Len(accepted)
          /\ settled' = settled + 1
          /\ UNCHANGED <<offered, accepted, recorded>>

Next == \/ \E e \in Event : Refuse(e) \/ Accept(e)
        \/ Record
        \/ GiveUp

Spec == Init /\ [][Next]_dvars
=============================================================================
