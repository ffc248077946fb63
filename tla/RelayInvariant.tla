---------------------------- MODULE RelayInvariant ----------------------------
(***************************************************************************)
(* The inductive invariant of OutboxRelay: what the relays have done with  *)
(* an event at every moment between loading it and forgetting it.          *)
(***************************************************************************)
EXTENDS OutboxRelay

Marking(r, e) == pc[r] = "mark" /\ Head(r) = e

(* A relay that marks has published.                                       *)
MarkedIsPublished == \A r \in Relay : pc[r] = "mark" => copies[Head(r)] > 0

BatchIsCommitted == \A r \in Relay : batch[r] \subseteq Committed

(* The relays that can still publish the event without another fault:      *)
(* while it is PENDING all that have not just done so, afterwards those    *)
(* that loaded it before.                                                  *)
MayPublish(e) ==
    {r \in Relay : /\ ~Marking(r, e)
                   /\ status[e] # "PROCESSED" \/ e \in batch[r]}

CopiesPaidFor ==
    \A e \in Event :
        copies[e] + Cardinality(MayPublish(e)) <= Cardinality(Relay) + faults

(* The invariant of the proofs in RelayProofs: with the three properties   *)
(* it implies, what a relay in the middle of a batch relies on.            *)
RelayInv ==
    /\ TypeOK
    /\ MarkedIsPublished
    /\ BatchIsCommitted
    /\ ProcessedIsPublished
    /\ OlderFirst
    /\ CopiesPaidFor
===============================================================================
