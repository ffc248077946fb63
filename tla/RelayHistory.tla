------------------------------ MODULE RelayHistory -----------------------------
(***************************************************************************)
(* OutboxRelay with a history variable, which remembers of each event what *)
(* must be delivered before it, and what the relays implement with it.     *)
(***************************************************************************)
EXTENDS RelayInvariant

VARIABLE owes   \* for each event, the older ones committed before it and not yet delivered

historyVars == <<vars, owes>>

Delivered == {e \in Event : copies[e] > 0}
Processed == {e \in Event : status[e] = "PROCESSED"}

Earlier(e) == {f \in Committed \ Delivered : CreatedAt[f] < CreatedAt[e]}

HistoryInit == Init /\ owes = [e \in Event |-> {}]

HistoryNext ==
    /\ Next
    /\ owes' = [e \in Event |-> IF e \in Committed' \ Committed
                                THEN Earlier(e) ELSE owes[e] \ Delivered']

HistorySpec == HistoryInit /\ [][HistoryNext]_historyVars

(* Fairness is of the relays; the history only looks on.                   *)
FairHistory == HistorySpec /\ Fairness

D == INSTANCE Delivery
     WITH committed <- Committed, delivered <- Delivered, marked <- Processed

(* Polling, publishing, marking, their failures and the restarts implement *)
(* Delivery: a row is marked only after Kafka has its event, and no event  *)
(* is there before an older one that was committed earlier, whichever      *)
(* relays published, failed or restarted.                                  *)
ImplementsDelivery == D!Spec

OwesEarlier == \A e \in Event : owes[e] \subseteq Earlier(e)

(* A relay saw what the events it loaded owe.                              *)
OwesKnown == \A r \in Relay : \A e \in batch[r] : owes[e] \subseteq known[r]

(* The invariant of the refinement's proof: from it the next event of a    *)
(* batch owes nothing.                                                     *)
HistoryInv ==
    /\ RelayInv
    /\ owes \in [Event -> SUBSET Event]
    /\ OwesEarlier
    /\ OwesKnown
===============================================================================
