-------------------------------- MODULE Delivery -------------------------------
(***************************************************************************)
(* What the outbox promises to those who read its topics, with nothing     *)
(* about relays, batches, failures or restarts: events appear there only   *)
(* after their transactions have committed, for the first time in the      *)
(* order of created_at as far as they were committed in that order, and    *)
(* none is marked before.  Further copies of an event are allowed at any   *)
(* time, and change nothing here.                                          *)
(*                                                                         *)
(* Module OutboxRelay is shown to implement this one, by TLC on a small    *)
(* instance and by the proofs of RelayProofs for all of them.              *)
(***************************************************************************)
EXTENDS Integers

CONSTANTS
    Event,       \* the events of transactions
    CreatedAt    \* their rank in the order of created_at

VARIABLES
    committed,   \* events whose transaction has committed
    owes,        \* for each, the older ones committed before it and not yet delivered
    delivered,   \* events that are on their topic
    marked       \* events that are marked as processed

vars == <<committed, owes, delivered, marked>>

Init ==
    /\ committed = {}
    /\ owes = [e \in Event |-> {}]
    /\ delivered = {}
    /\ marked = {}

Commit(e) ==
    /\ e \notin committed
    /\ committed' = committed \cup {e}
    /\ owes' = [owes EXCEPT ![e] = {f \in committed \ delivered : CreatedAt[f] < CreatedAt[e]}]
    /\ UNCHANGED <<delivered, marked>>

Deliver(e) ==
    /\ e \in committed
    /\ owes[e] = {}
    /\ delivered' = delivered \cup {e}
    /\ owes' = [f \in Event |-> owes[f] \ {e}]
    /\ UNCHANGED <<committed, marked>>

Mark(e) ==
    /\ e \in delivered
    /\ marked' = marked \cup {e}
    /\ UNCHANGED <<committed, owes, delivered>>

Next == \E e \in Event : Commit(e) \/ Deliver(e) \/ Mark(e)

Spec == Init /\ [][Next]_vars
===============================================================================
