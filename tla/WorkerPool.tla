------------------------------- MODULE WorkerPool ------------------------------
(***************************************************************************)
(* The worker pool (infrastructure/worker/worker.go): one goroutine sends  *)
(* the items to a channel and closes it, the workers process what they     *)
(* take from it and send an error for an item without a name to a second   *)
(* channel, and a collector, which starts after the last item was sent,    *)
(* empties that channel until nothing has come for a second.  One action   *)
(* for each operation on a channel.                                        *)
(*                                                                         *)
(* Not modelled: the INSERT of an item, whose error is only logged.        *)
(***************************************************************************)
EXTENDS Integers, FiniteSets

CONSTANTS
    PoolWorker,
    Items,      \* the number of items
    DataCap,    \* the capacity of the channel of items
    ErrorCap    \* the capacity of the channel of errors

ASSUME PoolAssumption == {Items, DataCap, ErrorCap} \subseteq Nat

VARIABLES
    producer,   \* sending the items, in wg.Wait, or done
    collector,  \* not yet started, reading, or gone
    work,       \* the item of each worker, Waiting or Left
    sent,       \* items sent
    taken,      \* items that workers have taken
    errors,     \* errors in their channel
    nameless    \* the items without a name

poolVars == <<producer, collector, work, sent, taken, errors, nameless>>

Waiting == 0
Left    == -1

PoolInit ==
    /\ producer = "sending"
    /\ collector = "none"
    /\ work = [w \in PoolWorker |-> Waiting]
    /\ sent = 0
    /\ taken = 0
    /\ errors = 0
    /\ nameless \in SUBSET (1..Items)

SendItem ==
    /\ producer = "sending"
    /\ sent < Items
    /\ sent - taken < DataCap
    /\ sent' = sent + 1
    /\ UNCHANGED <<producer, collector, work, taken, errors, nameless>>

CloseItems ==
    /\ producer = "sending"
    /\ sent = Items
    /\ producer' = "waiting"
    /\ collector' = "reading"
    /\ UNCHANGED <<work, sent, taken, errors, nameless>>

TakeItem(w) ==
    /\ work[w] = Waiting
    /\ taken < sent
    /\ taken' = taken + 1
    /\ work' = [work EXCEPT ![w] = taken']
    /\ UNCHANGED <<producer, collector, sent, errors, nameless>>

(* Variant: the last place of the channel is not used.                     *)
HasRoomForMore == errors + 1 < ErrorCap

HasErrorRoom == errors < ErrorCap

Process(w) ==
    /\ work[w] \in 1..Items
    /\ IF work[w] \in nameless THEN HasErrorRoom /\ errors' = errors + 1
                               ELSE UNCHANGED errors
    /\ work' = [work EXCEPT ![w] = Waiting]
    /\ UNCHANGED <<producer, collector, sent, taken, nameless>>

LeavePool(w) ==
    /\ work[w] = Waiting
    /\ producer # "sending"
    /\ taken = sent
    /\ work' = [work EXCEPT ![w] = Left]
    /\ UNCHANGED <<producer, collector, sent, taken, errors, nameless>>

CollectError ==
    /\ collector = "reading"
    /\ errors > 0
    /\ errors' = errors - 1
    /\ UNCHANGED <<producer, collector, work, sent, taken, nameless>>

(* No error for a second, though one may be on its way: an INSERT can take *)
(* longer.                                                                 *)
CollectorTimesOut ==
    /\ collector = "reading"
    /\ errors = 0
    /\ collector' = "gone"
    /\ UNCHANGED <<producer, work, sent, taken, errors, nameless>>

PoolReturns ==
    /\ producer = "waiting"
    /\ collector = "gone"
    /\ \A w \in PoolWorker : work[w] = Left
    /\ producer' = "done"
    /\ UNCHANGED <<collector, work, sent, taken, errors, nameless>>

Produce == SendItem \/ CloseItems \/ PoolReturns
Work(w) == TakeItem(w) \/ Process(w) \/ LeavePool(w)
Collect == CollectError \/ CollectorTimesOut

PoolNext == Produce \/ (\E w \in PoolWorker : Work(w)) \/ Collect

(* A pool that has begun returns, whenever the collector comes and goes,   *)
(* as long as the channel of errors holds those of all items: with more,   *)
(* the workers and, behind them, the sender may wait for a collector that  *)
(* has not started or is gone.                                             *)
PoolEnds == sent > 0 /\ Cardinality(nameless) <= ErrorCap ~> producer = "done"
===============================================================================
