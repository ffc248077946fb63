------------------------------ MODULE OutboxRelay ------------------------------
(***************************************************************************)
(* The polling outbox relay (infrastructure/message/kafka_relay.go over    *)
(* infrastructure/persistence/outbox/repository.go): every instance of the *)
(* service runs one, so several may work on the same outbox table, and     *)
(* each instance may stop and be started again at any point.               *)
(*                                                                         *)
(* The rows come from AuthorizePayment (module Ledger).  created_at is     *)
(* taken before the transaction commits, so rows may appear out of its     *)
(* order.  Kafka is the number of copies of each event on its topic: the   *)
(* order there is not the relay's to decide (the writer balances over      *)
(* partitions).                                                            *)
(*                                                                         *)
(* Not modelled: the CDC strategy (Debezium reads the same rows), tracing. *)
(***************************************************************************)
EXTENDS Integers, FiniteSets

CONSTANTS
    Relay,        \* instances of the service
    Event,        \* outbox rows
    CreatedAt,    \* rank of each row in ORDER BY created_at, id
    BatchSize,    \* OUTBOX_BATCH_SIZE
    Deadlines,    \* may a call fail with an error that is DeadlineExceeded?
    LateServer,   \* may a first batch fail before main has its HTTP server?
    MaxFaults     \* bound on failing calls, lost replies and process stops

ASSUME RelayAssumption ==
    /\ IsFiniteSet(Relay)
    /\ IsFiniteSet(Event)
    /\ CreatedAt \in [Event -> Nat]
    /\ \A e, f \in Event : CreatedAt[e] = CreatedAt[f] => e = f
    /\ BatchSize \in Nat \ {0}
    /\ Deadlines \in BOOLEAN
    /\ LateServer \in BOOLEAN
    /\ MaxFaults \in Nat

VARIABLES
    status,    \* the status column: absent, PENDING or PROCESSED
    copies,    \* how many times each event is on its Kafka topic
    pc,        \* the next call of each relay, or why it makes none
    first,     \* is the relay in the batch it runs before its first tick?
    batch,     \* the loaded events it has not finished
    known,     \* the rows that existed when its batch was loaded
    faults     \* faults so far

outbox == <<status, copies>>
vars   == <<status, copies, pc, first, batch, known, faults>>

(* "down": the process does not run.  "stopped": it runs, but its relay    *)
(* has returned.                                                           *)
RelayState == {"down", "load", "publish", "mark", "wait", "stopped"}

Init ==
    /\ status = [e \in Event |-> "absent"]
    /\ copies = [e \in Event |-> 0]
    /\ pc = [r \in Relay |-> "down"]
    /\ first = [r \in Relay |-> TRUE]
    /\ batch = [r \in Relay |-> {}]
    /\ known = [r \in Relay |-> {}]
    /\ faults = 0

Committed == {e \in Event : status[e] # "absent"}
Pending   == {e \in Event : status[e] = "PENDING"}

(* Variant: ORDER BY created_at DESC.                                      *)
Newest(S) ==
    {e \in S : Cardinality({f \in S : CreatedAt[f] > CreatedAt[e]}) < BatchSize}

(* ORDER BY created_at ASC, id ASC LIMIT BatchSize.                        *)
Oldest(S) ==
    {e \in S : Cardinality({f \in S : CreatedAt[f] < CreatedAt[e]}) < BatchSize}

(* The event of the batch that is published next.                          *)
Head(r) == CHOOSE e \in batch[r] : \A f \in batch[r] : CreatedAt[e] <= CreatedAt[f]

-------------------------------------------------------------------------------
(* The transaction of an authorization commits its outbox row.             *)
Insert(e) ==
    /\ status[e] = "absent"
    /\ status' = [status EXCEPT ![e] = "PENDING"]
    /\ UNCHANGED <<copies, pc, first, batch, known, faults>>

(* The service starts, and OutboxRelay.Start with it.                      *)
Boot(r) ==
    /\ pc[r] = "down"
    /\ pc' = [pc EXCEPT ![r] = "load"]
    /\ first' = [first EXCEPT ![r] = TRUE]
    /\ UNCHANGED <<outbox, batch, known, faults>>

(* The relay has left to do S of its batch; after the last event it waits  *)
(* for the ticker.                                                         *)
Continue(r, S) ==
    /\ batch' = [batch EXCEPT ![r] = S]
    /\ pc' = [pc EXCEPT ![r] = IF S = {} THEN "wait" ELSE "publish"]
    /\ UNCHANGED first

GetPendingEvents(r) ==
    /\ pc[r] = "load"
    /\ known' = [known EXCEPT ![r] = Committed]
    /\ Continue(r, Oldest(Pending))
    /\ UNCHANGED <<outbox, faults>>

(* Variant: a timer that fires once in place of the ticker.                *)
TickOnce(r) ==
    /\ pc[r] = "wait"
    /\ first[r]
    /\ pc' = [pc EXCEPT ![r] = "load"]
    /\ first' = [first EXCEPT ![r] = FALSE]
    /\ UNCHANGED <<outbox, batch, known, faults>>

Tick(r) ==
    /\ pc[r] = "wait"
    /\ pc' = [pc EXCEPT ![r] = "load"]
    /\ first' = [first EXCEPT ![r] = FALSE]
    /\ UNCHANGED <<outbox, batch, known, faults>>

(* Variant: the error of WriteMessages is not looked at.                   *)
WriteMessageUnchecked(r) ==
    /\ pc[r] = "publish"
    /\ copies' \in {copies, [copies EXCEPT ![Head(r)] = @ + 1]}
    /\ pc' = [pc EXCEPT ![r] = "mark"]
    /\ UNCHANGED <<status, first, batch, known, faults>>

(* WriteMessages returns nil once Kafka has acknowledged the event.        *)
WriteMessage(r) ==
    /\ pc[r] = "publish"
    /\ copies' = [copies EXCEPT ![Head(r)] = @ + 1]
    /\ pc' = [pc EXCEPT ![r] = "mark"]
    /\ UNCHANGED <<status, first, batch, known, faults>>

(* Start returns, and the process goes on without a relay.                 *)
StopRelay(r) ==
    /\ pc' = [pc EXCEPT ![r] = "stopped"]
    /\ batch' = [batch EXCEPT ![r] = {}]
    /\ UNCHANGED first

(* Variant: the events of a failed batch are kept.                         *)
StopWithBatch(r) ==
    /\ pc' = [pc EXCEPT ![r] = "down"]
    /\ UNCHANGED <<first, batch>>

(* The process exits.                                                      *)
StopProcess(r) ==
    /\ pc' = [pc EXCEPT ![r] = "down"]
    /\ batch' = [batch EXCEPT ![r] = {}]
    /\ UNCHANGED first

(* Start returns an error: the errgroup cancels the others and main exits, *)
(* unless it finds no HTTP server to shut down yet (module ServiceProcess).*)
ReturnError(r) ==
    \/ StopProcess(r)
    \/ LateServer /\ first[r] /\ StopRelay(r)

(* Variant: rows stay PENDING.                                             *)
MarkNothing(r) ==
    /\ pc[r] = "mark"
    /\ Continue(r, batch[r] \ {Head(r)})
    /\ UNCHANGED <<status, copies, known, faults>>

(* The UPDATE that finds the row PENDING marks it; one that finds it       *)
(* marked by another relay is ErrEventNotFound, which ends the relay.      *)
MarkEventProcessed(r) ==
    /\ pc[r] = "mark"
    /\ \/ /\ status[Head(r)] = "PENDING"
          /\ status' = [status EXCEPT ![Head(r)] = "PROCESSED"]
          /\ Continue(r, batch[r] \ {Head(r)})
       \/ /\ status[Head(r)] # "PENDING"
          /\ ReturnError(r)
          /\ UNCHANGED status
    /\ UNCHANGED <<copies, known, faults>>

-------------------------------------------------------------------------------
Fault == faults < MaxFaults /\ faults' = faults + 1

(* How Start treats an error of processBatch: one that is Canceled or      *)
(* DeadlineExceeded is ignored for the first batch and ends the relay      *)
(* without an error after it; any other is returned.                       *)
HandleError(r) ==
    \/ ReturnError(r)
    \/ Deadlines /\ first[r] /\ Continue(r, {})
    \/ Deadlines /\ ~first[r] /\ StopRelay(r)

(* A call fails before it has had an effect.                               *)
CallFails(r) ==
    /\ Fault
    /\ pc[r] \in {"load", "publish", "mark"}
    /\ HandleError(r)
    /\ UNCHANGED <<outbox, known>>

(* Kafka has the event, but the writer does not know: it tries again, and  *)
(* its last attempt may be a CallFails.                                    *)
PublishUnacknowledged(r) ==
    /\ Fault
    /\ pc[r] = "publish"
    /\ copies' = [copies EXCEPT ![Head(r)] = @ + 1]
    /\ UNCHANGED <<status, pc, first, batch, known>>

(* The row is marked, but the relay sees an error.                         *)
MarkUnacknowledged(r) ==
    /\ Fault
    /\ pc[r] = "mark"
    /\ status' = [status EXCEPT ![Head(r)] = "PROCESSED"]
    /\ HandleError(r)
    /\ UNCHANGED <<copies, known>>

(* The process is stopped or killed; what it had loaded is gone.           *)
Crash(r) ==
    /\ Fault
    /\ pc[r] # "down"
    /\ StopProcess(r)
    /\ UNCHANGED <<outbox, known>>

-------------------------------------------------------------------------------
Run(r) ==
    \/ GetPendingEvents(r)
    \/ Tick(r)
    \/ WriteMessage(r)
    \/ MarkEventProcessed(r)

Next ==
    \/ \E e \in Event : Insert(e)
    \/ \E r \in Relay :
           \/ Boot(r)
           \/ Run(r)
           \/ CallFails(r)
           \/ PublishUnacknowledged(r)
           \/ MarkUnacknowledged(r)
           \/ Crash(r)

Spec == Init /\ [][Next]_vars

(* A running relay keeps polling, and a process that exits is started      *)
(* again (Restart=on-failure in deploy/systemd/go-project.service).        *)
Fairness == \A r \in Relay : WF_vars(Run(r)) /\ WF_vars(Boot(r))

-------------------------------------------------------------------------------
(* Type correctness; a relay has a batch exactly while it works on it.     *)
TypeOK ==
    /\ status \in [Event -> {"absent", "PENDING", "PROCESSED"}]
    /\ copies \in [Event -> Nat]
    /\ pc \in [Relay -> RelayState]
    /\ first \in [Relay -> BOOLEAN]
    /\ batch \in [Relay -> SUBSET Event]
    /\ known \in [Relay -> SUBSET Event]
    /\ faults \in 0..MaxFaults
    /\ \A r \in Relay : batch[r] # {} <=> pc[r] \in {"publish", "mark"}

(* "Events are marked processed only after Kafka acknowledges them"        *)
(* (kafka_relay.go:56): no row is PROCESSED whose event is not in Kafka,   *)
(* whichever relays published, failed or restarted.                        *)
ProcessedIsPublished ==
    \A e \in Event : status[e] = "PROCESSED" => copies[e] > 0

(* No event overtakes an older one: when a relay publishes an event, each  *)
(* older one that existed when it loaded its batch is in Kafka already,    *)
(* published by it or by another relay.                                    *)
OlderFirst ==
    \A r \in Relay : \A f \in batch[r] : \A e \in known[r] \ batch[r] :
        CreatedAt[e] < CreatedAt[f] => copies[e] > 0

(* Duplicates are paid for: a relay publishes an event again only after a  *)
(* fault, so every copy is accounted for by a relay or by a fault.         *)
DuplicatesBounded ==
    \A e \in Event : copies[e] <= Cardinality(Relay) + faults

(* "At-least-once delivery" (kafka_relay.go:58-59): every committed event  *)
(* is eventually in Kafka and marked, unless every instance ends up        *)
(* running without its relay.                                              *)
EventuallyProcessed ==
    (\E r \in Relay : []<>(pc[r] # "stopped")) =>
        \A e \in Event : status[e] = "PENDING" ~> status[e] = "PROCESSED"

(* The same as the comment says it: "Start runs until ctx is canceled".    *)
AtLeastOnce ==
    \A e \in Event : status[e] = "PENDING" ~> status[e] = "PROCESSED"
===============================================================================
