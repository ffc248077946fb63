-------------------------------- MODULE ShareHub -------------------------------
(***************************************************************************)
(* The hub of the share status streams (infrastructure/realtime/           *)
(* share_hub.go).  A stream is a request that registers a channel for its  *)
(* user, writes what arrives there to its client, and removes and closes   *)
(* the channel when the client is gone.  A sender is a goroutine that      *)
(* broadcasts the state of a record to the streams of the record's user:   *)
(* one that Share starts for each record (share_usecase.go:120), or the    *)
(* processing of jobs (131).  One action for each operation on the lock or *)
(* on a channel.                                                           *)
(*                                                                         *)
(* The lock is a sync.RWMutex: a Lock that waits for readers keeps new     *)
(* readers out, and Unlock lets in all readers that wait.                  *)
(*                                                                         *)
(* Not modelled: what an event says, so that a channel is the number of    *)
(* events it holds.                                                        *)
(***************************************************************************)
EXTENDS Integers, FiniteSets

CONSTANTS
    Stream,      \* streams, each with a channel of its own
    Sender,      \* goroutines that broadcast
    User,
    UserOf,      \* the user of each stream
    NoStream,    \* nobody holds the lock
    ChannelCap   \* the capacity of a channel

ASSUME HubAssumption ==
    /\ NoStream \notin Stream
    /\ UserOf \in [Stream -> User]
    /\ ChannelCap \in Nat \ {0}

VARIABLES
    stream,    \* the next step of each stream
    sender,    \* the next step of each sender
    about,     \* the user whose record each sender broadcasts
    left,      \* the channels each sender has still to offer its event to
    users,     \* the map of the hub: the channels of each user
    channel,   \* the events in each channel
    closed,    \* closed channels
    writer,    \* the stream in Lock or holding it
    readers,   \* the senders that hold RLock
    waiting,   \* the senders that wait in RLock
    panicked   \* a goroutine has panicked, which ends the process

hubLock    == <<writer, readers, waiting>>
hubSenders == <<sender, about, left>>
hubVars    == <<stream, hubSenders, users, channel, closed, hubLock, panicked>>

HubInit ==
    /\ stream = [s \in Stream |-> "new"]
    /\ sender = [b \in Sender |-> "idle"]
    /\ about = [b \in Sender |-> CHOOSE u \in User : TRUE]
    /\ left = [b \in Sender |-> {}]
    /\ users = [u \in User |-> {}]
    /\ channel = [s \in Stream |-> 0]
    /\ closed = {}
    /\ writer = NoStream
    /\ readers = {}
    /\ waiting = {}
    /\ panicked = FALSE

StreamAt(s, next) == stream' = [stream EXCEPT ![s] = next]
SenderAt(b, next) == sender' = [sender EXCEPT ![b] = next]

-------------------------------------------------------------------------------
(* Streams.                                                                *)

Arrive(s) ==
    /\ stream[s] = "new"
    /\ StreamAt(s, "add")
    /\ UNCHANGED <<hubSenders, users, channel, closed, hubLock, panicked>>

Lock(s) ==
    /\ stream[s] \in {"add", "remove"}
    /\ writer = NoStream
    /\ writer' = s
    /\ StreamAt(s, IF stream[s] = "add" THEN "adding" ELSE "removing")
    /\ UNCHANGED <<hubSenders, users, channel, closed, readers, waiting, panicked>>

(* Variant: the lock does not wait for the senders.                        *)
HoldsAtOnce(s) == writer = s

Holds(s) == writer = s /\ readers = {}

Unlock ==
    /\ writer' = NoStream
    /\ readers' = readers \cup waiting
    /\ waiting' = {}

AddSubscriber(s) ==
    /\ stream[s] = "adding"
    /\ Holds(s)
    /\ users' = [users EXCEPT ![UserOf[s]] = @ \cup {s}]
    /\ Unlock
    /\ StreamAt(s, "serve")
    /\ UNCHANGED <<hubSenders, channel, closed, panicked>>

(* The stream takes an event and writes it, however slow its client is.    *)
Deliver(s) ==
    /\ stream[s] = "serve"
    /\ channel[s] > 0
    /\ channel' = [channel EXCEPT ![s] = @ - 1]
    /\ UNCHANGED <<stream, hubSenders, users, closed, hubLock, panicked>>

(* The client is gone; the select may take that before an event.           *)
Leave(s) ==
    /\ stream[s] = "serve"
    /\ StreamAt(s, "remove")
    /\ UNCHANGED <<hubSenders, users, channel, closed, hubLock, panicked>>

RemoveSubscriber(s) ==
    /\ stream[s] = "removing"
    /\ Holds(s)
    /\ users' = [users EXCEPT ![UserOf[s]] = @ \ {s}]
    /\ closed' = closed \cup {s}
    /\ Unlock
    /\ StreamAt(s, "gone")
    /\ UNCHANGED <<hubSenders, channel, panicked>>

-------------------------------------------------------------------------------
(* BroadcastShareStatus.                                                   *)

Broadcast(b, u) ==
    /\ sender[b] = "idle"
    /\ about' = [about EXCEPT ![b] = u]
    /\ IF writer = NoStream
       THEN readers' = readers \cup {b} /\ UNCHANGED waiting
       ELSE waiting' = waiting \cup {b} /\ UNCHANGED readers
    /\ SenderAt(b, "lookup")
    /\ UNCHANGED <<stream, left, users, channel, closed, writer, panicked>>

(* In RLock.                                                               *)
Subscribers(b) ==
    /\ sender[b] = "lookup"
    /\ b \in readers
    /\ left' = [left EXCEPT ![b] = users[about[b]]]
    /\ SenderAt(b, "offer")
    /\ UNCHANGED <<stream, about, users, channel, closed, hubLock, panicked>>

(* Variant: the sender waits for room.                                     *)
OfferAndWait(b) ==
    /\ sender[b] = "offer"
    /\ \E s \in left[b] :
           /\ channel[s] < ChannelCap
           /\ channel' = [channel EXCEPT ![s] = @ + 1]
           /\ left' = [left EXCEPT ![b] = @ \ {s}]
    /\ UNCHANGED <<stream, sender, about, users, closed, hubLock, panicked>>

(* The select with a default: a full channel misses the event, but sending *)
(* on a closed one is a panic.                                             *)
Offer(b) ==
    /\ sender[b] = "offer"
    /\ \E s \in left[b] :
           /\ left' = [left EXCEPT ![b] = @ \ {s}]
           /\ IF s \in closed THEN panicked' = TRUE /\ UNCHANGED channel
              ELSE /\ channel' = [channel EXCEPT ![s] = IF @ < ChannelCap THEN @ + 1 ELSE @]
                   /\ UNCHANGED panicked
    /\ UNCHANGED <<stream, sender, about, users, closed, hubLock>>

RUnlock(b) ==
    /\ sender[b] = "offer"
    /\ left[b] = {}
    /\ readers' = readers \ {b}
    /\ SenderAt(b, "idle")
    /\ UNCHANGED <<stream, about, left, users, channel, closed, writer, waiting, panicked>>

-------------------------------------------------------------------------------
StreamStep(s) == Lock(s) \/ AddSubscriber(s) \/ RemoveSubscriber(s)
SenderStep(b) == Subscribers(b) \/ Offer(b) \/ RUnlock(b)

HubNext ==
    /\ ~panicked
    /\ \/ \E s \in Stream : Arrive(s) \/ Deliver(s) \/ Leave(s) \/ StreamStep(s)
       \/ \E b \in Sender :
              \/ \E u \in User : Broadcast(b, u)
              \/ SenderStep(b)

HubSpec == HubInit /\ [][HubNext]_hubVars

-------------------------------------------------------------------------------
(* No broadcast reaches a channel that its stream has closed: the panic    *)
(* would be that of a goroutine nobody recovers.                           *)
NeverSendsOnClosed == ~panicked

(* Whatever clients do, and however slow they are, every broadcast returns *)
(* and every stream gets in and out of the map: a sender keeps no stream   *)
(* from leaving, and streams that come and go keep no sender out.          *)
HubNeverStalls ==
    /\ \A b \in Sender : sender[b] # "idle" ~> sender[b] = "idle"
    /\ \A s \in Stream : stream[s] \in {"add", "remove"} ~> stream[s] \in {"serve", "gone"}
===============================================================================
