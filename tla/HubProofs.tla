------------------------------- MODULE HubProofs ------------------------------
(***************************************************************************)
(* Proofs about ShareHub for every number of streams, senders and users.   *)
(***************************************************************************)
EXTENDS ShareHub, TLAPS

HubTypeOK ==
    /\ stream \in [Stream -> {"new", "add", "adding", "serve", "remove",
                              "removing", "gone"}]
    /\ sender \in [Sender -> {"idle", "lookup", "offer"}]
    /\ about \in [Sender -> User]
    /\ left \in [Sender -> SUBSET Stream]
    /\ users \in [User -> SUBSET Stream]
    /\ closed \in SUBSET Stream
    /\ writer \in Stream \cup {NoStream}
    /\ readers \in SUBSET Sender
    /\ waiting \in SUBSET Sender

(* A stream that is about to change the map is the one in Lock.            *)
WriterIsAtIt ==
    \A s \in Stream : stream[s] \in {"adding", "removing"} => writer = s

(* Channels are in the map, under their user, until they are closed.       *)
MapIsOpen ==
    /\ \A u \in User : \A s \in users[u] : UserOf[s] = u
    /\ \A u \in User : users[u] \cap closed = {}
    /\ \A s \in Stream : s \in closed => stream[s] = "gone"

(* What a sender goes through is the map of its RLock.                     *)
LeftIsOpen ==
    /\ \A b \in Sender : left[b] # {} => b \in readers
    /\ \A b \in Sender : left[b] \cap closed = {}

HubInv ==
    /\ HubTypeOK
    /\ WriterIsAtIt
    /\ MapIsOpen
    /\ LeftIsOpen
    /\ ~panicked

(* At first nobody is subscribed.                                           *)
LEMMA HubInitial == HubInit /\ User # {} => HubInv
  BY HubAssumption
  DEF HubInit, HubInv, HubTypeOK, WriterIsAtIt, MapIsOpen, LeftIsOpen

(* A channel is closed only after every sender that could hold it has let   *)
(* the lock go.                                                             *)
LEMMA StreamSteps ==
  ASSUME HubInv, NEW s \in Stream,
         Arrive(s) \/ Deliver(s) \/ Leave(s) \/ StreamStep(s)
  PROVE  HubInv'
  <1> USE DEF HubInv, HubTypeOK, WriterIsAtIt, MapIsOpen, LeftIsOpen, StreamAt,
              hubLock, hubSenders
  <1>1. CASE Arrive(s)
    BY <1>1 DEF Arrive
  <1>2. CASE Deliver(s)
    BY <1>2 DEF Deliver
  <1>3. CASE Leave(s)
    BY <1>3 DEF Leave
  <1>4. CASE Lock(s)
    BY <1>4, HubAssumption DEF Lock
  <1>5. CASE AddSubscriber(s)
    BY <1>5, HubAssumption DEF AddSubscriber, Holds, Unlock
  <1>6. CASE RemoveSubscriber(s)
    BY <1>6, HubAssumption DEF RemoveSubscriber, Holds, Unlock
  <1> QED
    BY <1>1, <1>2, <1>3, <1>4, <1>5, <1>6 DEF StreamStep

(* A sender takes its channels from the map, in which there are open ones   *)
(* only.                                                                    *)
LEMMA SenderSteps ==
  ASSUME HubInv, NEW b \in Sender,
         (\E u \in User : Broadcast(b, u)) \/ SenderStep(b)
  PROVE  HubInv'
  <1> USE DEF HubInv, HubTypeOK, WriterIsAtIt, MapIsOpen, LeftIsOpen, SenderAt,
              hubLock, hubSenders
  <1>1. CASE \E u \in User : Broadcast(b, u)
    BY <1>1 DEF Broadcast
  <1>2. CASE Subscribers(b)
    BY <1>2 DEF Subscribers
  <1>3. CASE Offer(b)
    BY <1>3 DEF Offer
  <1>4. CASE RUnlock(b)
    BY <1>4 DEF RUnlock
  <1> QED
    BY <1>1, <1>2, <1>3, <1>4 DEF SenderStep

(* The books of the hub agree in every behaviour.                          *)
LEMMA HubInvariance ==
  ASSUME User # {}
  PROVE  HubSpec => []HubInv
  <1>1. HubInit => HubInv
    BY HubInitial
  <1>2. HubInv /\ [HubNext]_hubVars => HubInv'
    <2> SUFFICES ASSUME HubInv, [HubNext]_hubVars PROVE HubInv'
      OBVIOUS
    <2>1. CASE HubNext
      BY <2>1, StreamSteps, SenderSteps DEF HubNext
    <2>2. CASE UNCHANGED hubVars
      BY <2>2 DEF hubVars, hubLock, hubSenders, HubInv, HubTypeOK, WriterIsAtIt,
                  MapIsOpen, LeftIsOpen
    <2> QED
      BY <2>1, <2>2
  <1> QED
    BY <1>1, <1>2, PTL DEF HubSpec

(* Sending on a closed channel (share_hub.go:111) never happens, whatever  *)
(* streams and senders do: a channel is closed under the lock that lets no *)
(* sender be in the middle of its broadcast, and has left the map then.    *)
THEOREM NoSendOnClosed ==
  ASSUME User # {}
  PROVE  HubSpec => []NeverSendsOnClosed
  <1>1. HubInv => NeverSendsOnClosed
    BY DEF HubInv, NeverSendsOnClosed
  <1> QED
    BY <1>1, HubInvariance, PTL

(* Who holds the lock is on its way to give it back: the stream in Lock is *)
(* about to change the map, a sender that waits does so for that stream,   *)
(* and one that has RLock is reading.                                      *)
LockIsAttended ==
    /\ writer # NoStream => stream[writer] \in {"adding", "removing"}
    /\ waiting # {} => writer # NoStream
    /\ readers \cap waiting = {}
    /\ \A b \in waiting : sender[b] = "lookup"
    /\ \A b \in readers : sender[b] \in {"lookup", "offer"}
    /\ \A b \in Sender : sender[b] = "lookup" => b \in readers \cup waiting
    /\ \A b \in Sender : sender[b] = "offer" => b \in readers

(* The guards of StreamStep and SenderStep: an event that finds no room is *)
(* dropped, so that a sender in its loop can always go on.                 *)
StreamCanStep(s) ==
    \/ stream[s] \in {"add", "remove"} /\ writer = NoStream
    \/ stream[s] \in {"adding", "removing"} /\ Holds(s)

SenderCanStep(b) ==
    \/ sender[b] = "lookup" /\ b \in readers
    \/ sender[b] = "offer"

(* Whoever broadcasts, and whoever wants in or out of the map, can go on,  *)
(* or somebody who holds the lock or has RLock can.                        *)
HolderCanStep ==
    /\ writer # NoStream
    /\ \/ StreamCanStep(writer)
       \/ \E b \in readers : SenderCanStep(b)

NobodyWaitsInVain ==
    /\ \A b \in Sender : sender[b] # "idle" => SenderCanStep(b) \/ HolderCanStep
    /\ \A s \in Stream :
           stream[s] \in {"add", "adding", "remove", "removing"}
              => StreamCanStep(s) \/ HolderCanStep

(* A stream gives the lock back with its change of the map, and lets in    *)
(* whoever waited.                                                         *)
LEMMA StreamsAttend ==
  ASSUME HubInv, LockIsAttended, NEW s \in Stream,
         Arrive(s) \/ Deliver(s) \/ Leave(s) \/ StreamStep(s)
  PROVE  LockIsAttended'
  <1> USE DEF HubInv, HubTypeOK, WriterIsAtIt, LockIsAttended, StreamAt,
              hubLock, hubSenders
  <1>1. CASE Arrive(s)
    BY <1>1 DEF Arrive
  <1>2. CASE Deliver(s)
    BY <1>2 DEF Deliver
  <1>3. CASE Leave(s)
    BY <1>3 DEF Leave
  <1>4. CASE Lock(s)
    BY <1>4, HubAssumption DEF Lock
  <1>5. CASE AddSubscriber(s)
    BY <1>5, HubAssumption DEF AddSubscriber, Holds, Unlock
  <1>6. CASE RemoveSubscriber(s)
    BY <1>6, HubAssumption DEF RemoveSubscriber, Holds, Unlock
  <1> QED
    BY <1>1, <1>2, <1>3, <1>4, <1>5, <1>6 DEF StreamStep

(* A sender waits only when it finds the lock taken or wanted.             *)
LEMMA SendersAttend ==
  ASSUME HubInv, LockIsAttended, NEW b \in Sender,
         (\E u \in User : Broadcast(b, u)) \/ SenderStep(b)
  PROVE  LockIsAttended'
  <1> USE DEF HubInv, HubTypeOK, LockIsAttended, SenderAt, hubLock, hubSenders
  <1>1. CASE \E u \in User : Broadcast(b, u)
    BY <1>1 DEF Broadcast
  <1>2. CASE Subscribers(b)
    BY <1>2 DEF Subscribers
  <1>3. CASE Offer(b)
    BY <1>3 DEF Offer
  <1>4. CASE RUnlock(b)
    BY <1>4 DEF RUnlock
  <1> QED
    BY <1>1, <1>2, <1>3, <1>4 DEF SenderStep

(* Streams and senders cannot end up waiting for each other, however they  *)
(* come and go and however slow the clients are: a sender waits for the    *)
(* stream in Lock, that one for the senders that have RLock, and those for *)
(* nobody (share_hub.go:72-117).                                            *)
THEOREM HubWaitsForSomebody ==
  ASSUME User # {}
  PROVE  HubSpec => []NobodyWaitsInVain
  <1>1. HubInit => LockIsAttended
    BY HubAssumption DEF HubInit, LockIsAttended
  <1>2. HubInv /\ LockIsAttended /\ [HubNext]_hubVars => LockIsAttended'
    <2> SUFFICES ASSUME HubInv, LockIsAttended, [HubNext]_hubVars
                 PROVE  LockIsAttended'
      OBVIOUS
    <2>1. CASE HubNext
      BY <2>1, StreamsAttend, SendersAttend DEF HubNext
    <2>2. CASE UNCHANGED hubVars
      BY <2>2 DEF hubVars, hubLock, hubSenders, LockIsAttended
    <2> QED
      BY <2>1, <2>2
  <1>3. HubInv /\ LockIsAttended => NobodyWaitsInVain
    <2> SUFFICES ASSUME HubInv, LockIsAttended PROVE NobodyWaitsInVain
      OBVIOUS
    <2> USE DEF HubInv, HubTypeOK, WriterIsAtIt, LockIsAttended
    <2>1. ASSUME NEW b \in readers PROVE SenderCanStep(b)
      BY <2>1 DEF SenderCanStep
    <2>2. writer # NoStream => HolderCanStep
      BY <2>1 DEF HolderCanStep, StreamCanStep, Holds
    <2>3. ASSUME NEW b \in Sender, sender[b] # "idle"
          PROVE  SenderCanStep(b) \/ HolderCanStep
      BY <2>1, <2>2, <2>3
    <2>4. ASSUME NEW s \in Stream, stream[s] \in {"add", "adding", "remove", "removing"}
          PROVE  StreamCanStep(s) \/ HolderCanStep
      BY <2>2, <2>4, HubAssumption DEF StreamCanStep
    <2> QED
      BY <2>3, <2>4 DEF NobodyWaitsInVain
  <1> QED
    BY <1>1, <1>2, <1>3, HubInvariance, PTL DEF HubSpec
===============================================================================
