---------------------------- MODULE ProcessProofs -----------------------------
(***************************************************************************)
(* Proofs about ServiceProcess for every number of requests, and about     *)
(* WorkerPool for every number of workers and items and all capacities of  *)
(* the channels.                                                           *)
(***************************************************************************)
EXTENDS ServiceProcess, WorkerPool, FiniteSetTheorems, TLAPS

(* A main that has called Shutdown and not given up has no request left.   *)
ShutdownWaits ==
    /\ main = "drain" => closing
    /\ main = "wait" /\ closing => timedOut \/ inFlight = 0

ProcessInv ==
    /\ TypeOK
    /\ main = "startup" => relay = "none" /\ server = "none" /\ inFlight = 0
    /\ main = "startServer" => server = "none" /\ inFlight = 0
    /\ inFlight > 0 => server # "none"
    /\ closing => main \in {"drain", "wait"}
    /\ ShutdownWaits
    /\ FailureIsReported
    /\ RequestsDrained

(* At first nothing has failed and nothing is served.                       *)
LEMMA ProcessInitial == Init => ProcessInv
  <1> SUFFICES ASSUME Init PROVE ProcessInv
    OBVIOUS
  <1>0. /\ cancelled \in BOOLEAN /\ closing \in BOOLEAN
        /\ signalled \in BOOLEAN /\ timedOut \in BOOLEAN
    BY DEF Init
  <1>1. TypeOK
    <2>1. inFlight \in 0..MaxRequests
      BY ProcessAssumption DEF Init
    <2> QED
      BY <1>0, <2>1 DEF Init, TypeOK
  <1>2. ShutdownWaits /\ FailureIsReported /\ RequestsDrained
    BY DEF Init, ShutdownWaits, FailureIsReported, RequestsDrained, Failed, Running,
           ServerMissed
  <1> QED
    BY <1>1, <1>2 DEF Init, ProcessInv

(* Every step of main, up to the one that decides the exit status.          *)
LEMMA MainSteps ==
  ASSUME ProcessInv, exit = Running, MainStep
  PROVE  ProcessInv'
  <1> USE ProcessAssumption
      DEF ProcessInv, TypeOK, ShutdownWaits, FailureIsReported, RequestsDrained,
          Failed, Running, ServerMissed, goroutines, Exit, Return
  <1>1. CASE StartupFails
    BY <1>1 DEF StartupFails
  <1>2. CASE StartOutboxStrategy
    BY <1>2 DEF StartOutboxStrategy
  <1>3. CASE StartServer
    BY <1>3 DEF StartServer
  <1>4. CASE Select
    BY <1>4 DEF Select
  <1>5. CASE Shutdown
    <2>1. closing' \in BOOLEAN /\ timedOut' \in BOOLEAN
      BY <1>5 DEF Shutdown
    <2>2. TypeOK'
      BY <1>5, <2>1 DEF Shutdown
    <2>3. (ShutdownWaits /\ FailureIsReported /\ RequestsDrained)'
      BY <1>5, <2>1 DEF Shutdown
    <2> QED
      BY <1>5, <2>2, <2>3 DEF Shutdown
  <1>6. CASE Drain
    <2>1. closing' \in BOOLEAN /\ timedOut' \in BOOLEAN
      BY <1>6 DEF Drain
    <2>2. TypeOK'
      BY <1>6, <2>1 DEF Drain
    <2>3. inFlight = 0 \/ timedOut'
      <3>1. inFlight > 0 => timedOut'
        BY <1>6, Zenon DEF Drain
      <3> QED
        BY <3>1
    <2>4. main' = "wait" /\ exit' = Running /\ inFlight' = inFlight
      BY <1>6 DEF Drain
    <2>5. FailureIsReported'
      BY <1>6 DEF Drain
    <2>6. (ShutdownWaits /\ RequestsDrained)'
      BY <2>3, <2>4
    <2> QED
      BY <1>6, <2>2, <2>5, <2>6 DEF Drain
  <1>7. CASE GroupWait
    BY <1>7 DEF GroupWait, GroupDone
  <1> QED
    BY <1>1, <1>2, <1>3, <1>4, <1>5, <1>6, <1>7 DEF MainStep

(* Every step of the relay, the server and the requests, and every signal.  *)
LEMMA GoroutineSteps ==
  ASSUME ProcessInv, exit = Running,
         \/ ServerStep \/ RelayFails \/ RelayEnds \/ ServerFails
         \/ Signal \/ RequestArrives \/ RequestReturns
  PROVE  ProcessInv'
  <1> USE ProcessAssumption
      DEF ProcessInv, TypeOK, ShutdownWaits, FailureIsReported, RequestsDrained,
          Failed, Running, ServerMissed, goroutines
  <1>1. CASE Register
    BY <1>1 DEF Register
  <1>2. CASE Listen
    <2>1. TypeOK'
      BY <1>2 DEF Listen
    <2>2. (ShutdownWaits /\ FailureIsReported /\ RequestsDrained)'
      BY <1>2 DEF Listen
    <2> QED
      BY <1>2, <2>1, <2>2 DEF Listen
  <1>3. CASE RelayFails \/ RelayEnds
    <2>1. TypeOK'
      BY <1>3 DEF RelayFails, RelayEnds
    <2>2. (ShutdownWaits /\ FailureIsReported /\ RequestsDrained)'
      BY <1>3 DEF RelayFails, RelayEnds
    <2> QED
      BY <1>3, <2>1, <2>2 DEF RelayFails, RelayEnds
  <1>4. CASE ServerFails
    <2>1. TypeOK'
      BY <1>4 DEF ServerFails
    <2>2. (ShutdownWaits /\ FailureIsReported /\ RequestsDrained)'
      BY <1>4 DEF ServerFails
    <2> QED
      BY <1>4, <2>1, <2>2 DEF ServerFails
  <1>5. CASE Signal
    BY <1>5 DEF Signal
  <1>6. CASE RequestArrives
    BY <1>6 DEF RequestArrives
  <1>7. CASE RequestReturns
    BY <1>7 DEF RequestReturns
  <1> QED
    BY <1>1, <1>2, <1>3, <1>4, <1>5, <1>6, <1>7 DEF ServerStep

(* How far main has come tells what it knows of the errgroup and of the     *)
(* server: the two properties below follow from it.                         *)
THEOREM ProcessInvariance == Spec => []ProcessInv
  <1>1. Init => ProcessInv
    BY ProcessInitial
  <1>2. ProcessInv /\ [Next]_vars => ProcessInv'
    <2> SUFFICES ASSUME ProcessInv, [Next]_vars PROVE ProcessInv'
      OBVIOUS
    <2>1. CASE Next
      BY <2>1, MainSteps, GoroutineSteps DEF Next
    <2>2. CASE UNCHANGED vars
      BY <2>2 DEF vars, ProcessInv, TypeOK, ShutdownWaits, FailureIsReported,
                  RequestsDrained, Failed, ServerMissed
    <2> QED
      BY <2>1, <2>2
  <1> QED
    BY <1>1, <1>2, PTL DEF Spec

(* A goroutine's failure ends the process with status 2 after g.Wait, or   *)
(* with 1 by a signal, never with 0.                                       *)
THEOREM FailuresAreReported == Spec => []FailureIsReported
  BY ProcessInvariance, PTL DEF ProcessInv

(* Unless main has missed the server, g.Wait ends the process only after   *)
(* Shutdown has waited for the requests or given up.                       *)
THEOREM RequestsAreDrained == Spec => []RequestsDrained
  BY ProcessInvariance, PTL DEF ProcessInv

(* What a shutdown rests on: a failure cancels the group, main shuts down  *)
(* only what was cancelled, and Shutdown has been called on a server that  *)
(* its goroutine has registered.                                           *)
ShutdownIsOpen ==
    /\ Failed => cancelled
    /\ main \in {"shutdown", "drain", "wait"} => cancelled
    /\ closing => server \notin {"none", "spawned"}
    /\ main \notin {"startup", "startServer"} => server # "none"

(* The guards of MainStep, and of the goroutines that have to return.      *)
MainCanGoOn ==
    \/ main \in {"startup", "startServer", "drain"}
    \/ main = "select" /\ (signalled \/ cancelled)
    \/ main = "shutdown" /\ server # "none"
    \/ main = "wait" /\ GroupDone

GoroutineReturns ==
    \/ relay = "polling" /\ cancelled
    \/ server \in {"registered", "serving"} /\ closing

(* A process that has to end, because a goroutine failed or a signal came, *)
(* has a step towards its end, unless main has missed the server.          *)
CanStillEnd ==
    exit = Running /\ (Failed \/ signalled) /\ ~ServerMissed =>
        MainCanGoOn \/ GoroutineReturns

(* Main never waits in select for a group that is not cancelled, nor in    *)
(* g.Wait (main.go:388) for a goroutine that has not been told to return:  *)
(* after a failure or a signal somebody can always take the process nearer *)
(* to its end.                                                             *)
THEOREM ShutdownGoesOn == Spec => []CanStillEnd
  <1>1. Init => ShutdownIsOpen
    BY DEF Init, ShutdownIsOpen, Failed
  <1>2. ProcessInv /\ ShutdownIsOpen /\ [Next]_vars => ShutdownIsOpen'
    <2> SUFFICES ASSUME ProcessInv, ShutdownIsOpen, [Next]_vars PROVE ShutdownIsOpen'
      OBVIOUS
    <2> USE DEF ProcessInv, TypeOK, ShutdownIsOpen, Failed, goroutines
    <2>1. CASE MainStep
      BY <2>1 DEF MainStep, StartupFails, StartOutboxStrategy, StartServer, Select,
                  Shutdown, Drain, GroupWait
    <2>2. CASE ServerStep
      BY <2>2 DEF ServerStep, Register, Listen
    <2>3. CASE RelayFails \/ RelayEnds \/ ServerFails
      BY <2>3 DEF RelayFails, RelayEnds, ServerFails
    <2>4. CASE Signal \/ RequestArrives \/ RequestReturns
      BY <2>4 DEF Signal, RequestArrives, RequestReturns
    <2>5. CASE UNCHANGED vars
      BY <2>5 DEF vars
    <2> QED
      BY <2>1, <2>2, <2>3, <2>4, <2>5 DEF Next
  <1>3. ProcessInv /\ ShutdownIsOpen => CanStillEnd
    BY DEF ProcessInv, TypeOK, ShutdownIsOpen, CanStillEnd, MainCanGoOn,
           GoroutineReturns, GroupDone, ServerMissed
  <1> QED
    BY <1>1, <1>2, <1>3, ProcessInvariance, PTL DEF Spec

-------------------------------------------------------------------------------
(* The worker pool.                                                        *)

PoolSpec == PoolInit /\ [][PoolNext]_poolVars

(* The items without a name that have been processed.                      *)
Handled == {i \in nameless : i <= taken /\ \A w \in PoolWorker : work[w] # i}

(* The books of the pool: items are sent, taken and processed once each, a *)
(* worker leaves only when all have been taken, and of the errors in their *)
(* channel each is that of an item that was processed.                     *)
PoolInv ==
    /\ nameless \in SUBSET (1..Items)
    /\ sent \in 0..Items /\ taken \in 0..sent
    /\ sent - taken <= DataCap
    /\ producer \in {"sending", "waiting", "done"}
    /\ collector \in {"none", "reading", "gone"}
    /\ producer = "sending" <=> collector = "none"
    /\ producer # "sending" => sent = Items
    /\ work \in [PoolWorker -> {Waiting, Left} \cup 1..Items]
    /\ \A w \in PoolWorker : work[w] \in 1..Items => work[w] <= taken
    /\ \A v, w \in PoolWorker : work[v] \in 1..Items /\ work[v] = work[w] => v = w
    /\ \A w \in PoolWorker : work[w] = Left => producer # "sending" /\ taken = sent
    /\ producer = "done" => \A w \in PoolWorker : work[w] = Left
    /\ errors \in Nat /\ errors <= ErrorCap
    /\ errors <= Cardinality(Handled)

(* The guards of Produce, Collect and Work.                                *)
SomebodyGoesOn ==
    \/ producer = "sending" /\ (sent = Items \/ sent - taken < DataCap)
    \/ producer = "waiting" /\ collector = "gone" /\ \A w \in PoolWorker : work[w] = Left
    \/ collector = "reading"
    \/ \E w \in PoolWorker :
          \/ work[w] = Waiting /\ taken < sent
          \/ work[w] = Waiting /\ producer # "sending" /\ taken = sent
          \/ work[w] \in 1..Items /\ (work[w] \in nameless => HasErrorRoom)

(* As long as the channel of errors can hold those of all items, somebody  *)
(* can go on until the pool has returned, with its collector or without.   *)
PoolNeverStuck ==
    Cardinality(nameless) <= ErrorCap => SomebodyGoesOn \/ producer = "done"

(* What has returned has left nothing in the channel of items and nobody   *)
(* who could still send to the channel of errors, which it closes.         *)
AllItemsHandled ==
    producer = "done" => taken = Items /\ \A w \in PoolWorker : work[w] = Left

(* At first nothing has been sent.                                         *)
LEMMA PoolInitial == PoolInit => PoolInv
  <1> SUFFICES ASSUME PoolInit PROVE PoolInv
    OBVIOUS
  <1>1. Handled = {}
    <2> SUFFICES ASSUME NEW i \in Handled PROVE FALSE
      OBVIOUS
    <2>1. i \in nameless /\ i <= taken
      BY DEF Handled
    <2>2. i \in 1..Items /\ taken = 0
      BY <2>1 DEF PoolInit
    <2> QED
      BY <2>1, <2>2, PoolAssumption
  <1>2. Cardinality(Handled) = 0
    BY <1>1, FS_EmptySet
  <1>3. {Items, DataCap, ErrorCap} \subseteq Nat
    BY PoolAssumption
  <1>4. work \in [PoolWorker -> {Waiting, Left} \cup 1..Items]
        /\ \A w \in PoolWorker : work[w] = Waiting
    BY DEF PoolInit
  <1> QED
    BY <1>2, <1>3, <1>4 DEF PoolInit, PoolInv, Waiting, Left

(* What has been handled of what has no name is a finite set.              *)
LEMMA HandledIsFinite ==
  ASSUME nameless \in SUBSET (1..Items)
  PROVE  /\ IsFiniteSet(nameless) /\ IsFiniteSet(Handled)
         /\ Cardinality(nameless) \in Nat /\ Cardinality(Handled) \in Nat
         /\ Cardinality(Handled) <= Cardinality(nameless)
  <1>1. IsFiniteSet(1..Items) /\ Items \in Nat
    BY PoolAssumption, FS_Interval
  <1>2. IsFiniteSet(nameless)
    BY <1>1, FS_Subset
  <1>3. Handled \in SUBSET nameless
    BY DEF Handled
  <1> HIDE DEF Handled
  <1> QED
    BY <1>2, <1>3, FS_Subset, FS_CardinalityType

(* Every step of the pool keeps the books of its items and errors.         *)
LEMMA PoolSteps ==
  ASSUME PoolInv, PoolNext
  PROVE  PoolInv'
  <1>0. {Items, DataCap, ErrorCap} \subseteq Nat /\ Waiting = 0 /\ Left = -1
    BY PoolAssumption DEF Waiting, Left
  <1>1. ASSUME UNCHANGED <<work, taken, nameless>> PROVE Handled' = Handled
    BY <1>1 DEF Handled
  <1>2. CASE SendItem
    <2>1. Handled' = Handled
      BY <1>1, <1>2 DEF SendItem
    <2> QED
      BY <1>0, <1>2, <2>1 DEF PoolInv, SendItem
  <1>3. CASE CloseItems
    <2>1. Handled' = Handled
      BY <1>1, <1>3 DEF CloseItems
    <2> QED
      BY <1>0, <1>3, <2>1 DEF PoolInv, CloseItems
  <1>4. CASE PoolReturns
    <2>1. Handled' = Handled
      BY <1>1, <1>4 DEF PoolReturns
    <2> QED
      BY <1>0, <1>4, <2>1 DEF PoolInv, PoolReturns
  <1>5. ASSUME NEW w \in PoolWorker, TakeItem(w) PROVE PoolInv'
    <2>1. /\ taken \in 0..Items /\ taken' = taken + 1 /\ nameless' = nameless
          /\ work[w] = 0 /\ work \in [PoolWorker -> {Waiting, Left} \cup 1..Items]
          /\ nameless \in SUBSET (1..Items) /\ Items \in Nat
      BY <1>0, <1>5 DEF PoolInv, TakeItem
    <2>2. \A v \in PoolWorker : work'[v] = IF v = w THEN taken + 1 ELSE work[v]
      BY <1>5, <2>1 DEF TakeItem
    <2>3. ASSUME NEW i \in nameless
          PROVE  /\ i <= taken /\ (\A v \in PoolWorker : work[v] # i)
                    => i <= taken + 1 /\ (\A v \in PoolWorker : work'[v] # i)
                 /\ i <= taken + 1 /\ (\A v \in PoolWorker : work'[v] # i)
                    => i <= taken /\ (\A v \in PoolWorker : work[v] # i)
      <3>1. i \in 1..Items
        BY <2>1
      <3>2. i <= taken + 1 => i <= taken \/ i = taken + 1
        BY <2>1, <3>1
      <3>3. (\A v \in PoolWorker : work'[v] # i) => i # taken + 1
        BY <2>2
      <3>4. i # taken + 1
            => ((\A v \in PoolWorker : work'[v] # i) <=> (\A v \in PoolWorker : work[v] # i))
        BY <2>1, <2>2, <3>1
      <3> QED
        BY <2>1, <3>1, <3>2, <3>3, <3>4
    <2>4. Handled' = Handled
      BY <2>1, <2>3 DEF Handled
    <2> QED
      BY <1>0, <1>5, <2>4 DEF PoolInv, TakeItem
  <1>6. ASSUME NEW w \in PoolWorker, Process(w) PROVE PoolInv'
    <2> DEFINE i == work[w]
    <2>1. CASE i \in nameless
      <3>1. Handled' = Handled \cup {i} /\ i \notin Handled
        BY <1>0, <1>6, <2>1 DEF PoolInv, Process, Handled
      <3>2. IsFiniteSet(Handled) /\ Cardinality(Handled) \in Nat
        BY HandledIsFinite DEF PoolInv
      <3> HIDE DEF i
      <3>3. Cardinality(Handled') = Cardinality(Handled) + 1
        BY <3>1, <3>2, FS_AddElement
      <3>4. errors' = errors + 1 /\ errors < ErrorCap
        BY <1>6, <2>1 DEF Process, HasErrorRoom, i
      <3> QED
        BY <1>0, <1>6, <3>2, <3>3, <3>4 DEF PoolInv, Process
    <2>2. CASE i \notin nameless
      <3>1. Handled' = Handled
        BY <1>0, <1>6, <2>2 DEF PoolInv, Process, Handled
      <3>2. errors' = errors
        BY <1>6, <2>2 DEF Process
      <3> QED
        BY <1>0, <1>6, <3>1, <3>2 DEF PoolInv, Process
    <2> QED
      BY <2>1, <2>2
  <1>7. ASSUME NEW w \in PoolWorker, LeavePool(w) PROVE PoolInv'
    <2>1. Handled' = Handled
      BY <1>0, <1>7 DEF PoolInv, LeavePool, Handled
    <2> QED
      BY <1>0, <1>7, <2>1 DEF PoolInv, LeavePool
  <1>8. CASE CollectError
    <2>1. Handled' = Handled
      BY <1>1, <1>8 DEF CollectError
    <2>2. Cardinality(Handled) \in Nat
      BY HandledIsFinite DEF PoolInv
    <2> QED
      BY <1>0, <1>8, <2>1, <2>2 DEF PoolInv, CollectError
  <1>9. CASE CollectorTimesOut
    <2>1. Handled' = Handled
      BY <1>1, <1>9 DEF CollectorTimesOut
    <2> QED
      BY <1>0, <1>9, <2>1 DEF PoolInv, CollectorTimesOut
  <1> QED
    BY <1>2, <1>3, <1>4, <1>5, <1>6, <1>7, <1>8, <1>9 DEF PoolNext, Produce, Work, Collect

(* The books of the pool agree in every behaviour.                         *)
THEOREM PoolInvariance == PoolSpec => []PoolInv
  <1>1. PoolInit => PoolInv
    BY PoolInitial
  <1>2. PoolInv /\ [PoolNext]_poolVars => PoolInv'
    <2> SUFFICES ASSUME PoolInv, UNCHANGED poolVars PROVE PoolInv'
      BY PoolSteps
    <2> QED
      BY DEF poolVars, PoolInv, Handled
  <1> QED
    BY <1>1, <1>2, PTL DEF PoolSpec

(* Sender, workers and collector never all wait for each other            *)
(* (worker.go:32-66): what could keep a worker is a full channel of errors *)
(* without a collector, and what has been processed cannot fill it as long *)
(* as an item without a name is left and the channel holds them all.       *)
THEOREM PoolGoesOn ==
  ASSUME DataCap # 0, PoolWorker # {}
  PROVE  PoolSpec => []PoolNeverStuck
  <1>0. {Items, DataCap, ErrorCap} \subseteq Nat /\ Waiting = 0 /\ Left = -1
    BY PoolAssumption DEF Waiting, Left
  <1>1. ASSUME PoolInv, Cardinality(nameless) <= ErrorCap, NEW w \in PoolWorker,
               work[w] \in nameless
        PROVE  HasErrorRoom
    <2> DEFINE i == work[w]
    <2>1. /\ IsFiniteSet(nameless) /\ Cardinality(nameless) \in Nat
          /\ Cardinality(Handled) \in Nat
      BY <1>1, HandledIsFinite DEF PoolInv
    <2>2. Handled \in SUBSET nameless /\ Handled # nameless
      BY <1>1 DEF Handled
    <2> HIDE DEF i
    <2>3. Cardinality(Handled) < Cardinality(nameless)
      BY <2>1, <2>2, FS_Subset
    <2> QED
      BY <1>0, <1>1, <2>1, <2>3 DEF PoolInv, HasErrorRoom
  <1>2. PoolInv => PoolNeverStuck
    <2> SUFFICES ASSUME PoolInv, Cardinality(nameless) <= ErrorCap, producer # "done"
                 PROVE  SomebodyGoesOn
      BY DEF PoolNeverStuck
    <2>1. ASSUME NEW w \in PoolWorker, work[w] # Left, taken < sent \/ producer # "sending"
          PROVE  SomebodyGoesOn
      <3>1. work[w] = Waiting \/ work[w] \in 1..Items
        BY <2>1 DEF PoolInv
      <3>2. CASE work[w] = Waiting
        <4>1. taken < sent \/ taken = sent
          BY <1>0 DEF PoolInv
        <4> QED
          BY <2>1, <3>2, <4>1 DEF SomebodyGoesOn
      <3>3. CASE work[w] \in 1..Items
        BY <1>1, <3>3 DEF SomebodyGoesOn
      <3> QED
        BY <3>1, <3>2, <3>3
    <2>2. CASE producer = "sending"
      <3>1. CASE sent = Items \/ sent - taken < DataCap
        BY <2>2, <3>1 DEF SomebodyGoesOn
      <3>2. CASE ~(sent - taken < DataCap)
        <4>1. taken < sent
          BY <1>0, <3>2 DEF PoolInv
        <4>2. PICK w \in PoolWorker : TRUE
          OBVIOUS
        <4>3. work[w] # Left
          BY <2>2 DEF PoolInv
        <4> QED
          BY <2>1, <4>1, <4>3
      <3> QED
        BY <3>1, <3>2
    <2>3. CASE producer = "waiting"
      BY <2>1, <2>3 DEF PoolInv, SomebodyGoesOn
    <2> QED
      BY <2>2, <2>3 DEF PoolInv
  <1> QED
    BY <1>2, PoolInvariance, PTL

(* The pool returns only when every item has been taken and processed, and *)
(* closes the channel of errors (worker.go:52) after the last worker left. *)
THEOREM PoolHandlesAll ==
  ASSUME PoolWorker # {}
  PROVE  PoolSpec => []AllItemsHandled
  <1>1. PoolInv => AllItemsHandled
    <2> SUFFICES ASSUME PoolInv, producer = "done" PROVE taken = Items
      BY DEF AllItemsHandled, PoolInv
    <2>1. PICK w \in PoolWorker : TRUE
      OBVIOUS
    <2>2. work[w] = Left
      BY DEF PoolInv
    <2> QED
      BY <2>2 DEF PoolInv
  <1> QED
    BY <1>1, PoolInvariance, PTL
===============================================================================
