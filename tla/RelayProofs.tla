------------------------------ MODULE RelayProofs ------------------------------
(***************************************************************************)
(* Proofs about OutboxRelay for every number of relays, events and faults. *)
(***************************************************************************)
EXTENDS RelayHistory, FiniteSetTheorems, TLAPS

(***************************************************************************)
(* The order of a batch.                                                   *)
(***************************************************************************)
Below(B, e) == {f \in B : CreatedAt[f] < CreatedAt[e]}

(* Every batch that is not empty has an oldest event: among the sets of    *)
(* the events below one of its own there is a smallest, and it is empty.   *)
LEMMA OldestExists ==
  ASSUME NEW B \in SUBSET Event, B # {}
  PROVE  \E e \in B : \A f \in B : CreatedAt[e] <= CreatedAt[f]
  <1> DEFINE T == {Below(B, e) : e \in B}
  <1>1. IsFiniteSet(B)
    BY RelayAssumption, FS_Subset
  <1>2. \A e \in B : CreatedAt[e] \in Nat
    BY RelayAssumption
  <1>3. T \subseteq FiniteSubsetsOf(B) /\ T # {}
    <2>1. FiniteSubsetsOf(B) = SUBSET B
      BY <1>1, FS_FiniteSubsetsOfFinite
    <2>2. \A e \in B : Below(B, e) \in SUBSET B
      BY DEF Below
    <2> QED
      BY <2>1, <2>2
  <1>4. IsWellFoundedOn(StrictSubsetOrdering(B), FiniteSubsetsOf(B))
    BY FS_StrictSubsetOrderingWellFounded
  <1>5. PICK x \in T : \A y \in T : ~(<<y, x>> \in StrictSubsetOrdering(B))
    BY <1>3, <1>4, WFMin
  <1>6. PICK e \in B : x = Below(B, e)
    BY <1>5
  <1>7. ASSUME NEW f \in B, CreatedAt[f] < CreatedAt[e]
        PROVE  FALSE
    <2>1. /\ Below(B, f) \in T
          /\ Below(B, f) \subseteq Below(B, e)
          /\ f \in Below(B, e) /\ f \notin Below(B, f)
          /\ Below(B, f) \subseteq B /\ Below(B, e) \subseteq B
      BY <1>2, <1>7 DEF Below
    <2>2. <<Below(B, f), Below(B, e)>> \in StrictSubsetOrdering(B)
      BY <2>1 DEF StrictSubsetOrdering
    <2> QED
      BY <1>5, <1>6, <2>1, <2>2
  <1> QED
    BY <1>2, <1>7

(* The event that is published next is the oldest of the batch.            *)
LEMMA HeadIsOldest ==
  ASSUME NEW r \in Relay, batch[r] \in SUBSET Event, batch[r] # {}
  PROVE  /\ Head(r) \in batch[r]
         /\ \A f \in batch[r] : CreatedAt[Head(r)] <= CreatedAt[f]
  BY OldestExists DEF Head

(* LIMIT takes a prefix: an event is in the batch with every older one.    *)
LEMMA OldestIsPrefix ==
  ASSUME NEW S \in SUBSET Event, NEW f \in Oldest(S), NEW e \in S,
         CreatedAt[e] < CreatedAt[f]
  PROVE  e \in Oldest(S)
  <1>1. Below(S, e) \subseteq Below(S, f)
    <2>1. \A g \in S : CreatedAt[g] \in Nat
      BY RelayAssumption
    <2>2. f \in S
      BY DEF Oldest
    <2> QED
      BY <2>1, <2>2 DEF Below
  <1>2. IsFiniteSet(Below(S, f))
    BY RelayAssumption, FS_Subset DEF Below
  <1>3. /\ Cardinality(Below(S, e)) <= Cardinality(Below(S, f))
        /\ Cardinality(Below(S, e)) \in Nat /\ Cardinality(Below(S, f)) \in Nat
    BY <1>1, <1>2, FS_Subset, FS_CardinalityType
  <1>4. Cardinality(Below(S, f)) < BatchSize
    BY DEF Oldest, Below
  <1>5. Cardinality(Below(S, e)) < BatchSize
    BY <1>3, <1>4, RelayAssumption
  <1> QED
    BY <1>5 DEF Oldest, Below

(***************************************************************************)
(* Type correctness.                                                       *)
(***************************************************************************)

(* Handling an error drops the batch.                                      *)
LEMMA ErrorType ==
  ASSUME TypeOK, NEW r \in Relay, HandleError(r)
  PROVE  /\ pc' \in [Relay -> RelayState]
         /\ first' \in [Relay -> BOOLEAN]
         /\ batch' = [batch EXCEPT ![r] = {}]
         /\ batch' \in [Relay -> SUBSET Event]
         /\ \A q \in Relay : batch'[q] # {} <=> pc'[q] \in {"publish", "mark"}
  BY DEF HandleError, ReturnError, StopRelay, StopProcess, Continue, TypeOK,
         RelayState

(* So far as the relay goes on, it has a batch exactly while it works.     *)
LEMMA ContinueType ==
  ASSUME TypeOK, NEW r \in Relay, NEW S \in SUBSET Event, Continue(r, S)
  PROVE  /\ pc' \in [Relay -> RelayState]
         /\ first' \in [Relay -> BOOLEAN]
         /\ batch' = [batch EXCEPT ![r] = S]
         /\ batch' \in [Relay -> SUBSET Event]
         /\ \A q \in Relay : batch'[q] # {} <=> pc'[q] \in {"publish", "mark"}
  BY DEF Continue, TypeOK, RelayState

(* The next event of a relay that publishes or marks is one of its batch.  *)
LEMMA HeadType ==
  ASSUME TypeOK, NEW r \in Relay, pc[r] \in {"publish", "mark"}
  PROVE  Head(r) \in batch[r] /\ Head(r) \in Event
  BY HeadIsOldest DEF TypeOK

(* What a relay may do next.                                               *)
RelayStep(r) ==
    \/ Boot(r)
    \/ Run(r)
    \/ CallFails(r)
    \/ PublishUnacknowledged(r)
    \/ MarkUnacknowledged(r)
    \/ Crash(r)

(* A step of a relay keeps the types.                                      *)
LEMMA StepType ==
  ASSUME TypeOK, NEW r \in Relay, RelayStep(r)
  PROVE  TypeOK'
  <1>f. faults' = faults + 1 /\ faults < MaxFaults => faults' \in 0..MaxFaults
    BY RelayAssumption DEF TypeOK
  <1>1. CASE Boot(r)
    BY <1>1 DEF Boot, TypeOK, RelayState, outbox
  <1>2. CASE GetPendingEvents(r)
    <2>1. Oldest(Pending) \in SUBSET Event /\ Committed \in SUBSET Event
      BY DEF Oldest, Pending, Committed
    <2>2. Continue(r, Oldest(Pending))
      BY <1>2 DEF GetPendingEvents
    <2> QED
      BY <1>2, <2>1, <2>2, ContinueType DEF GetPendingEvents, TypeOK, outbox
  <1>3. CASE Tick(r)
    BY <1>3 DEF Tick, TypeOK, RelayState, outbox
  <1>4. CASE WriteMessage(r)
    <2>1. copies' \in [Event -> Nat]
      BY <1>4, HeadType DEF WriteMessage, TypeOK
    <2>2. pc' \in [Relay -> RelayState]
      BY <1>4 DEF WriteMessage, TypeOK, RelayState
    <2>3. \A q \in Relay : batch'[q] # {} <=> pc'[q] \in {"publish", "mark"}
      BY <1>4 DEF WriteMessage, TypeOK, RelayState
    <2> QED
      BY <1>4, <2>1, <2>2, <2>3 DEF WriteMessage, TypeOK
  <1>5. CASE MarkEventProcessed(r)
    <2>1. CASE Continue(r, batch[r] \ {Head(r)})
               /\ status' = [status EXCEPT ![Head(r)] = "PROCESSED"]
      <3>1. batch[r] \ {Head(r)} \in SUBSET Event
        BY DEF TypeOK
      <3> QED
        BY <1>5, <2>1, <3>1, ContinueType DEF MarkEventProcessed, TypeOK
    <2>2. CASE ReturnError(r) /\ UNCHANGED status
      BY <1>5, <2>2, ErrorType DEF MarkEventProcessed, HandleError, TypeOK
    <2> QED
      BY <1>5, <2>1, <2>2 DEF MarkEventProcessed
  <1>6. CASE CallFails(r)
    BY <1>6, <1>f, ErrorType DEF CallFails, Fault, TypeOK, outbox
  <1>7. CASE PublishUnacknowledged(r)
    <2>1. copies' \in [Event -> Nat]
      BY <1>7, HeadType DEF PublishUnacknowledged, TypeOK
    <2> QED
      BY <1>7, <1>f, <2>1 DEF PublishUnacknowledged, Fault, TypeOK
  <1>8. CASE MarkUnacknowledged(r)
    BY <1>8, <1>f, ErrorType DEF MarkUnacknowledged, Fault, TypeOK
  <1>9. CASE Crash(r)
    BY <1>9, <1>f, ErrorType
    DEF Crash, HandleError, ReturnError, Fault, TypeOK, outbox
  <1> QED
    BY <1>1, <1>2, <1>3, <1>4, <1>5, <1>6, <1>7, <1>8, <1>9 DEF RelayStep, Run

(* Every step keeps the types.                                             *)
LEMMA NextType == TypeOK /\ [Next]_vars => TypeOK'
  <1> SUFFICES ASSUME TypeOK, [Next]_vars PROVE TypeOK'
    OBVIOUS
  <1>1. CASE \E e \in Event : Insert(e)
    BY <1>1 DEF Insert, TypeOK
  <1>2. CASE UNCHANGED vars
    BY <1>2 DEF vars, TypeOK
  <1> QED
    BY <1>1, <1>2, StepType DEF Next, RelayStep

(* The relay starts well typed.                                            *)
LEMMA InitType == Init => TypeOK
  BY RelayAssumption DEF Init, TypeOK, RelayState

(* Type correctness of outbox and relays.                                  *)
THEOREM RelayTypeCorrect == Spec => []TypeOK
  BY InitType, NextType, PTL DEF Spec

(***************************************************************************)
(* Publishing before marking.                                              *)
(***************************************************************************)

(* The next event of a relay depends on its batch alone.                   *)
LEMMA HeadUnchanged ==
  ASSUME NEW r \in Relay, batch'[r] = batch[r]
  PROVE  Head(r)' = Head(r)
  BY DEF Head

(* What a relay's step does to the others.                                 *)
LEMMA OthersUnchanged ==
  ASSUME TypeOK, NEW r \in Relay, RelayStep(r), NEW q \in Relay, q # r
  PROVE  /\ pc'[q] = pc[q] /\ batch'[q] = batch[q] /\ known'[q] = known[q]
         /\ Head(q)' = Head(q)
  <1>1. pc'[q] = pc[q] /\ batch'[q] = batch[q] /\ known'[q] = known[q]
    BY DEF RelayStep, Run, Boot, GetPendingEvents, Tick, WriteMessage,
           MarkEventProcessed, CallFails, PublishUnacknowledged,
           MarkUnacknowledged, Crash, Continue, StopRelay, StopProcess,
           ReturnError, HandleError, TypeOK
  <1> QED
    BY <1>1, HeadUnchanged

(* Copies are never taken back.                                            *)
LEMMA CopiesGrow ==
  ASSUME TypeOK, [Next]_vars, NEW e \in Event
  PROVE  copies'[e] >= copies[e]
  <1>1. copies[e] \in Nat
    BY DEF TypeOK
  <1>2. CASE UNCHANGED copies
    BY <1>1, <1>2
  <1>3. CASE \E r \in Relay : copies' = [copies EXCEPT ![Head(r)] = @ + 1]
    BY <1>1, <1>3 DEF TypeOK
  <1> QED
    BY <1>2, <1>3
    DEF Next, Run, Insert, Boot, GetPendingEvents, Tick, WriteMessage,
        MarkEventProcessed, CallFails, PublishUnacknowledged,
        MarkUnacknowledged, Crash, outbox, vars

(* A row that is committed stays so, and one that is marked stays so.      *)
LEMMA StatusGrows ==
  ASSUME TypeOK, [Next]_vars, NEW e \in Event
  PROVE  /\ e \in Committed => e \in Committed'
         /\ status[e] = "PROCESSED" => status'[e] = "PROCESSED"
  <1>1. CASE UNCHANGED status
    BY <1>1 DEF Committed
  <1>2. CASE \E r \in Relay : status' = [status EXCEPT ![Head(r)] = "PROCESSED"]
    BY <1>2 DEF Committed, TypeOK
  <1>3. CASE \E f \in Event : Insert(f)
    BY <1>3 DEF Insert, Committed, TypeOK
  <1> QED
    BY <1>1, <1>2, <1>3
    DEF Next, Run, Boot, GetPendingEvents, Tick, WriteMessage,
        MarkEventProcessed, CallFails, PublishUnacknowledged,
        MarkUnacknowledged, Crash, outbox, vars

(* A batch holds committed rows.                                           *)
LEMMA BatchStep ==
  ASSUME TypeOK, BatchIsCommitted, [Next]_vars
  PROVE  BatchIsCommitted'
  <1> SUFFICES ASSUME NEW q \in Relay, NEW e \in batch'[q]
               PROVE  e \in Committed'
    BY DEF BatchIsCommitted
  <1>1. TypeOK'
    BY NextType
  <1>2. e \in Event
    BY <1>1 DEF TypeOK
  <1>3. CASE e \in batch[q]
    BY <1>2, <1>3, StatusGrows DEF BatchIsCommitted
  <1>4. CASE GetPendingEvents(q)
    BY <1>4 DEF GetPendingEvents, Continue, Oldest, Pending, Committed, outbox,
                TypeOK
  <1>5. batch'[q] \subseteq batch[q] \/ GetPendingEvents(q)
    <2>1. CASE \E f \in Event : Insert(f)
      BY <2>1 DEF Insert
    <2>2. CASE UNCHANGED vars
      BY <2>2 DEF vars
    <2>3. CASE \E r \in Relay : RelayStep(r)
      <3>1. PICK r \in Relay : RelayStep(r)
        BY <2>3
      <3>2. CASE r # q
        BY <3>1, <3>2, OthersUnchanged
      <3>3. CASE r = q
        BY <3>1, <3>3
        DEF RelayStep, Run, Boot, Tick, WriteMessage, MarkEventProcessed,
            CallFails, PublishUnacknowledged, MarkUnacknowledged, Crash,
            Continue, StopRelay, StopProcess, ReturnError, HandleError,
            TypeOK
      <3> QED
        BY <3>2, <3>3
    <2> QED
      BY <2>1, <2>2, <2>3 DEF Next, RelayStep
  <1> QED
    BY <1>3, <1>4, <1>5

(* A relay comes to mark an event only by publishing it.                   *)
LEMMA MarkedStep ==
  ASSUME TypeOK, MarkedIsPublished, [Next]_vars
  PROVE  MarkedIsPublished'
  <1> SUFFICES ASSUME NEW q \in Relay, pc'[q] = "mark"
               PROVE  copies'[Head(q)'] > 0
    BY DEF MarkedIsPublished
  <1>1. ASSUME pc[q] = "mark", batch'[q] = batch[q]
        PROVE  copies'[Head(q)'] > 0
    <2>1. Head(q)' = Head(q) /\ Head(q) \in Event /\ copies[Head(q)] > 0
      BY <1>1, HeadUnchanged, HeadType DEF MarkedIsPublished
    <2>2. copies'[Head(q)] >= copies[Head(q)] /\ copies[Head(q)] \in Nat
      BY <2>1, CopiesGrow DEF TypeOK
    <2>3. copies'[Head(q)] \in Nat
      BY <2>1, NextType DEF TypeOK
    <2> QED
      BY <2>1, <2>2, <2>3
  <1>2. CASE \E f \in Event : Insert(f)
    BY <1>1, <1>2 DEF Insert
  <1>3. CASE UNCHANGED vars
    BY <1>1, <1>3 DEF vars
  <1>4. ASSUME NEW r \in Relay, RelayStep(r)
        PROVE  copies'[Head(q)'] > 0
    <2>1. CASE r # q
      BY <1>1, <1>4, <2>1, OthersUnchanged
    <2>2. CASE r = q /\ WriteMessage(r)
      <3>1. Head(q)' = Head(q)
        BY <2>2, HeadUnchanged DEF WriteMessage
      <3>2. Head(q) \in Event /\ copies[Head(q)] \in Nat
        BY <2>2, HeadType DEF WriteMessage, TypeOK
      <3> QED
        BY <2>2, <3>1, <3>2 DEF WriteMessage, TypeOK
    <2>3. CASE r = q /\ ~WriteMessage(r)
      BY <1>4, <2>3
      DEF RelayStep, Run, Boot, GetPendingEvents, Tick, MarkEventProcessed,
          CallFails, PublishUnacknowledged, MarkUnacknowledged, Crash,
          Continue, StopRelay, StopProcess, ReturnError, HandleError,
          TypeOK
    <2> QED
      BY <2>1, <2>2, <2>3
  <1> QED
    BY <1>2, <1>3, <1>4 DEF Next, RelayStep

(* Only a relay that has published an event marks its row.                 *)
LEMMA ProcessedStep ==
  ASSUME TypeOK, MarkedIsPublished, ProcessedIsPublished, [Next]_vars
  PROVE  ProcessedIsPublished'
  <1> SUFFICES ASSUME NEW e \in Event, status'[e] = "PROCESSED"
               PROVE  copies'[e] > 0
    BY DEF ProcessedIsPublished
  <1>1. copies[e] \in Nat /\ copies'[e] \in Nat /\ copies'[e] >= copies[e]
    BY NextType, CopiesGrow DEF TypeOK
  <1>2. CASE status[e] = "PROCESSED"
    BY <1>1, <1>2 DEF ProcessedIsPublished
  <1>3. ASSUME NEW r \in Relay, pc[r] = "mark", Head(r) = e
        PROVE  copies'[e] > 0
    BY <1>1, <1>3 DEF MarkedIsPublished
  <1>4. status[e] = "PROCESSED" \/ \E r \in Relay : pc[r] = "mark" /\ Head(r) = e
    <2>1. CASE \E f \in Event : Insert(f)
      BY <2>1 DEF Insert, TypeOK
    <2>2. CASE UNCHANGED status
      BY <2>2
    <2>3. CASE \E r \in Relay : pc[r] = "mark"
                               /\ status' = [status EXCEPT ![Head(r)] = "PROCESSED"]
      BY <2>3 DEF TypeOK
    <2> QED
      BY <2>1, <2>2, <2>3
      DEF Next, Run, Boot, GetPendingEvents, Tick, WriteMessage,
          MarkEventProcessed, CallFails, PublishUnacknowledged,
          MarkUnacknowledged, Crash, outbox, vars
  <1> QED
    BY <1>2, <1>3, <1>4

(***************************************************************************)
(* The order of publishing.                                                *)
(***************************************************************************)

(* The older events that a batch leaves out are marked, and those it has   *)
(* finished are published.                                                 *)
LEMMA OrderStep ==
  ASSUME RelayInv, [Next]_vars
  PROVE  OlderFirst'
  <1> SUFFICES ASSUME NEW q \in Relay, NEW f \in batch'[q],
                      NEW e \in known'[q] \ batch'[q],
                      CreatedAt[e] < CreatedAt[f]
               PROVE  copies'[e] > 0
    BY DEF OlderFirst
  <1>1. TypeOK /\ TypeOK'
    BY NextType DEF RelayInv
  <1>2. e \in Event /\ f \in Event
    BY <1>1 DEF TypeOK
  <1>3. copies[e] \in Nat /\ copies'[e] \in Nat /\ copies'[e] >= copies[e]
    BY <1>1, <1>2, CopiesGrow DEF TypeOK
  <1>4. ASSUME f \in batch[q], e \in known[q], e \notin batch[q]
        PROVE  copies'[e] > 0
    BY <1>3, <1>4 DEF RelayInv, OlderFirst
  <1>5. CASE known'[q] = known[q] /\ batch'[q] = batch[q]
    BY <1>4, <1>5
  <1>6. CASE GetPendingEvents(q)
    <2>1. batch'[q] = Oldest(Pending) /\ known'[q] = Committed
      BY <1>1, <1>6 DEF GetPendingEvents, Continue, TypeOK
    <2>2. e \notin Pending
      <3>1. Pending \in SUBSET Event
        BY DEF Pending
      <3> QED
        BY <2>1, <3>1, OldestIsPrefix
    <2>3. status[e] = "PROCESSED"
      BY <1>1, <1>2, <2>1, <2>2 DEF Committed, Pending, TypeOK
    <2> QED
      BY <1>2, <1>3, <2>3 DEF RelayInv, ProcessedIsPublished
  <1>7. CASE /\ pc[q] = "mark"
             /\ known'[q] = known[q] /\ batch'[q] = batch[q] \ {Head(q)}
    <2>1. CASE e = Head(q)
      BY <1>3, <1>7, <2>1 DEF RelayInv, MarkedIsPublished
    <2>2. CASE e # Head(q)
      BY <1>4, <1>7, <2>2
    <2> QED
      BY <2>1, <2>2
  <1>8. CASE batch'[q] = {}
    BY <1>8
  <1>9. \/ known'[q] = known[q] /\ batch'[q] = batch[q]
        \/ GetPendingEvents(q)
        \/ /\ pc[q] = "mark"
           /\ known'[q] = known[q] /\ batch'[q] = batch[q] \ {Head(q)}
        \/ batch'[q] = {}
    <2>1. CASE \E g \in Event : Insert(g)
      BY <2>1 DEF Insert
    <2>2. CASE UNCHANGED vars
      BY <2>2 DEF vars
    <2>3. CASE \E r \in Relay : RelayStep(r)
      <3>1. PICK r \in Relay : RelayStep(r)
        BY <2>3
      <3>2. CASE r # q
        BY <1>1, <3>1, <3>2, OthersUnchanged
      <3>3. CASE r = q
        BY <1>1, <3>1, <3>3
        DEF RelayStep, Run, Boot, Tick, WriteMessage, MarkEventProcessed,
            CallFails, PublishUnacknowledged, MarkUnacknowledged, Crash,
            Continue, StopRelay, StopProcess, ReturnError, HandleError,
            outbox, TypeOK
      <3> QED
        BY <3>2, <3>3
    <2> QED
      BY <2>1, <2>2, <2>3 DEF Next, RelayStep
  <1> QED
    BY <1>5, <1>6, <1>7, <1>8, <1>9

(***************************************************************************)
(* Counting copies.                                                        *)
(***************************************************************************)

(* Sets of relays: a part is no larger, without one of its members it is   *)
(* smaller, and with one more relay it is larger by at most one.           *)
LEMMA RelayCount ==
  ASSUME NEW S \in SUBSET Relay, NEW R \in SUBSET Relay, NEW r \in Relay
  PROVE  /\ Cardinality(S) \in Nat
         /\ R \subseteq S => Cardinality(R) <= Cardinality(S)
         /\ r \in S /\ R \subseteq S \ {r} => Cardinality(R) + 1 <= Cardinality(S)
         /\ R \subseteq S \cup {r} => Cardinality(R) <= Cardinality(S) + 1
  <1>1. /\ IsFiniteSet(S) /\ Cardinality(S) \in Nat
        /\ IsFiniteSet(R) /\ Cardinality(R) \in Nat
    BY RelayAssumption, FS_Subset, FS_CardinalityType
  <1>2. ASSUME R \subseteq S
        PROVE  Cardinality(R) <= Cardinality(S)
    BY <1>1, <1>2, FS_Subset
  <1>3. ASSUME r \in S, R \subseteq S \ {r}
        PROVE  Cardinality(R) + 1 <= Cardinality(S)
    <2>1. IsFiniteSet(S \ {r}) /\ Cardinality(S \ {r}) = Cardinality(S) - 1
      BY <1>1, <1>3, FS_RemoveElement
    <2>2. Cardinality(R) <= Cardinality(S \ {r})
      BY <1>3, <2>1, FS_Subset
    <2> QED
      BY <1>1, <2>1, <2>2
  <1>4. ASSUME R \subseteq S \cup {r}
        PROVE  Cardinality(R) <= Cardinality(S) + 1
    <2>1. /\ IsFiniteSet(S \cup {r})
          /\ Cardinality(S \cup {r})
                = IF r \in S THEN Cardinality(S) ELSE Cardinality(S) + 1
      BY <1>1, FS_AddElement
    <2>2. Cardinality(R) <= Cardinality(S \cup {r})
      BY <1>4, <2>1, FS_Subset
    <2> QED
      BY <1>1, <2>1, <2>2
  <1> QED
    BY <1>1, <1>2, <1>3, <1>4

(* A step of another relay never makes a relay able to publish.            *)
LEMMA OthersMayPublish ==
  ASSUME RelayInv, NEW r \in Relay, RelayStep(r), NEW e \in Event,
         NEW q \in MayPublish(e)', q # r
  PROVE  q \in MayPublish(e)
  <1>1. TypeOK
    BY DEF RelayInv
  <1>2. q \in Relay /\ ~Marking(q, e)' /\ (status'[e] # "PROCESSED" \/ e \in batch'[q])
    BY DEF MayPublish
  <1>3. pc'[q] = pc[q] /\ batch'[q] = batch[q] /\ Head(q)' = Head(q)
    BY <1>1, <1>2, OthersUnchanged
  <1>4. ~Marking(q, e)
    BY <1>2, <1>3 DEF Marking
  <1>5. status[e] = "PROCESSED" => status'[e] = "PROCESSED"
    BY <1>1, StatusGrows DEF Next, RelayStep
  <1> QED
    BY <1>2, <1>3, <1>4, <1>5 DEF MayPublish

(* Publishing or marking without a fault does not make the relay itself    *)
(* able to publish; publishing makes it unable.                            *)
LEMMA OwnMayPublish ==
  ASSUME RelayInv, NEW r \in Relay, Boot(r) \/ Run(r), NEW e \in Event,
         r \in MayPublish(e)'
  PROVE  /\ r \in MayPublish(e)
         /\ ~(WriteMessage(r) /\ Head(r) = e)
  <1>1. TypeOK /\ BatchIsCommitted
    BY DEF RelayInv
  <1>2. ~Marking(r, e)' /\ (status'[e] # "PROCESSED" \/ e \in batch'[r])
    BY DEF MayPublish
  <1>3. CASE Boot(r) \/ Tick(r)
    BY <1>1, <1>2, <1>3 DEF Boot, Tick, WriteMessage, MayPublish, Marking, outbox
  <1>4. CASE GetPendingEvents(r)
    <2>1. e \in batch'[r] => status[e] = "PENDING"
      BY <1>1, <1>4 DEF GetPendingEvents, Continue, Oldest, Pending, TypeOK
    <2>2. status'[e] = status[e] /\ pc[r] = "load"
      BY <1>4 DEF GetPendingEvents, outbox
    <2> QED
      BY <1>2, <2>1, <2>2 DEF WriteMessage, MayPublish, Marking
  <1>5. CASE WriteMessage(r)
    <2>1. pc[r] = "publish" /\ pc'[r] = "mark" /\ Head(r)' = Head(r)
      BY <1>1, <1>5, HeadUnchanged DEF WriteMessage, TypeOK
    <2> QED
      BY <1>2, <1>5, <2>1 DEF WriteMessage, MayPublish, Marking
  <1>6. CASE MarkEventProcessed(r)
    <2>1. pc[r] = "mark" /\ Head(r) \in Event /\ Head(r) \in batch[r]
      BY <1>1, <1>6, HeadType DEF MarkEventProcessed
    <2>2. status'[Head(r)] = "PROCESSED" /\ Head(r) \notin batch'[r]
      BY <1>1, <1>6, <2>1
      DEF MarkEventProcessed, Continue, StopRelay, StopProcess, ReturnError,
          BatchIsCommitted, Committed, TypeOK
    <2>3. e # Head(r)
      BY <1>2, <2>2
    <2>4. status'[e] = status[e] /\ batch'[r] \subseteq batch[r]
      BY <1>1, <1>6, <2>3
      DEF MarkEventProcessed, Continue, StopRelay, StopProcess, ReturnError,
          TypeOK
    <2> QED
      BY <1>2, <2>1, <2>3, <2>4 DEF WriteMessage, MayPublish, Marking
  <1> QED
    BY <1>3, <1>4, <1>5, <1>6 DEF Run

(* Without a fault a relay publishes an event at most once.                *)
LEMMA RunPaid ==
  ASSUME RelayInv, NEW r \in Relay, Boot(r) \/ Run(r), NEW e \in Event
  PROVE  copies'[e] + Cardinality(MayPublish(e)') <= Cardinality(Relay) + faults'
  <1>1. /\ MayPublish(e) \in SUBSET Relay /\ MayPublish(e)' \in SUBSET Relay
        /\ Relay \in SUBSET Relay
    BY DEF MayPublish
  <1>2. /\ copies[e] \in Nat /\ faults \in Nat /\ faults' = faults
        /\ copies[e] + Cardinality(MayPublish(e)) <= Cardinality(Relay) + faults
    BY DEF RelayInv, CopiesPaidFor, TypeOK, Run, Boot, GetPendingEvents, Tick,
           WriteMessage, MarkEventProcessed
  <1>3. /\ Cardinality(MayPublish(e)) \in Nat
        /\ Cardinality(MayPublish(e)') \in Nat
        /\ Cardinality(Relay) \in Nat
    BY <1>1, RelayCount
  <1>4. MayPublish(e)' \subseteq MayPublish(e)
    BY OthersMayPublish, OwnMayPublish DEF RelayStep
  <1>5. CASE WriteMessage(r) /\ Head(r) = e
    <2>1. r \notin MayPublish(e)'
      BY <1>5, OwnMayPublish
    <2>2. r \in MayPublish(e)
      BY <1>5, HeadType DEF WriteMessage, MayPublish, Marking, RelayInv
    <2>3. Cardinality(MayPublish(e)') + 1 <= Cardinality(MayPublish(e))
      BY <1>1, <1>4, <2>1, <2>2, RelayCount
    <2>4. copies'[e] = copies[e] + 1
      BY <1>5 DEF WriteMessage, RelayInv, TypeOK
    <2> QED
      BY <1>2, <1>3, <2>3, <2>4
  <1>6. CASE ~(WriteMessage(r) /\ Head(r) = e)
    <2>1. copies'[e] = copies[e]
      BY <1>6 DEF Run, Boot, GetPendingEvents, Tick, WriteMessage,
                  MarkEventProcessed, outbox, RelayInv, TypeOK
    <2>2. Cardinality(MayPublish(e)') <= Cardinality(MayPublish(e))
      BY <1>1, <1>4, RelayCount
    <2> QED
      BY <1>2, <1>3, <2>1, <2>2
  <1> QED
    BY <1>5, <1>6

(* A fault costs one copy at most: the one Kafka has without saying so, or *)
(* the one of a relay that has to start again.                             *)
LEMMA FaultPaid ==
  ASSUME RelayInv, NEW r \in Relay, NEW e \in Event, RelayStep(r),
         ~(Boot(r) \/ Run(r))
  PROVE  copies'[e] + Cardinality(MayPublish(e)') <= Cardinality(Relay) + faults'
  <1>1. /\ MayPublish(e) \in SUBSET Relay /\ MayPublish(e)' \in SUBSET Relay
        /\ Relay \in SUBSET Relay
    BY DEF MayPublish
  <1>2. /\ copies[e] \in Nat /\ faults \in Nat /\ faults' = faults + 1
        /\ copies[e] + Cardinality(MayPublish(e)) <= Cardinality(Relay) + faults
    BY DEF RelayInv, CopiesPaidFor, TypeOK, RelayStep, CallFails,
           PublishUnacknowledged, MarkUnacknowledged, Crash, Fault
  <1>3. /\ Cardinality(MayPublish(e)) \in Nat
        /\ Cardinality(MayPublish(e)') \in Nat
        /\ Cardinality(Relay) \in Nat
    BY <1>1, RelayCount
  <1>4. CASE PublishUnacknowledged(r)
    <2>1. copies'[e] \in Nat /\ copies'[e] <= copies[e] + 1
      BY <1>2, <1>4 DEF PublishUnacknowledged, RelayInv, TypeOK
    <2>2. r \in MayPublish(e)' => r \in MayPublish(e)
      <3>1. pc[r] = "publish" /\ status' = status /\ batch' = batch
        BY <1>4 DEF PublishUnacknowledged
      <3> QED
        BY <3>1 DEF MayPublish, Marking
    <2>3. MayPublish(e)' \subseteq MayPublish(e)
      BY <2>2, OthersMayPublish
    <2>4. Cardinality(MayPublish(e)') <= Cardinality(MayPublish(e))
      BY <1>1, <2>3, RelayCount
    <2> QED
      BY <1>2, <1>3, <2>1, <2>4
  <1>5. CASE ~PublishUnacknowledged(r)
    <2>1. copies'[e] = copies[e]
      BY <1>5 DEF RelayStep, CallFails, MarkUnacknowledged, Crash, outbox
    <2>2. MayPublish(e)' \subseteq MayPublish(e) \cup {r}
      BY OthersMayPublish
    <2>3. Cardinality(MayPublish(e)') <= Cardinality(MayPublish(e)) + 1
      BY <1>1, <2>2, RelayCount
    <2> QED
      BY <1>2, <1>3, <2>1, <2>3
  <1> QED
    BY <1>4, <1>5

(* Every copy stays accounted for.                                         *)
LEMMA PaidStep ==
  ASSUME RelayInv, [Next]_vars
  PROVE  CopiesPaidFor'
  <1> SUFFICES ASSUME NEW e \in Event
               PROVE  copies'[e] + Cardinality(MayPublish(e)')
                        <= Cardinality(Relay) + faults'
    BY DEF CopiesPaidFor
  <1>1. ASSUME copies' = copies, faults' = faults, pc' = pc, batch' = batch,
               status[e] = "PROCESSED" <=> status'[e] = "PROCESSED"
        PROVE  copies'[e] + Cardinality(MayPublish(e)')
                 <= Cardinality(Relay) + faults'
    <2>1. \A q \in Relay : Head(q)' = Head(q)
      BY <1>1, HeadUnchanged
    <2>2. \A q \in Relay : Marking(q, e)' <=> Marking(q, e)
      BY <1>1, <2>1 DEF Marking
    <2>3. MayPublish(e)' = MayPublish(e)
      BY <1>1, <2>2 DEF MayPublish
    <2> QED
      BY <1>1, <2>3 DEF RelayInv, CopiesPaidFor
  <1>2. CASE \E f \in Event : Insert(f)
    BY <1>1, <1>2 DEF Insert, RelayInv, TypeOK
  <1>3. CASE UNCHANGED vars
    BY <1>1, <1>3 DEF vars
  <1>4. CASE \E r \in Relay : RelayStep(r)
    BY <1>4, RunPaid, FaultPaid
  <1> QED
    BY <1>2, <1>3, <1>4 DEF Next, RelayStep

(***************************************************************************)
(* The theorems.                                                           *)
(***************************************************************************)

(* Before the first row nothing is published.                              *)
LEMMA InitInv == Init => RelayInv
  <1> SUFFICES ASSUME Init PROVE RelayInv
    OBVIOUS
  <1>1. TypeOK
    BY InitType
  <1>2. MarkedIsPublished /\ BatchIsCommitted /\ ProcessedIsPublished /\ OlderFirst
    BY DEF Init, MarkedIsPublished, BatchIsCommitted, ProcessedIsPublished,
           OlderFirst
  <1>3. CopiesPaidFor
    <2>1. ASSUME NEW e \in Event
          PROVE  /\ MayPublish(e) \in SUBSET Relay
                 /\ copies[e] = 0 /\ faults = 0
      BY <2>1 DEF Init, MayPublish
    <2>2. \A e \in Event :
            /\ Cardinality(MayPublish(e)) <= Cardinality(Relay)
            /\ Cardinality(MayPublish(e)) \in Nat
      BY <2>1, RelayAssumption, FS_Subset, FS_CardinalityType
    <2>3. Cardinality(Relay) \in Nat
      BY RelayAssumption, FS_CardinalityType
    <2> QED
      BY <2>1, <2>2, <2>3 DEF CopiesPaidFor
  <1> QED
    BY <1>1, <1>2, <1>3 DEF RelayInv

(* The invariant is inductive.                                             *)
LEMMA NextInv == RelayInv /\ [Next]_vars => RelayInv'
  <1> SUFFICES ASSUME RelayInv, [Next]_vars PROVE RelayInv'
    OBVIOUS
  <1> QED
    BY NextType, MarkedStep, BatchStep, ProcessedStep, OrderStep, PaidStep
    DEF RelayInv

(* What a relay in the middle of a batch relies on always holds.           *)
THEOREM RelayInvariance == Spec => []RelayInv
  BY InitInv, NextInv, PTL DEF Spec

(* A row is PROCESSED only if Kafka has its event, for every number of     *)
(* relays and any failures and restarts.                                   *)
THEOREM ProcessedArePublished == Spec => []ProcessedIsPublished
  <1>1. RelayInv => ProcessedIsPublished
    BY DEF RelayInv
  <1> QED
    BY <1>1, RelayInvariance, PTL

(* No relay publishes an event before an older one that it could see.      *)
THEOREM OlderArePublishedFirst == Spec => []OlderFirst
  <1>1. RelayInv => OlderFirst
    BY DEF RelayInv
  <1> QED
    BY <1>1, RelayInvariance, PTL

(* An event is never on the topic more often than there are relays and     *)
(* have been faults.                                                       *)
THEOREM DuplicatesArePaidFor == Spec => []DuplicatesBounded
  <1>1. ASSUME RelayInv PROVE DuplicatesBounded
    <2> SUFFICES ASSUME NEW e \in Event
                 PROVE  copies[e] <= Cardinality(Relay) + faults
      BY DEF DuplicatesBounded
    <2>1. MayPublish(e) \in SUBSET Relay /\ Relay \in SUBSET Relay
      BY DEF MayPublish
    <2>2. IsFiniteSet(MayPublish(e))
      BY <2>1, RelayAssumption, FS_Subset
    <2>3. Cardinality(MayPublish(e)) \in Nat /\ Cardinality(Relay) \in Nat
      BY <2>2, RelayAssumption, FS_CardinalityType
    <2>4. /\ copies[e] \in Nat /\ faults \in Nat
          /\ copies[e] + Cardinality(MayPublish(e)) <= Cardinality(Relay) + faults
      BY <1>1 DEF RelayInv, CopiesPaidFor, TypeOK
    <2> QED
      BY <2>3, <2>4
  <1>2. RelayInv => DuplicatesBounded
    BY <1>1
  <1> QED
    BY <1>2, RelayInvariance, PTL

(***************************************************************************)
(* The relays implement Delivery.                                          *)
(***************************************************************************)

(* A relay only loads what is committed; otherwise it only drops events.   *)
LEMMA BatchOnlyLoads ==
  ASSUME TypeOK, [Next]_vars, NEW q \in Relay
  PROVE  \/ known'[q] = known[q] /\ batch'[q] \subseteq batch[q]
         \/ GetPendingEvents(q)
  <1>1. CASE \E f \in Event : Insert(f)
    BY <1>1 DEF Insert
  <1>2. CASE UNCHANGED vars
    BY <1>2 DEF vars
  <1>3. CASE \E r \in Relay : RelayStep(r)
    <2>1. PICK r \in Relay : RelayStep(r)
      BY <1>3
    <2>2. CASE r # q
      BY <2>1, <2>2, OthersUnchanged
    <2>3. CASE r = q
      BY <2>1, <2>3
      DEF RelayStep, Run, Boot, Tick, WriteMessage, MarkEventProcessed,
          CallFails, PublishUnacknowledged, MarkUnacknowledged, Crash,
          Continue, StopRelay, StopProcess, ReturnError, HandleError,
          TypeOK
    <2> QED
      BY <2>2, <2>3
  <1> QED
    BY <1>1, <1>2, <1>3 DEF Next, RelayStep

(* A row appears in a step that publishes nothing.                         *)
LEMMA NewRowIsInserted ==
  ASSUME TypeOK, Next, NEW e \in Committed' \ Committed
  PROVE  copies' = copies
  <1>1. e \in Event /\ status[e] = "absent" /\ status'[e] # "absent"
    BY DEF Committed
  <1>2. CASE \E f \in Event : Insert(f)
    BY <1>2 DEF Insert
  <1>3. ASSUME NEW r \in Relay, RelayStep(r), copies' # copies
        PROVE  FALSE
    BY <1>1, <1>3
    DEF RelayStep, Run, Boot, GetPendingEvents, Tick, WriteMessage,
        MarkEventProcessed, CallFails, PublishUnacknowledged,
        MarkUnacknowledged, Crash, outbox
  <1> QED
    BY <1>2, <1>3 DEF Next, RelayStep

(* What a committed event owes only gets less.                             *)
LEMMA OwesStands ==
  ASSUME HistoryInv, [HistoryNext]_historyVars, NEW e \in Event
  PROVE  /\ e \in Committed => owes'[e] \subseteq owes[e]
         /\ owes'[e] \subseteq owes[e] \/ owes'[e] = Earlier(e)
  BY DEF HistoryNext, historyVars, HistoryInv

(* An event owes only older ones, committed and not delivered.             *)
LEMMA OwesEarlierStep ==
  ASSUME HistoryInv, [HistoryNext]_historyVars
  PROVE  owes' \in [Event -> SUBSET Event] /\ OwesEarlier'
  <1>1. TypeOK /\ [Next]_vars
    BY DEF HistoryInv, RelayInv, HistoryNext, historyVars
  <1>2. \A e \in Event : Earlier(e) \in SUBSET Event
    BY DEF Earlier, Committed
  <1>3. owes' \in [Event -> SUBSET Event]
    BY <1>2 DEF HistoryNext, historyVars, HistoryInv
  <1>4. ASSUME NEW e \in Event, NEW f \in owes'[e]
        PROVE  f \in Committed' /\ f \notin Delivered' /\ CreatedAt[f] < CreatedAt[e]
    <2>1. f \in Committed /\ f \notin Delivered /\ CreatedAt[f] < CreatedAt[e]
      BY <1>4, OwesStands DEF Earlier, HistoryInv, OwesEarlier
    <2>2. f \in Event /\ f \in Committed'
      BY <1>1, <2>1, StatusGrows DEF Committed
    <2>3. CASE UNCHANGED historyVars
      BY <2>1, <2>2, <2>3 DEF historyVars, vars, Delivered
    <2>4. CASE HistoryNext /\ e \notin Committed' \ Committed
      BY <1>4, <2>1, <2>2, <2>4 DEF HistoryNext
    <2>5. CASE HistoryNext /\ e \in Committed' \ Committed
      <3>1. copies' = copies
        BY <1>1, <2>5, NewRowIsInserted DEF HistoryNext
      <3> QED
        BY <2>1, <2>2, <3>1 DEF Delivered
    <2> QED
      BY <2>1, <2>2, <2>3, <2>4, <2>5
  <1> QED
    BY <1>3, <1>4 DEF OwesEarlier, Earlier

(* What the events of a batch owe was committed when the batch was loaded. *)
LEMMA OwesKnownStep ==
  ASSUME HistoryInv, [HistoryNext]_historyVars
  PROVE  OwesKnown'
  <1> SUFFICES ASSUME NEW q \in Relay, NEW e \in batch'[q], NEW f \in owes'[e]
               PROVE  f \in known'[q]
    BY DEF OwesKnown
  <1>1. TypeOK /\ [Next]_vars
    BY DEF HistoryInv, RelayInv, HistoryNext, historyVars
  <1>2. CASE known'[q] = known[q] /\ batch'[q] \subseteq batch[q]
    <2>1. e \in Committed /\ e \in Event
      BY <1>2 DEF HistoryInv, RelayInv, BatchIsCommitted, Committed
    <2>2. f \in owes[e]
      BY <2>1, OwesStands
    <2> QED
      BY <1>2, <2>2 DEF HistoryInv, OwesKnown
  <1>3. CASE GetPendingEvents(q)
    <2>1. batch'[q] = Oldest(Pending) /\ known'[q] = Committed
      BY <1>1, <1>3 DEF GetPendingEvents, Continue, TypeOK
    <2>2. e \in Event
      BY <2>1 DEF Oldest, Pending
    <2>3. f \in Committed
      BY <2>2, OwesStands DEF Earlier, HistoryInv, OwesEarlier
    <2> QED
      BY <2>1, <2>3
  <1> QED
    BY <1>1, <1>2, <1>3, BatchOnlyLoads

(* The invariant of the refinement is inductive.                           *)
LEMMA HistoryInvariance == HistorySpec => []HistoryInv
  <1>1. HistoryInit => HistoryInv
    BY InitInv DEF HistoryInit, HistoryInv, Init, OwesEarlier, OwesKnown
  <1>2. HistoryInv /\ [HistoryNext]_historyVars => HistoryInv'
    <2> SUFFICES ASSUME HistoryInv, [HistoryNext]_historyVars
                 PROVE  HistoryInv'
      OBVIOUS
    <2>1. RelayInv /\ [Next]_vars
      BY DEF HistoryInv, HistoryNext, historyVars
    <2>2. RelayInv'
      BY <2>1, NextInv
    <2> QED
      BY <2>2, OwesEarlierStep, OwesKnownStep DEF HistoryInv
  <1> QED
    BY <1>1, <1>2, PTL DEF HistorySpec

(* The next event of a batch is committed and owes nothing: it is older    *)
(* than all that the batch still has.                                      *)
LEMMA HeadMayBeDelivered ==
  ASSUME HistoryInv, NEW r \in Relay, pc[r] \in {"publish", "mark"}
  PROVE  /\ Head(r) \in Event /\ Head(r) \in Committed
         /\ owes[Head(r)] = {}
  <1>1. /\ TypeOK
        /\ batch[r] \in SUBSET Event /\ batch[r] # {}
    BY DEF HistoryInv, RelayInv, TypeOK
  <1>2. /\ Head(r) \in batch[r] /\ Head(r) \in Event
        /\ \A f \in batch[r] : CreatedAt[Head(r)] <= CreatedAt[f]
    BY <1>1, HeadIsOldest
  <1>3. Head(r) \in Committed
    BY <1>2 DEF HistoryInv, RelayInv, BatchIsCommitted
  <1>4. ASSUME NEW f \in owes[Head(r)]
        PROVE  FALSE
    <2>1. f \in Earlier(Head(r)) /\ f \in known[r]
      BY <1>2, <1>4 DEF HistoryInv, OwesEarlier, OwesKnown
    <2>2. f \in Event /\ f \notin Delivered /\ CreatedAt[f] < CreatedAt[Head(r)]
      BY <2>1 DEF Earlier, Committed
    <2>3. CreatedAt[f] \in Nat /\ CreatedAt[Head(r)] \in Nat
      BY <1>2, <2>2, RelayAssumption
    <2>4. f \notin batch[r]
      BY <1>2, <2>2, <2>3
    <2>5. copies[f] > 0
      BY <1>2, <2>1, <2>2, <2>4 DEF HistoryInv, RelayInv, OlderFirst
    <2> QED
      BY <2>2, <2>5 DEF Delivered
  <1> QED
    BY <1>2, <1>3, <1>4

(* A new row is a commit.                                                  *)
LEMMA InsertCommits ==
  ASSUME HistoryInv, HistoryNext, NEW e \in Event, Insert(e)
  PROVE  D!Commit(e)
  <1>1. status \in [Event -> {"absent", "PENDING", "PROCESSED"}]
    BY DEF HistoryInv, RelayInv, TypeOK
  <1>2. e \notin Committed /\ Committed' = Committed \cup {e}
    BY <1>1 DEF Insert, Committed
  <1>3. Processed' = Processed /\ Delivered' = Delivered
    BY <1>1 DEF Insert, Processed, Delivered
  <1>4. owes' = [owes EXCEPT ![e] = Earlier(e)]
    <2>1. \A f \in Event : owes[f] \ Delivered = owes[f]
      BY DEF HistoryInv, OwesEarlier, Earlier
    <2> QED
      BY <1>2, <1>3, <2>1 DEF HistoryNext, HistoryInv
  <1> QED
    BY <1>2, <1>3, <1>4 DEF D!Commit, Earlier

(* As long as no row is inserted and no event delivered nothing changes    *)
(* what is owed.                                                           *)
LEMMA OwesKept ==
  ASSUME HistoryInv, HistoryNext, Committed' = Committed, Delivered' = Delivered
  PROVE  owes' = owes
  <1>1. \A f \in Event : owes[f] \ Delivered = owes[f]
    BY DEF HistoryInv, OwesEarlier, Earlier
  <1> QED
    BY <1>1 DEF HistoryNext, HistoryInv

(* A publish is a delivery, acknowledged or not.                           *)
LEMMA PublishDelivers ==
  ASSUME HistoryInv, HistoryNext, NEW r \in Relay, pc[r] = "publish",
         copies' = [copies EXCEPT ![Head(r)] = @ + 1], status' = status
  PROVE  D!Deliver(Head(r))
  <1>1. copies \in [Event -> Nat]
    BY DEF HistoryInv, RelayInv, TypeOK
  <1>2. Head(r) \in Event
    BY HeadMayBeDelivered
  <1>3. Delivered' = Delivered \cup {Head(r)}
    <2>1. ASSUME NEW e \in Event
          PROVE  copies'[e] > 0 <=> copies[e] > 0 \/ e = Head(r)
      BY <1>1, <1>2
    <2> QED
      BY <1>2, <2>1 DEF Delivered
  <1>4. Committed' = Committed /\ Processed' = Processed
    BY DEF Committed, Processed
  <1>5. owes' = [f \in Event |-> owes[f] \ {Head(r)}]
    <2>1. \A f \in Event : owes[f] \ Delivered' = owes[f] \ {Head(r)}
      BY <1>3 DEF HistoryInv, OwesEarlier, Earlier
    <2> QED
      BY <1>4, <2>1 DEF HistoryNext
  <1> QED
    BY <1>3, <1>4, <1>5, HeadMayBeDelivered DEF D!Deliver

(* A mark is made of an event that is delivered.                           *)
LEMMA MarkMarks ==
  ASSUME HistoryInv, HistoryNext, NEW r \in Relay, pc[r] = "mark",
         status' = [status EXCEPT ![Head(r)] = "PROCESSED"], copies' = copies
  PROVE  D!Mark(Head(r))
  <1>1. status \in [Event -> {"absent", "PENDING", "PROCESSED"}]
    BY DEF HistoryInv, RelayInv, TypeOK
  <1>2. Head(r) \in Event /\ Head(r) \in Committed
    BY HeadMayBeDelivered
  <1>3. Head(r) \in Delivered
    BY <1>2 DEF HistoryInv, RelayInv, MarkedIsPublished, Delivered
  <1>4. /\ Committed' = Committed
        /\ Processed' = Processed \cup {Head(r)}
        /\ Delivered' = Delivered
    BY <1>1, <1>2 DEF Committed, Processed, Delivered
  <1> QED
    BY <1>3, <1>4, OwesKept DEF D!Mark

(* Every step commits, delivers, marks or stutters.                        *)
LEMMA StepDelivers ==
  ASSUME HistoryInv, [HistoryNext]_historyVars
  PROVE  [D!Next]_(D!vars)
  <1>1. ASSUME status' = status, copies' = copies, owes' = owes
        PROVE  UNCHANGED D!vars
    BY <1>1 DEF D!vars, Committed, Delivered, Processed
  <1>2. CASE UNCHANGED historyVars
    BY <1>1, <1>2 DEF historyVars, vars
  <1>3. ASSUME HistoryNext, NEW e \in Event, Insert(e)
        PROVE  D!Next
    BY <1>3, InsertCommits DEF D!Next
  <1>4. ASSUME HistoryNext, NEW r \in Relay, RelayStep(r)
        PROVE  [D!Next]_(D!vars)
    <2>1. CASE status' = status /\ copies' = copies
      <3>1. Committed' = Committed /\ Delivered' = Delivered
        BY <2>1 DEF Committed, Delivered
      <3> QED
        BY <1>1, <1>4, <2>1, <3>1, OwesKept
    <2>2. CASE /\ pc[r] = "publish" /\ status' = status
               /\ copies' = [copies EXCEPT ![Head(r)] = @ + 1]
      <3>1. Head(r) \in Event /\ D!Deliver(Head(r))
        BY <1>4, <2>2, PublishDelivers, HeadMayBeDelivered
      <3> QED
        BY <3>1 DEF D!Next
    <2>3. CASE /\ pc[r] = "mark" /\ copies' = copies
               /\ status' = [status EXCEPT ![Head(r)] = "PROCESSED"]
      <3>1. Head(r) \in Event /\ D!Mark(Head(r))
        BY <1>4, <2>3, MarkMarks, HeadMayBeDelivered
      <3> QED
        BY <3>1 DEF D!Next
    <2> QED
      BY <1>4, <2>1, <2>2, <2>3
      DEF RelayStep, Run, Boot, GetPendingEvents, Tick, WriteMessage,
          MarkEventProcessed, CallFails, PublishUnacknowledged,
          MarkUnacknowledged, Crash, outbox
  <1> QED
    BY <1>2, <1>3, <1>4 DEF HistoryNext, Next, RelayStep

(* The relays implement Delivery, whatever their number, their batches and *)
(* their faults: what Kafka gets is committed, in the order of created_at  *)
(* as far as it was committed in that order, and marked last.              *)
THEOREM RelaysImplementDelivery == HistorySpec => ImplementsDelivery
  <1>1. HistoryInit => D!Init
    BY DEF HistoryInit, Init, D!Init, Committed, Delivered, Processed
  <1>2. HistoryInv /\ [HistoryNext]_historyVars => [D!Next]_(D!vars)
    BY StepDelivers
  <1> QED
    BY <1>1, <1>2, HistoryInvariance, PTL
    DEF HistorySpec, ImplementsDelivery, D!Spec
===============================================================================
