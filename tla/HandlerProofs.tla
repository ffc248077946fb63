----------------------------- MODULE HandlerProofs -----------------------------
(***************************************************************************)
(* Proofs about AuthorizeHandler for every set of workers, keys, requests  *)
(* and faults.                                                             *)
(***************************************************************************)
EXTENDS AuthorizeHandler, TLAPS

(* What a command may do to the value of a key.                            *)
StoreActions(k, r) ==
    \/ SetMarker(k)
    \/ SetResult(k, r)
    \/ Delete(k)
    \/ UNCHANGED store

(* Every command leaves a value of the type under its key, and touches no  *)
(* other key.                                                              *)
LEMMA CommandType ==
  ASSUME StoreType, NEW k \in Key, NEW r \in Result, StoreActions(k, r)
  PROVE  StoreType' /\ \A j \in Key \ {k} : store'[j] = store[j]
  BY DEF StoreActions, SetMarker, SetResult, Delete, StoreType

(* One step of one worker, as Next has it.                                 *)
WorkerStep(w) ==
    \/ \E r \in Request : Receive(w, r)
    \/ Serve(w)
    \/ ReplyLost(w)
    \/ CallFails(w)
    \/ Panic(w)

(* The fields of a request have their types.                               *)
LEMMA RequestType ==
  ASSUME NEW r \in Request
  PROVE  r.key \in Key \cup {NoKey} /\ r.txn \in Result /\ r.decodes \in BOOLEAN
  BY HandlerAssumption

(* What a step may do to the record of the worst fault.                    *)
LEMMA WorstStep ==
  ASSUME worst \in 0..2, [Next]_vars
  PROVE  /\ worst' \in 0..2
         /\ worst <= worst'
         /\ (\E w \in Worker : ReplyLost(w)) => worst' = 2
         /\ (\E k \in Key : Expire(k)) => worst' = 2
         /\ (\E w \in Worker : CallFails(w) \/ Panic(w)) => worst' > 0
  <1>1. ASSUME NEW n \in 0..2, Worsen(n)
        PROVE  worst' \in 0..2 /\ worst <= worst' /\ n <= worst'
    BY <1>1 DEF Worsen
  <1>2. ASSUME NEW w \in Worker, ReplyLost(w) PROVE Worsen(2)
    BY <1>2 DEF ReplyLost
  <1>3. ASSUME NEW k \in Key, Expire(k) PROVE Worsen(2)
    BY <1>3 DEF Expire
  <1>4. ASSUME NEW w \in Worker, CallFails(w) \/ Panic(w) PROVE Worsen(1)
    BY <1>4 DEF CallFails, Panic
  <1>5. ASSUME NEW w \in Worker, (\E r \in Request : Receive(w, r)) \/ Serve(w)
        PROVE  UNCHANGED worst \/ Worsen(1)
    BY <1>5 DEF Receive, Serve, Acquire, LookUp, Decode, Post, Decline,
       Complete, Release
  <1>6. Crash \/ UNCHANGED vars => UNCHANGED worst
    BY DEF Crash, vars
  <1> QED
    BY <1>1, <1>2, <1>3, <1>4, <1>5, <1>6 DEF Next

(* The initial state is well typed.                                        *)
LEMMA InitType == Init => TypeOK
  <1> SUFFICES ASSUME Init PROVE TypeOK
    OBVIOUS
  <1>1. (CHOOSE r \in Request : TRUE) \in Request
    BY HandlerAssumption
  <1> QED
    BY <1>1 DEF Init, StoreInit, TypeOK, StoreType, CallsType, NoAnswer, Answer

(* Answering keeps the types.                                              *)
LEMMA ReturnType ==
  ASSUME CallsType, NEW w \in Worker, NEW a \in Answer, Return(w, a)
  PROVE  CallsType'
  BY DEF CallsType, Return, KeyOf

(* Going on to another step keeps the types.                               *)
LEMMA GotoType ==
  ASSUME CallsType, NEW w \in Worker, pc[w] # "idle",
         NEW next \in {"lookup", "decode", "authorize", "complete"},
         Goto(w, next)
  PROVE  CallsType'
  BY DEF CallsType, Goto, KeyOf

(* So does deciding on an error.                                           *)
LEMMA RespondType ==
  ASSUME CallsType, NEW w \in Worker, pc[w] # "idle",
         NEW status \in {400, 404, 409, 422, 500}
  PROVE  /\ Respond(status) \in Answer
         /\ ReleaseAnd(w, status) => CallsType'
  <1>1. Respond(status) \in Answer
    BY DEF Respond, Answer
  <1>2. ASSUME ReleaseAnd(w, status) PROVE CallsType'
    BY <1>1, <1>2 DEF ReleaseAnd, CallsType, KeyOf
  <1> QED
    BY <1>1, <1>2

(* A worker's step keeps the types.                                        *)
LEMMA StepType ==
  ASSUME TypeOK, NEW w \in Worker, WorkerStep(w)
  PROVE  TypeOK'
  <1> USE DEF TypeOK
  <1>0. worst' \in 0..2
    BY WorstStep DEF WorkerStep, Next
  <1>1. CASE \E r \in Request : Receive(w, r)
    <2>1. PICK r \in Request : Receive(w, r)
      BY <1>1
    <2>2. Respond(400) \in Answer /\ NoAnswer \in Answer
      BY DEF Respond, NoAnswer, Answer
    <2>3. r.key = NoKey \/ r.key \in Key
      BY RequestType
    <2> QED
      BY <1>0, <2>1, <2>2, <2>3 DEF Receive, StoreType, CallsType, KeyOf
  <1>2. ASSUME pc[w] # "idle" PROVE KeyOf(w) \in Key /\ req[w].txn \in Result
    BY <1>2, RequestType DEF CallsType
  <1>3. CASE Acquire(w)
    <2>1. CallsType'
      BY <1>3, GotoType DEF Acquire
    <2> QED
      BY <1>0, <1>2, <1>3, <2>1, CommandType DEF Acquire, ExecuteAcquire, StoreActions
  <1>4. CASE LookUp(w)
    <2>1. HasResult(KeyOf(w)) => Replay(store[KeyOf(w)]) \in Answer
      BY DEF HasResult, Replay, Answer
    <2>2. Respond(409) \in Answer
      BY DEF Respond, Answer
    <2>3. CallsType'
      BY <1>4, <2>1, <2>2, ReturnType DEF LookUp
    <2> QED
      BY <1>0, <1>4, <2>3 DEF LookUp, StoreType
  <1>5. CASE Decode(w)
    <2>1. CallsType'
      BY <1>5, GotoType, RespondType DEF Decode
    <2> QED
      BY <1>0, <1>5, <2>1 DEF Decode, StoreType
  <1>6. CASE Post(w)
    <2>1. CallsType'
      BY <1>6, GotoType, RespondType DEF Post
    <2> QED
      BY <1>0, <1>2, <1>6, <2>1 DEF Post, Posting, StoreType
  <1>7. CASE Decline(w)
    <2>1. CallsType'
      BY <1>7, RespondType DEF Decline
    <2> QED
      BY <1>0, <1>7, <2>1 DEF Decline, StoreType
  <1>8. CASE Complete(w)
    <2>1. Replay(req[w].txn) \in Answer
      BY <1>2, <1>8 DEF Complete, Replay, Answer
    <2>2. CallsType'
      BY <1>8, <2>1, ReturnType, RespondType DEF Complete
    <2> QED
      BY <1>0, <1>2, <1>8, <2>2, CommandType DEF Complete, StoreActions
  <1>9. CASE Release(w)
    <2>1. CallsType'
      BY <1>9, ReturnType DEF Release, CallsType
    <2> QED
      BY <1>0, <1>2, <1>9, <2>1, CommandType DEF Release, StoreActions
  <1>10. CASE ReplyLost(w)
    <2>1. CallsType'
      BY <1>10 DEF ReplyLost, calls, CallsType, KeyOf
    <2> QED
      BY <1>0, <1>2, <1>10, <2>1, CommandType
      DEF ReplyLost, ExecuteAcquire, StoreActions
  <1>11. CASE CallFails(w)
    <2>1. CallsType'
      BY <1>11, ReturnType, RespondType DEF CallFails, CallsType
    <2> QED
      BY <1>0, <1>11, <2>1 DEF CallFails, StoreType
  <1>12. CASE Panic(w)
    <2>1. CallsType'
      BY <1>12, RespondType DEF Panic
    <2> QED
      BY <1>0, <1>12, <2>1 DEF Panic, StoreType
  <1> QED
    BY <1>1, <1>3, <1>4, <1>5, <1>6, <1>7, <1>8, <1>9, <1>10, <1>11, <1>12
    DEF WorkerStep, Serve

(* Every step keeps the types.                                             *)
LEMMA NextType == TypeOK /\ [Next]_vars => TypeOK'
  <1> SUFFICES ASSUME TypeOK, [Next]_vars PROVE TypeOK'
    OBVIOUS
  <1>0. worst' \in 0..2
    BY WorstStep DEF TypeOK
  <1>1. CASE Crash
    BY <1>0, <1>1 DEF Crash, TypeOK, StoreType, CallsType, NoAnswer, Answer, KeyOf
  <1>2. CASE \E k \in Key : Expire(k)
    BY <1>0, <1>2 DEF Expire, Elapse, Delete, TypeOK, StoreType, CallsType, calls, KeyOf
  <1>3. CASE UNCHANGED vars
    BY <1>0, <1>3 DEF vars, TypeOK, StoreType, CallsType, KeyOf
  <1> QED
    BY <1>1, <1>2, <1>3, StepType DEF Next, WorkerStep

(* Type correctness of the store and of the handlers, under every fault.   *)
THEOREM HandlerTypeCorrect == Spec => []TypeOK
  BY InitType, NextType, PTL DEF Spec

(***************************************************************************)
(* What is stored or answered is posted.                                   *)
(***************************************************************************)

(* The invariant behind AnswerIsTrue: it has to say the same of stored     *)
(* responses, and of workers about to store one.                           *)
StoredIsPosted ==
    \A k \in Key : store[k] \in Result =>
        [key |-> k, txn |-> store[k]] \in posted

CompletedIsPosted ==
    \A w \in Worker : pc[w] = "complete" =>
        [key |-> KeyOf(w), txn |-> req[w].txn] \in posted

TruthInv == TypeOK /\ StoredIsPosted /\ CompletedIsPosted /\ AnswerIsTrue

(* Nothing is answered or stored at first.                                 *)
LEMMA InitTruth == Init => TruthInv
  BY InitType, IdempotencyAssumption
  DEF Init, StoreInit, TruthInv, StoredIsPosted, CompletedIsPosted,
      AnswerIsTrue, NoAnswer

(* A step of a worker never takes a posting away, and leaves the calls of  *)
(* the other workers alone.                                                *)
LEMMA OthersUnchanged ==
  ASSUME TypeOK, NEW w \in Worker, WorkerStep(w)
  PROVE  /\ posted \subseteq posted'
         /\ \A v \in Worker \ {w} :
               /\ pc'[v] = pc[v] /\ req'[v] = req[v] /\ answer'[v] = answer[v]
               /\ KeyOf(v)' = KeyOf(v)
  BY DEF WorkerStep, Receive, Serve, Acquire, LookUp, Decode, Post, Decline,
     Complete, Release, ReplyLost, CallFails, Panic, Goto, Return, ReleaseAnd,
     TypeOK, CallsType, KeyOf, calls

(* A response enters the store only from a worker that has posted it.      *)
LEMMA StoreTruth ==
  ASSUME TruthInv, NEW w \in Worker, WorkerStep(w)
  PROVE  StoredIsPosted'
  <1> USE DEF TruthInv
  <1>1. posted \subseteq posted'
    BY OthersUnchanged
  <1>2. CASE Complete(w) \/ (ReplyLost(w) /\ pc[w] = "complete")
    <2>1. /\ SetResult(KeyOf(w), req[w].txn)
          /\ [key |-> KeyOf(w), txn |-> req[w].txn] \in posted
          /\ KeyOf(w) \in Key
      BY <1>2 DEF Complete, ReplyLost, CompletedIsPosted, TypeOK, CallsType
    <2> QED
      BY <1>1, <2>1 DEF SetResult, StoredIsPosted, TypeOK, StoreType
  <1>3. CASE \/ Acquire(w)
             \/ Release(w)
             \/ (ReplyLost(w) /\ pc[w] # "complete")
    <2>1. KeyOf(w) \in Key
      BY <1>3 DEF Acquire, Release, ReplyLost, TypeOK, CallsType
    <2>2. SetMarker(KeyOf(w)) \/ Delete(KeyOf(w))
      BY <1>3 DEF Acquire, Release, ReplyLost, ExecuteAcquire
    <2> QED
      BY <1>1, <2>1, <2>2, IdempotencyAssumption
      DEF SetMarker, Delete, StoredIsPosted, TypeOK, StoreType
  <1>4. CASE UNCHANGED store
    BY <1>1, <1>4 DEF StoredIsPosted
  <1>5. CASE \/ \E r \in Request : Receive(w, r)
             \/ LookUp(w) \/ Decode(w) \/ Post(w) \/ Decline(w)
             \/ CallFails(w) \/ Panic(w)
    BY <1>4, <1>5
    DEF Receive, LookUp, Decode, Post, Decline, CallFails, Panic
  <1> QED
    BY <1>2, <1>3, <1>5 DEF WorkerStep, Serve

(* A worker reaches "complete" only by posting, and answers 200 only with  *)
(* what it has posted or what it has found stored.                         *)
LEMMA CallTruth ==
  ASSUME TruthInv, NEW w \in Worker, WorkerStep(w)
  PROVE  CompletedIsPosted' /\ AnswerIsTrue'
  <1> USE DEF TruthInv
  <1> DEFINE Own == /\ pc'[w] = "complete" =>
                          [key |-> KeyOf(w)', txn |-> req'[w].txn] \in posted'
                    /\ answer'[w].status = 200 =>
                          [key |-> KeyOf(w)', txn |-> answer'[w].result] \in posted'
  <1>1. Own
    <2> USE DEF TypeOK, CallsType, KeyOf
    <2>1. CASE \E r \in Request : Receive(w, r)
      BY <2>1 DEF Receive, NoAnswer, Respond
    <2>2. CASE LookUp(w)
      BY <2>2 DEF LookUp, Return, HasResult, Replay, Respond, StoredIsPosted
    <2>3. CASE Post(w)
      BY <2>3 DEF Post, Goto, ReleaseAnd, Respond, AnswerIsTrue
    <2>4. CASE Complete(w)
      BY <2>4 DEF Complete, Return, ReleaseAnd, Replay, Respond,
         CompletedIsPosted
    <2>5. CASE Acquire(w) \/ Decode(w) \/ Decline(w)
      BY <2>5 DEF Acquire, Decode, Decline, Goto, ReleaseAnd, Respond,
         AnswerIsTrue
    <2>6. CASE Release(w)
      BY <2>6 DEF Release, Return, AnswerIsTrue
    <2>7. CASE ReplyLost(w)
      BY <2>7 DEF ReplyLost, calls, AnswerIsTrue, CompletedIsPosted
    <2>8. CASE CallFails(w)
      BY <2>8 DEF CallFails, Return, ReleaseAnd, Respond, AnswerIsTrue
    <2>9. CASE Panic(w)
      BY <2>9 DEF Panic, ReleaseAnd, Respond
    <2> QED
      BY <2>1, <2>2, <2>3, <2>4, <2>5, <2>6, <2>7, <2>8, <2>9
      DEF WorkerStep, Serve
  <1> HIDE DEF Own
  <1>2. \A v \in Worker \ {w} :
          /\ pc'[v] = "complete" =>
                [key |-> KeyOf(v)', txn |-> req'[v].txn] \in posted'
          /\ answer'[v].status = 200 =>
                [key |-> KeyOf(v)', txn |-> answer'[v].result] \in posted'
    BY OthersUnchanged DEF CompletedIsPosted, AnswerIsTrue
  <1> QED
    BY <1>1, <1>2 DEF Own, CompletedIsPosted, AnswerIsTrue

(* The invariant is inductive.                                             *)
LEMMA NextTruth == TruthInv /\ [Next]_vars => TruthInv'
  <1> SUFFICES ASSUME TruthInv, [Next]_vars PROVE TruthInv'
    OBVIOUS
  <1>1. TypeOK'
    BY NextType DEF TruthInv
  <1>2. CASE \E w \in Worker : WorkerStep(w)
    BY <1>1, <1>2, StoreTruth, CallTruth DEF TruthInv
  <1>3. CASE Crash
    BY <1>1, <1>3
    DEF Crash, TruthInv, StoredIsPosted, CompletedIsPosted, AnswerIsTrue,
        NoAnswer, KeyOf
  <1>4. CASE \E k \in Key : Expire(k)
    BY <1>1, <1>4, IdempotencyAssumption
    DEF Expire, Elapse, Delete, TruthInv, StoredIsPosted, CompletedIsPosted,
        AnswerIsTrue, KeyOf, calls, TypeOK, StoreType
  <1>5. CASE UNCHANGED vars
    BY <1>1, <1>5
    DEF vars, TruthInv, StoredIsPosted, CompletedIsPosted, AnswerIsTrue, KeyOf
  <1> QED
    BY <1>2, <1>3, <1>4, <1>5 DEF Next, WorkerStep

(* Under every fault, what a client is told has been authorized is in the  *)
(* ledger, under the key it used.                                          *)
THEOREM AnswersAreTrue == Spec => []AnswerIsTrue
  <1>1. TruthInv => AnswerIsTrue
    BY DEF TruthInv
  <1> QED
    BY <1>1, InitTruth, NextTruth, PTL DEF Spec

(***************************************************************************)
(* Ownership of keys, until one expires or a reply is lost.                *)
(***************************************************************************)

(* A worker between AcquireLock and the end of its call wrote the marker   *)
(* that is in the store.                                                   *)
Holding(w) == pc[w] \in {"decode", "authorize", "complete", "release"}

HolderOwns ==
    \A w \in Worker : Holding(w) =>
        store[KeyOf(w)] = InProgress /\ owner[KeyOf(w)] = w

(* A worker that is not idle has not answered 200.                         *)
OpenCallsUnanswered ==
    \A w \in Worker : pc[w] # "idle" => answer[w].status # 200

(* An answer of 200 is what the store has.                                 *)
Stands ==
    \A w \in Worker : answer[w].status = 200 =>
        store[KeyOf(w)] = answer[w].result

Owned == TruthInv /\ HolderOwns /\ OpenCallsUnanswered /\ Stands

OwnerInv == TruthInv /\ (worst < 2 => Owned)

(* Nobody holds a key at first.                                            *)
LEMMA InitOwner == Init => Owned
  BY InitTruth DEF Init, Owned, HolderOwns, Holding, OpenCallsUnanswered,
     Stands, NoAnswer

(* The transaction of a 200 answer is a proper one.                        *)
LEMMA AnsweredResult ==
  ASSUME TruthInv, NEW w \in Worker, answer[w].status = 200
  PROVE  answer[w].result \in Result
  <1>1. [key |-> KeyOf(w), txn |-> answer[w].result] \in posted
    BY DEF TruthInv, AnswerIsTrue
  <1>2. [key |-> KeyOf(w), txn |-> answer[w].result] \in [key : Key, txn : Result]
    BY <1>1 DEF TruthInv, TypeOK, Posting
  <1> QED
    BY <1>2

(* Two workers never hold the same key, and a key with an answer is held   *)
(* by nobody.                                                              *)
LEMMA HeldByOne ==
  ASSUME Owned, NEW w \in Worker, Holding(w)
  PROVE  /\ KeyOf(w) \in Key
         /\ \A v \in Worker \ {w} : Holding(v) => KeyOf(v) # KeyOf(w)
         /\ \A v \in Worker : answer[v].status = 200 => KeyOf(v) # KeyOf(w)
  <1>1. store[KeyOf(w)] = InProgress /\ owner[KeyOf(w)] = w
    BY DEF Owned, HolderOwns
  <1>2. \A v \in Worker : answer[v].status = 200 => answer[v].result \in Result
    BY AnsweredResult DEF Owned
  <1> QED
    BY <1>1, <1>2, IdempotencyAssumption
    DEF Owned, HolderOwns, Stands, Holding, TruthInv, TypeOK, CallsType

(* What one step of a worker may do to the store and to the owners: take   *)
(* an absent key, or give up or complete the key it holds.                 *)
LEMMA StoreStep ==
  ASSUME Owned, NEW w \in Worker, WorkerStep(w), worst' < 2
  PROVE  \/ UNCHANGED <<store, owner>>
         \/ /\ Acquire(w)
            /\ KeyOf(w) \in Key
            /\ store[KeyOf(w)] = Absent
            /\ store' = [store EXCEPT ![KeyOf(w)] = InProgress]
            /\ owner' = [owner EXCEPT ![KeyOf(w)] = w]
         \/ /\ Complete(w)
            /\ Holding(w)
            /\ store' = [store EXCEPT ![KeyOf(w)] = req[w].txn]
            /\ UNCHANGED owner
         \/ /\ Release(w)
            /\ Holding(w)
            /\ store' = [store EXCEPT ![KeyOf(w)] = Absent]
            /\ UNCHANGED owner
  <1>1. CASE Acquire(w)
    BY <1>1 DEF Acquire, ExecuteAcquire, SetMarker, Acquires, Owned,
       TruthInv, TypeOK, CallsType
  <1>2. CASE Complete(w)
    BY <1>2 DEF Complete, SetResult, Completes, Holding, Owned, HolderOwns
  <1>3. CASE Release(w)
    BY <1>3 DEF Release, Delete, Holding
  <1>4. CASE \/ \E r \in Request : Receive(w, r)
             \/ LookUp(w) \/ Decode(w) \/ Post(w) \/ Decline(w)
             \/ CallFails(w) \/ Panic(w)
    BY <1>4 DEF Receive, LookUp, Decode, Post, Decline, CallFails, Panic
  <1>5. ~ReplyLost(w)
    BY WorstStep DEF Owned, TruthInv, TypeOK, WorkerStep, Next
  <1> QED
    BY <1>1, <1>2, <1>3, <1>4, <1>5 DEF WorkerStep, Serve

(* The step does not disturb what the other workers hold or have answered. *)
LEMMA OthersOwn ==
  ASSUME Owned, NEW w \in Worker, WorkerStep(w), worst' < 2,
         NEW v \in Worker \ {w}
  PROVE  /\ Holding(v) =>
               store'[KeyOf(v)] = store[KeyOf(v)] /\ owner'[KeyOf(v)] = owner[KeyOf(v)]
         /\ answer[v].status = 200 => store'[KeyOf(v)] = store[KeyOf(v)]
  <1>a. answer[v].status = 200 => answer[v].result \in Result
    BY AnsweredResult DEF Owned
  <1>1. /\ Holding(v) => store[KeyOf(v)] = InProgress
        /\ answer[v].status = 200 => store[KeyOf(v)] \in Result
    BY <1>a DEF Owned, HolderOwns, Stands
  <1>2. CASE Acquire(w)
    BY <1>1, <1>2, IdempotencyAssumption
    DEF Acquire, ExecuteAcquire, SetMarker, Acquires, Owned, TruthInv,
        TypeOK, StoreType
  <1>3. CASE Holding(w) /\ UNCHANGED owner
             /\ \E x : store' = [store EXCEPT ![KeyOf(w)] = x]
    BY <1>3, HeldByOne DEF Owned, TruthInv, TypeOK, StoreType
  <1> QED
    BY <1>2, <1>3, StoreStep

(* A step of a worker preserves the invariant.                             *)
LEMMA StepOwner ==
  ASSUME Owned, NEW w \in Worker, WorkerStep(w), worst' < 2
  PROVE  HolderOwns' /\ OpenCallsUnanswered' /\ Stands'
  <1> USE DEF Owned
  <1> DEFINE Own == /\ Holding(w)' => store'[KeyOf(w)'] = InProgress
                                       /\ owner'[KeyOf(w)'] = w
                    /\ pc'[w] # "idle" => answer'[w].status # 200
                    /\ answer'[w].status = 200 =>
                          store'[KeyOf(w)'] = answer'[w].result
  <1>1. Own
    <2> USE DEF TruthInv, TypeOK, CallsType, KeyOf, Holding
    <2>1. CASE \E r \in Request : Receive(w, r)
      BY <2>1 DEF Receive, NoAnswer, Respond
    <2>2. CASE Acquire(w)
      BY <2>2 DEF Acquire, ExecuteAcquire, SetMarker, Acquires, Goto,
         OpenCallsUnanswered, StoreType
    <2>3. CASE LookUp(w)
      BY <2>3 DEF LookUp, Return, HasResult, Replay, Respond
    <2>4. CASE Decode(w)
      BY <2>4 DEF Decode, Goto, ReleaseAnd, Respond, HolderOwns,
         OpenCallsUnanswered
    <2>5. CASE Post(w)
      BY <2>5 DEF Post, Goto, ReleaseAnd, Respond, HolderOwns,
         OpenCallsUnanswered
    <2>6. CASE Decline(w)
      BY <2>6 DEF Decline, ReleaseAnd, Respond, HolderOwns
    <2>7. CASE Complete(w)
      BY <2>7 DEF Complete, SetResult, Completes, Return, ReleaseAnd, Replay,
         Respond, HolderOwns, StoreType
    <2>8. CASE Release(w)
      BY <2>8 DEF Release, Return, OpenCallsUnanswered
    <2>9. CASE CallFails(w)
      BY <2>9 DEF CallFails, Return, ReleaseAnd, Respond, HolderOwns,
         OpenCallsUnanswered
    <2>10. CASE Panic(w)
      BY <2>10 DEF Panic, ReleaseAnd, Respond, HolderOwns
    <2>11. ~ReplyLost(w)
      BY WorstStep DEF WorkerStep, Next
    <2> QED
      BY <2>1, <2>2, <2>3, <2>4, <2>5, <2>6, <2>7, <2>8, <2>9, <2>10, <2>11
      DEF WorkerStep, Serve
  <1> HIDE DEF Own
  <1>2. ASSUME NEW v \in Worker \ {w}
        PROVE  /\ Holding(v)' => store'[KeyOf(v)'] = InProgress
                                  /\ owner'[KeyOf(v)'] = v
               /\ pc'[v] # "idle" => answer'[v].status # 200
               /\ answer'[v].status = 200 =>
                     store'[KeyOf(v)'] = answer'[v].result
    <2>1. /\ pc'[v] = pc[v] /\ answer'[v] = answer[v]
          /\ KeyOf(v)' = KeyOf(v) /\ Holding(v)' = Holding(v)
      BY OthersUnchanged DEF TruthInv, Holding
    <2> QED
      BY <2>1, OthersOwn DEF HolderOwns, OpenCallsUnanswered, Stands
  <1> QED
    BY <1>1, <1>2 DEF Own, HolderOwns, OpenCallsUnanswered, Stands

(* The invariant is inductive.                                             *)
LEMMA NextOwner == OwnerInv /\ [Next]_vars => OwnerInv'
  <1> SUFFICES ASSUME OwnerInv, [Next]_vars, worst' < 2
               PROVE  TruthInv' /\ Owned'
    BY NextTruth DEF OwnerInv
  <1>1. TruthInv'
    BY NextTruth DEF OwnerInv
  <1>2. worst \in 0..2
    BY DEF OwnerInv, TruthInv, TypeOK
  <1>3. Owned
    BY <1>2, WorstStep DEF OwnerInv
  <1>4. CASE \E w \in Worker : WorkerStep(w)
    BY <1>1, <1>3, <1>4, StepOwner DEF Owned
  <1>5. CASE Crash
    BY <1>1, <1>3, <1>5 DEF Crash, Owned, HolderOwns, Holding,
       OpenCallsUnanswered, Stands, NoAnswer
  <1>6. CASE UNCHANGED vars
    BY <1>1, <1>3, <1>6 DEF vars, Owned, HolderOwns, Holding,
       OpenCallsUnanswered, Stands, KeyOf
  <1>7. ~ \E k \in Key : Expire(k)
    BY <1>2, WorstStep
  <1> QED
    BY <1>4, <1>5, <1>6, <1>7 DEF Next, WorkerStep

(* It holds in every reachable state.                                      *)
LEMMA OwnerInvariance == Spec => []OwnerInv
  <1>1. Init => OwnerInv
    BY InitOwner DEF OwnerInv, Owned
  <1> QED
    BY <1>1, NextOwner, PTL DEF Spec

(* Failed calls, panics and restarts never let two workers hold one key.   *)
THEOREM OneHolderPerKey == Spec => []OneHolder
  <1>1. OwnerInv => OneHolder
    BY HeldByOne DEF OwnerInv, OneHolder, Holds, Holding
  <1> QED
    BY <1>1, OwnerInvariance, PTL

(* Nor do they make the service change an answer it has given.             *)
THEOREM AnswersStand == Spec => []AnswerStands
  <1>1. OwnerInv => AnswerStands
    BY DEF OwnerInv, Owned, Stands, AnswerStands
  <1> QED
    BY <1>1, OwnerInvariance, PTL

(* Only the worker that wrote the marker replaces it by a result.          *)
THEOREM OwnersComplete == Spec => CompletedByHolder
  <1>1. OwnerInv /\ [Next]_vars =>
          [\A w \in Worker :
             worst' < 2 /\ Complete(w) /\ store' # store
                 => owner[KeyOf(w)] = w]_vars
    BY DEF OwnerInv, Owned, HolderOwns, Holding, Complete
  <1> QED
    BY <1>1, OwnerInvariance, PTL DEF Spec, CompletedByHolder

(***************************************************************************)
(* Retries, as long as nothing but process stops goes wrong.               *)
(***************************************************************************)

(* A key under which something is posted is never free; while somebody     *)
(* holds it, it is the worker that posted, about to complete.              *)
PostedKeysTaken ==
    \A p \in posted :
        /\ store[p.key] # Absent
        /\ \A w \in Worker : Holding(w) /\ KeyOf(w) = p.key => pc[w] = "complete"

(* No two transactions are posted under one key.                           *)
KeysDiffer == \A p, q \in posted : p.key = q.key => p = q

RetryInv == OwnerInv /\ (worst = 0 => PostedKeysTaken /\ KeysDiffer)

(* A step of a worker preserves both.                                      *)
LEMMA StepRetry ==
  ASSUME Owned, PostedKeysTaken, KeysDiffer,
         NEW w \in Worker, WorkerStep(w), worst' = 0
  PROVE  PostedKeysTaken' /\ KeysDiffer'
  <1>1. worst \in 0..2
    BY DEF Owned, TruthInv, TypeOK
  <1>2. \A p \in posted : p.key \in Key
    BY DEF Owned, TruthInv, TypeOK, Posting
  <1>3. \A v \in Worker \ {w} :
          pc'[v] = pc[v] /\ KeyOf(v)' = KeyOf(v) /\ Holding(v)' = Holding(v)
    BY OthersUnchanged DEF Owned, TruthInv, Holding
  <1>4. store \in [Key -> Result \cup {Absent, InProgress}]
    BY DEF Owned, TruthInv, TypeOK, StoreType
  <1>5. CASE Acquire(w)
    <2>1. posted' = posted
      BY <1>5 DEF Acquire
    <2>2. \A p \in posted : store'[p.key] # Absent
      BY <1>2, <1>4, <1>5, IdempotencyAssumption
      DEF Acquire, ExecuteAcquire, SetMarker, PostedKeysTaken
    <2>3. /\ KeyOf(w)' = KeyOf(w)
          /\ Holding(w)' => store[KeyOf(w)] = Absent
      BY <1>5 DEF Acquire, Goto, Acquires, Holding, KeyOf, Owned, TruthInv,
         TypeOK, CallsType
    <2> QED
      BY <1>3, <2>1, <2>2, <2>3 DEF PostedKeysTaken, KeysDiffer
  <1>6. CASE Post(w)
    <2> DEFINE p == [key |-> KeyOf(w), txn |-> req[w].txn]
    <2>1. /\ Holding(w) /\ pc[w] = "authorize"
          /\ posted' = posted \cup {p}
          /\ store' = store
          /\ pc'[w] = "complete" /\ KeyOf(w)' = KeyOf(w)
      BY <1>1, <1>6 DEF Post, Goto, Worsen, Holding, KeyOf, Owned, TruthInv,
         TypeOK, CallsType
    <2>2. p.key = KeyOf(w)
      OBVIOUS
    <2> HIDE DEF p
    <2>3. \A q \in posted : q.key # KeyOf(w)
      BY <2>1 DEF PostedKeysTaken
    <2>4. store[KeyOf(w)] # Absent
      BY <2>1, IdempotencyAssumption DEF Owned, HolderOwns
    <2>5. \A v \in Worker \ {w} : Holding(v) => KeyOf(v) # KeyOf(w)
      BY <2>1, HeldByOne
    <2> QED
      BY <1>3, <2>1, <2>2, <2>3, <2>4, <2>5
      DEF PostedKeysTaken, KeysDiffer
  <1>7. CASE Complete(w)
    <2>1. /\ posted' = posted /\ pc'[w] = "idle"
          /\ store' = [store EXCEPT ![KeyOf(w)] = req[w].txn]
          /\ req[w].txn \in Result
      BY <1>7, RequestType
      DEF Complete, SetResult, Completes, Return, Owned, HolderOwns,
          Holding, TruthInv, TypeOK, CallsType
    <2>2. \A p \in posted : store'[p.key] # Absent
      BY <1>2, <1>4, <2>1, IdempotencyAssumption DEF PostedKeysTaken
    <2> QED
      BY <1>3, <2>1, <2>2 DEF PostedKeysTaken, KeysDiffer, Holding
  <1>8. CASE Release(w)
    <2>1. /\ posted' = posted /\ pc'[w] = "idle"
          /\ store' = [store EXCEPT ![KeyOf(w)] = Absent]
          /\ Holding(w) /\ pc[w] # "complete"
      BY <1>8 DEF Release, Return, Delete, Holding, Owned, TruthInv, TypeOK,
         CallsType
    <2>2. \A p \in posted : p.key # KeyOf(w)
      BY <2>1 DEF PostedKeysTaken
    <2>3. \A p \in posted : store'[p.key] # Absent
      BY <1>2, <1>4, <2>1, <2>2 DEF PostedKeysTaken
    <2> QED
      BY <1>3, <2>1, <2>3 DEF PostedKeysTaken, KeysDiffer, Holding
  <1>9. CASE \E r \in Request : Receive(w, r)
    <2>1. UNCHANGED <<store, posted>> /\ ~Holding(w)'
      BY <1>9 DEF Receive, Holding, Owned, TruthInv, TypeOK, CallsType
    <2> QED
      BY <1>3, <2>1 DEF PostedKeysTaken, KeysDiffer
  <1>10. CASE LookUp(w)
    <2>1. UNCHANGED <<store, posted>> /\ ~Holding(w)'
      BY <1>10 DEF LookUp, Return, Holding, Owned, TruthInv, TypeOK, CallsType
    <2> QED
      BY <1>3, <2>1 DEF PostedKeysTaken, KeysDiffer
  <1>11. CASE Decode(w) \/ Decline(w)
    <2>1. /\ UNCHANGED <<store, posted>> /\ KeyOf(w)' = KeyOf(w)
          /\ Holding(w) /\ pc[w] # "complete"
      BY <1>11 DEF Decode, Decline, Goto, ReleaseAnd, Holding, KeyOf
    <2>2. \A p \in posted : p.key # KeyOf(w)
      BY <2>1 DEF PostedKeysTaken
    <2> QED
      BY <1>3, <2>1, <2>2 DEF PostedKeysTaken, KeysDiffer
  <1>12. ~ReplyLost(w) /\ ~CallFails(w) /\ ~Panic(w)
    BY <1>1, WorstStep DEF WorkerStep, Next
  <1> QED
    BY <1>5, <1>6, <1>7, <1>8, <1>9, <1>10, <1>11, <1>12 DEF WorkerStep, Serve

(* The invariant holds in every reachable state.                           *)
LEMMA RetryInvariance == Spec => []RetryInv
  <1>1. Init => RetryInv
    BY InitOwner DEF Init, RetryInv, OwnerInv, Owned, PostedKeysTaken, KeysDiffer
  <1>2. ASSUME RetryInv, [Next]_vars
        PROVE  RetryInv'
    <2>1. OwnerInv'
      BY <1>2, NextOwner DEF RetryInv
    <2> SUFFICES ASSUME worst' = 0
                 PROVE  PostedKeysTaken' /\ KeysDiffer'
      BY <2>1 DEF RetryInv
    <2>2. worst \in 0..2
      BY <1>2 DEF RetryInv, OwnerInv, TruthInv, TypeOK
    <2>3. Owned /\ PostedKeysTaken /\ KeysDiffer
      BY <1>2, <2>2, WorstStep DEF RetryInv, OwnerInv
    <2>4. CASE \E w \in Worker : WorkerStep(w)
      BY <2>3, <2>4, StepRetry
    <2>5. CASE Crash
      BY <2>3, <2>5 DEF Crash, PostedKeysTaken, KeysDiffer, Holding
    <2>6. CASE UNCHANGED vars
      BY <2>3, <2>6 DEF vars, PostedKeysTaken, KeysDiffer, Holding, KeyOf
    <2>7. ~ \E k \in Key : Expire(k)
      BY <1>2, <2>2, WorstStep
    <2> QED
      BY <1>2, <2>4, <2>5, <2>6, <2>7 DEF Next, WorkerStep
  <1> QED
    BY <1>1, <1>2, PTL DEF Spec

(* A key pays for at most one transaction, whatever transactions its       *)
(* retries name.                                                           *)
THEOREM KeysPostOnce == Spec => []PostedOncePerKey
  <1>1. RetryInv => PostedOncePerKey
    BY DEF RetryInv, KeysDiffer, PostedOncePerKey
  <1> QED
    BY <1>1, RetryInvariance, PTL

(* A worker answers with an error other than 409 by releasing its key, and *)
(* what it releases, until then its own, has nothing posted under it.      *)
LEMMA AnswerStep ==
  ASSUME RetryInv, [Next]_vars, worst' = 0, NEW w \in Worker,
         Answers(w), answer'[w].status \notin {200, 409}
  PROVE  \A p \in posted' : p.key # KeyOf(w)
  <1>1. worst = 0 /\ Owned /\ PostedKeysTaken
    BY WorstStep DEF RetryInv, OwnerInv, TruthInv, TypeOK
  <1>2. WorkerStep(w)
    <2>1. ASSUME NEW v \in Worker, WorkerStep(v), v # w
          PROVE  FALSE
      BY <1>1, <2>1, OthersUnchanged DEF Answers, Owned, TruthInv
    <2>2. ~Crash
      BY DEF Crash, Answers
    <2>3. ~ \E k \in Key : Expire(k)
      BY <1>1, WorstStep
    <2>4. ~ UNCHANGED vars
      BY DEF vars, Answers
    <2> QED
      BY <2>1, <2>2, <2>3, <2>4 DEF Next, WorkerStep
  <1>3. ~ReplyLost(w) /\ ~CallFails(w) /\ ~Panic(w)
    BY <1>1, WorstStep
  <1>4. ~ \E r \in Request : Receive(w, r)
    BY DEF Receive, Answers
  <1>5. ~Acquire(w) /\ ~Decode(w) /\ ~Post(w) /\ ~Decline(w)
    BY <1>1 DEF Answers, Acquire, Decode, Post, Decline, Goto, ReleaseAnd,
       Owned, TruthInv, TypeOK, CallsType
  <1>6. ~LookUp(w)
    BY <1>1 DEF LookUp, Return, Respond, Replay, Owned, TruthInv, TypeOK, CallsType
  <1>7. ~Complete(w)
    BY <1>1 DEF Complete, Completes, Return, Replay, Owned, HolderOwns, Holding,
       TruthInv, TypeOK, CallsType
  <1>8. Release(w)
    BY <1>2, <1>3, <1>4, <1>5, <1>6, <1>7 DEF WorkerStep, Serve
  <1> QED
    BY <1>1, <1>8 DEF Release, PostedKeysTaken, Holding

(* An error answer other than 409 means that nothing is posted under the   *)
(* key, by this call or an earlier one.                                    *)
THEOREM DeclinedIsNotPosted == Spec => DeclinedMeansNotPosted
  <1>1. RetryInv /\ [Next]_vars =>
          [\A w \in Worker :
             worst' = 0 /\ Answers(w) /\ answer'[w].status \notin {200, 409} =>
                 \A p \in posted' : p.key # KeyOf(w)]_vars
    BY AnswerStep
  <1> QED
    BY <1>1, RetryInvariance, PTL DEF Spec, DeclinedMeansNotPosted

(***************************************************************************)
(* Markers, as long as Redis answers and the process runs.                 *)
(***************************************************************************)

MarkerInv == OwnerInv /\ worst < 2 /\ NoOrphanMarker

(* A worker gives up the key it holds only by completing or releasing it.  *)
LEMMA HeldStaysHeld ==
  ASSUME Owned, NEW w \in Worker, WorkerStep(w), worst' < 2, ~CallFails(w),
         NEW k \in Key, store[k] = InProgress, store'[k] = InProgress,
         NEW v \in Worker, Holds(v, k)
  PROVE  Holds(v, k)'
  <1>1. CASE v # w
    BY <1>1, OthersUnchanged DEF Holds, Owned, TruthInv
  <1>2. CASE v = w
    <2> USE DEF Owned, TruthInv, TypeOK, CallsType, KeyOf
    <2>1. pc[w] \in {"decode", "authorize", "complete", "release"} /\ req[w].key = k
      BY <1>2 DEF Holds
    <2>2. CASE Decode(w) \/ Post(w) \/ Decline(w) \/ Panic(w)
      BY <1>2, <2>1, <2>2 DEF Decode, Post, Decline, Panic, Goto, ReleaseAnd, Holds
    <2>3. CASE Complete(w)
      <3>1. req[w].txn \in Result
        BY RequestType
      <3>2. store'[k] = req[w].txn
        BY <2>1, <2>3 DEF Complete, SetResult, Completes, StoreType
      <3> QED
        BY <3>1, <3>2, IdempotencyAssumption
    <2>4. CASE Release(w)
      <3>1. store'[k] = Absent
        BY <2>1, <2>4 DEF Release, Delete, StoreType
      <3> QED
        BY <3>1, IdempotencyAssumption
    <2>5. ~ReplyLost(w)
      BY WorstStep DEF WorkerStep, Next
    <2> QED
      BY <2>1, <2>2, <2>3, <2>4, <2>5
      DEF WorkerStep, Serve, Receive, Acquire, LookUp
  <1> QED
    BY <1>1, <1>2

(* While only panics go wrong, a marker leaves its holder only by being     *)
(* completed or released.                                                   *)
LEMMA MarkerStep ==
  ASSUME Faults \subseteq {"panic"}, MarkerInv, [Next]_vars
  PROVE  MarkerInv'
  <1>1. Owned /\ OwnerInv' /\ worst \in 0..2
    BY NextOwner DEF MarkerInv, OwnerInv, TruthInv, TypeOK
  <1>2. /\ ~Crash /\ ~ \E k \in Key : Expire(k)
        /\ \A w \in Worker : ~ReplyLost(w) /\ ~CallFails(w)
    BY DEF Crash, Expire, ReplyLost, CallFails
  <1>3. worst' < 2
    <2>1. ASSUME NEW w \in Worker, (\E r \in Request : Receive(w, r)) \/ Serve(w)
          PROVE  UNCHANGED worst \/ Worsen(1)
      BY <2>1 DEF Receive, Serve, Acquire, LookUp, Decode, Post, Decline, Complete, Release
    <2>2. ASSUME NEW w \in Worker, Panic(w)
          PROVE  Worsen(1)
      BY <2>2 DEF Panic
    <2>3. UNCHANGED worst \/ Worsen(1)
      BY <1>2, <2>1, <2>2 DEF Next, vars
    <2> QED
      BY <1>1, <2>3 DEF Worsen, MarkerInv
  <1>4. ASSUME NEW k \in Key, store'[k] = InProgress
        PROVE  \E v \in Worker : Holds(v, k)'
    <2>1. CASE UNCHANGED vars
      BY <1>4, <2>1 DEF vars, MarkerInv, NoOrphanMarker, Holds, KeyOf
    <2>2. ASSUME NEW w \in Worker, WorkerStep(w)
          PROVE  \E v \in Worker : Holds(v, k)'
      <3>1. CASE store[k] = InProgress
        <4>1. PICK v \in Worker : Holds(v, k)
          BY <3>1 DEF MarkerInv, NoOrphanMarker
        <4> QED
          BY <1>1, <1>2, <1>3, <1>4, <2>2, <3>1, <4>1, HeldStaysHeld
      <3>2. CASE store[k] # InProgress
        <4>1. Acquire(w) /\ KeyOf(w) = k /\ Acquires(KeyOf(w))
          <5>1. store \in [Key -> Result \cup {Absent, InProgress}]
            BY <1>1 DEF Owned, TruthInv, TypeOK, StoreType
          <5>2. ~UNCHANGED store
            BY <1>4, <3>2
          <5>3. Holding(w) => store[KeyOf(w)] = InProgress
            BY <1>1 DEF Owned, HolderOwns
          <5> QED
            BY <1>1, <1>3, <1>4, <2>2, <3>2, <5>1, <5>2, <5>3, StoreStep, IdempotencyAssumption
            DEF Acquires
        <4> QED
          BY <1>1, <4>1 DEF Acquire, Goto, Holds, KeyOf, Owned, TruthInv, TypeOK, CallsType
      <3> QED
        BY <3>1, <3>2
    <2> QED
      BY <1>2, <2>1, <2>2 DEF Next, WorkerStep
  <1> QED
    BY <1>1, <1>3, <1>4 DEF MarkerInv, NoOrphanMarker

(* If nothing but panics goes wrong, every return path of HandleAuthorize  *)
(* takes its marker with it, whatever the number of workers and keys.      *)
THEOREM MarkersAreNotOrphaned ==
  ASSUME Faults \subseteq {"panic"}
  PROVE  Spec => []NoOrphanMarker
  <1>1. Init => MarkerInv
    BY InitOwner, IdempotencyAssumption
    DEF Init, StoreInit, MarkerInv, OwnerInv, Owned, NoOrphanMarker
  <1>2. MarkerInv /\ [Next]_vars => MarkerInv'
    BY MarkerStep
  <1>3. MarkerInv => NoOrphanMarker
    BY DEF MarkerInv
  <1> QED
    BY <1>1, <1>2, <1>3, PTL DEF Spec
===============================================================================
