------------------------------ MODULE ShareProofs ------------------------------
(***************************************************************************)
(* Proofs about ShareJobs for every number of workers, records, jobs and   *)
(* faults, every request and every batch size.                             *)
(***************************************************************************)
EXTENDS ShareJobs, WellFoundedInduction, TLAPS

(* The steps of a worker at which it has posted, or failed to.             *)
Posting == {"result", "record", "requeue", "audit"}

(* What a worker has in hand exists, and fits the call it is at.           *)
HandsOK(w) ==
    /\ pc[w] # "enqueue" => DOMAIN todo[w] = {}
    /\ result[w] # "none" <=> pc[w] \in Posting
    /\ result[w] = "success" => posts[Current(w)] > 0
    /\ pc[w] = "requeue" => Retryable(w)

JobsOK == \A j \in Job : jobRecord[j] = NoRecord <=> jobStatus[j] = "absent"

BaseInv ==
    /\ TypeOK
    /\ todo = [w \in Worker |-> todo[w]]
    /\ batch = [w \in Worker |-> batch[w]]
    /\ JobsOK
    /\ \A w \in Worker : HandsOK(w)
    /\ SuccessIsReal

(* As long as no two batches overlap and nothing fails, a worker knows all *)
(* there is to know of the jobs in its batch.                              *)
Untried(j) == attempts[j] <= 1 /\ posts[j] = 0

KnowsJob(w, j) ==
    /\ j # Current(w) \/ pc[w] = "run" =>
           jobStatus[j] = "pending" /\ batch[w][j] = attempts[j]
    /\ j = Current(w) /\ pc[w] \in {"post", "result"} =>
           jobStatus[j] = "running" /\ batch[w][j] = attempts[j] /\ attempts[j] <= 1
    /\ j = Current(w) /\ pc[w] = "post" => posts[j] = 0
    /\ j = Current(w) /\ pc[w] \in {"record", "requeue", "audit"} =>
           jobStatus[j] = Outcome(w) /\ attempts[j] = batch[w][j] + 1
    /\ j = Current(w) /\ pc[w] \in Posting /\ result[w] # "success" => posts[j] = 0

RetryInv ==
    ~overlap /\ faults = 0 =>
        /\ \A v, w \in Worker : v # w => DOMAIN batch[v] \cap DOMAIN batch[w] = {}
        /\ \A w \in Worker : \A j \in DOMAIN batch[w] : KnowsJob(w, j)
        /\ \A j \in Job : jobStatus[j] \in {"absent", "pending"} => Untried(j)
        /\ SingleRetry

ShareInv == BaseInv /\ RunningIsAttended /\ PendingIsQueued /\ RetryInv
-------------------------------------------------------------------------------
(* A set of numbers that is not empty has a lowest element.                 *)
LEMMA LowestIn ==
  ASSUME NEW S, S \subseteq Nat, S # {}
  PROVE  Lowest(S) \in S
  <1>1. PICK i \in S : \A k \in S : ~ (<<k, i>> \in OpToRel(<, Nat))
    BY NatLessThanWellFounded, WFMin
  <1>2. ASSUME NEW k \in S, k < i
        PROVE  FALSE
    <2>1. k \in Nat /\ i \in Nat
      OBVIOUS
    <2>2. <<k, i>> \in Nat \X Nat /\ <<k, i>>[1] = k /\ <<k, i>>[2] = i
      BY <2>1
    <2>3. <<k, i>> \in {ss \in Nat \X Nat : ss[1] < ss[2]}
      BY <1>2, <2>2
    <2> QED
      BY <1>1, <2>3 DEF OpToRel
  <1>3. \A k \in S : i <= k
    BY <1>2
  <1> QED
    BY <1>3 DEF Lowest

(* The job a worker is at is in its batch.                                 *)
LEMMA CurrentInBatch ==
  ASSUME BaseInv, NEW w \in Worker, pc[w] \notin {"idle", "enqueue", "fetch"}
  PROVE  /\ Current(w) \in DOMAIN batch[w]
         /\ Current(w) \in Job
         /\ jobRecord[Current(w)] \in Record
         /\ jobStatus[Current(w)] # "absent"
         /\ batch[w][Current(w)] \in Nat
  <1>1. DOMAIN batch[w] # {} /\ DOMAIN batch[w] \subseteq Nat
    BY DEF BaseInv, TypeOK, Job
  <1>2. Current(w) \in DOMAIN batch[w]
    BY <1>1, LowestIn DEF Current
  <1> QED
    BY <1>2, ShareAssumption DEF BaseInv, TypeOK, JobsOK

(* The videos of a request are numbered, and are records.                   *)
LEMMA RequestTyped ==
  ASSUME NEW R \in Request
  PROVE  DOMAIN R \subseteq Nat /\ In(R) \subseteq Record
  <1>1. R \in Seq(Record)
    BY ShareAssumption
  <1> QED
    BY <1>1 DEF In

(* ... and so are those a request still has to enqueue.                     *)
LEMMA EnqueueTyped ==
  ASSUME NEW R \in Request
  PROVE  DOMAIN ToEnqueue(R) \subseteq Nat /\ In(ToEnqueue(R)) \subseteq Record
  BY RequestTyped DEF ToEnqueue, In

(* A record on demand is a success with nothing in hand.                    *)
LEMMA ShareTrackOnlyBase ==
  ASSUME BaseInv, NEW w \in Worker, NEW R \in Request, ShareTrackOnly(w, R)
  PROVE  BaseInv'
  <1>1. TypeOK'
    <2>1. status' \in [Record -> RecordStatus] /\ tracked' \subseteq Record
      BY RequestTyped DEF BaseInv, TypeOK, ShareTrackOnly, UpsertTrackShares, Upserted,
                          RecordStatus
    <2> QED
      BY <2>1 DEF BaseInv, TypeOK, ShareTrackOnly, jobTable, locals
  <1>2. SuccessIsReal'
    BY DEF BaseInv, TypeOK, SuccessIsReal, Posted, ShareTrackOnly, UpsertTrackShares,
           Upserted, jobTable, In
  <1> QED
    BY <1>1, <1>2 DEF BaseInv, JobsOK, HandsOK, Retryable, Current, ShareTrackOnly, jobTable, locals

(* A share sets its records to pending before it has any job in hand.       *)
LEMMA ShareServerPostBase ==
  ASSUME BaseInv, NEW w \in Worker, NEW R \in Request, ShareServerPost(w, R)
  PROVE  BaseInv'
  <1>1. /\ todo' = [todo EXCEPT ![w] = ToEnqueue(R)]
        /\ todo' = [x \in Worker |-> todo'[x]]
        /\ \A x \in Worker : DOMAIN todo'[x] \subseteq Nat /\ In(todo'[x]) \subseteq Record
    BY EnqueueTyped DEF BaseInv, TypeOK, ShareServerPost
  <1>2. TypeOK'
    BY <1>1 DEF BaseInv, TypeOK, ShareServerPost, UpsertTrackShares, Upserted, jobTable, history,
           RecordStatus, Goto
  <1>3. SuccessIsReal'
    BY DEF BaseInv, TypeOK, SuccessIsReal, Posted, ShareServerPost, UpsertTrackShares,
           Upserted, jobTable, In, history
  <1>4. \A x \in Worker : HandsOK(x)'
    BY DEF BaseInv, TypeOK, HandsOK, Retryable, Current, ShareServerPost, Goto, jobTable, Posting
  <1> QED
    BY <1>2, <1>3, <1>4 DEF BaseInv, JobsOK, ShareServerPost, jobTable, locals

(* The job that is being marked stays the current one.                      *)
LEMMA MarkJobRunningBase ==
  ASSUME BaseInv, NEW w \in Worker, MarkJobRunning(w)
  PROVE  BaseInv'
  <1>1. TypeOK'
    <2>1. \A x \in Worker : DOMAIN batch'[x] # {} <=> pc'[x] \notin {"idle", "enqueue", "fetch"}
      BY DEF BaseInv, TypeOK, MarkJobRunning, Goto
    <2> QED
      BY <2>1, CurrentInBatch DEF BaseInv, TypeOK, MarkJobRunning, history, Goto, JobStatus
  <1>2. SuccessIsReal'
    BY CurrentInBatch DEF BaseInv, TypeOK, SuccessIsReal, Posted, MarkJobRunning, history
  <1>3. \A x \in Worker : HandsOK(x)'
    BY DEF BaseInv, TypeOK, HandsOK, Retryable, Current, MarkJobRunning, Goto, Posting
  <1>4. JobsOK'
    BY CurrentInBatch DEF BaseInv, JobsOK, TypeOK, MarkJobRunning
  <1> QED
    BY <1>1, <1>2, <1>3, <1>4 DEF BaseInv, MarkJobRunning

(* A new job has a record, and a number that no job had.                    *)
LEMMA EnqueueBase ==
  ASSUME BaseInv, NEW w \in Worker, Enqueue(w)
  PROVE  BaseInv'
  <1> DEFINE i == Lowest(DOMAIN todo[w])
  <1>1. /\ pc[w] = "enqueue"
        /\ todo' = [todo EXCEPT ![w] = [k \in DOMAIN todo[w] \ {i} |-> todo[w][k]]]
        /\ UNCHANGED <<status, attempts, posts, pc, batch, result, history>>
    BY DEF Enqueue, BaseInv
  <1>2. PICK j \in Unborn : /\ jobRecord' = [jobRecord EXCEPT ![j] = todo[w][i]]
                            /\ jobStatus' = [jobStatus EXCEPT ![j] = "pending"]
    BY DEF Enqueue
  <1>3. j \in Job /\ jobStatus[j] = "absent" /\ jobRecord[j] = NoRecord
    BY DEF Unborn, BaseInv, JobsOK
  <1>4. i \in DOMAIN todo[w]
    BY LowestIn DEF Enqueue, BaseInv, TypeOK
  <1>5. todo[w][i] \in Record /\ todo[w][i] # NoRecord
    BY <1>4, ShareAssumption DEF BaseInv, TypeOK, In
  <1> HIDE DEF i
  <1>6. \A x \in Worker : DOMAIN todo'[x] \subseteq Nat /\ In(todo'[x]) \subseteq Record
    <2>1. DOMAIN todo'[w] \subseteq DOMAIN todo[w] /\ In(todo'[w]) \subseteq In(todo[w])
      BY <1>1 DEF BaseInv, In
    <2>2. \A x \in Worker \ {w} : todo'[x] = todo[x]
      BY <1>1 DEF BaseInv
    <2> QED
      BY <2>1, <2>2 DEF BaseInv, TypeOK
  <1>7. todo' = [x \in Worker |-> todo'[x]]
    BY <1>1 DEF BaseInv
  <1>8. /\ jobRecord' \in [Job -> Record \cup {NoRecord}]
        /\ jobStatus' \in [Job -> JobStatus]
        /\ \A k \in Job : jobRecord[k] \in Record => jobRecord'[k] = jobRecord[k]
    BY <1>2, <1>3, <1>5, ShareAssumption DEF BaseInv, TypeOK, JobStatus
  <1>9. TypeOK'
    BY <1>1, <1>6, <1>8 DEF BaseInv, TypeOK, history
  <1>10. JobsOK'
    BY <1>2, <1>3, <1>5 DEF BaseInv, TypeOK, JobsOK
  <1>11. SuccessIsReal'
    <2>1. \A k \in Job : jobStatus'[k] = "success" => jobStatus[k] = "success"
      BY <1>2, <1>3 DEF BaseInv, TypeOK
    <2>2. \A r \in Record : Posted(r) => Posted(r)'
      BY <1>1, <1>8 DEF Posted
    <2> QED
      BY <1>1, <2>1, <2>2 DEF BaseInv, SuccessIsReal, history
  <1>12. \A x \in Worker : HandsOK(x)'
    BY <1>1 DEF BaseInv, HandsOK, Retryable, Current, Posting
  <1> QED
    BY <1>1, <1>7, <1>9, <1>10, <1>11, <1>12 DEF BaseInv

(* What TypeOK says of one worker.                                         *)
Steps == {"idle", "enqueue", "fetch", "run", "post", "result", "record", "requeue", "audit"}

HandsTyped(w) ==
    /\ pc[w] \in Steps
    /\ DOMAIN todo[w] \subseteq Nat /\ In(todo[w]) \subseteq Record
    /\ DOMAIN batch[w] \subseteq Job
    /\ \A j \in DOMAIN batch[w] : batch[w][j] \in Nat /\ jobRecord[j] \in Record
    /\ DOMAIN batch[w] # {} <=> pc[w] \notin {"idle", "enqueue", "fetch"}
    /\ result[w] \in Result

OnlyHands(w) ==
    /\ pc' = [pc EXCEPT ![w] = pc'[w]]
    /\ todo' = [todo EXCEPT ![w] = todo'[w]]
    /\ batch' = [batch EXCEPT ![w] = batch'[w]]
    /\ result' = [result EXCEPT ![w] = result'[w]]

(* What the invariant says of one worker.                                   *)
LEMMA HandsAreTyped ==
  ASSUME BaseInv, NEW w \in Worker
  PROVE  HandsTyped(w) /\ HandsOK(w)
  BY DEF BaseInv, TypeOK, HandsTyped, Steps

(* A step of one worker leaves the others what they have in hand.          *)
LEMMA OthersKeep ==
  ASSUME BaseInv, NEW w \in Worker, OnlyHands(w)
  PROVE  \A x \in Worker \ {w} : /\ pc'[x] = pc[x] /\ batch'[x] = batch[x]
                                 /\ todo'[x] = todo[x] /\ result'[x] = result[x]
                                 /\ Current(x)' = Current(x)
  BY DEF BaseInv, TypeOK, OnlyHands, Current

(* A step of one worker that writes the tables keeps the invariant if what  *)
(* it writes and has in hand afterwards is well typed, and no success is    *)
(* without a post.                                                          *)
LEMMA StepBase ==
  ASSUME BaseInv, NEW w \in Worker, OnlyHands(w), HandsTyped(w)', HandsOK(w)',
         status' \in [Record -> RecordStatus], jobRecord' = jobRecord,
         jobStatus' \in [Job -> JobStatus], attempts' \in [Job -> Nat],
         posts' \in [Job -> Nat], \A j \in Job : posts'[j] >= posts[j],
         \A j \in Job : jobStatus[j] = "absent" <=> jobStatus'[j] = "absent",
         tracked' \subseteq Record, overlap' \in BOOLEAN, faults' \in 0..MaxFaults,
         SuccessIsReal'
  PROVE  BaseInv'
  <1>1. \A x \in Worker \ {w} : /\ pc'[x] = pc[x] /\ batch'[x] = batch[x]
                                /\ todo'[x] = todo[x] /\ result'[x] = result[x]
                                /\ Current(x)' = Current(x)
    BY OthersKeep
  <1>2. /\ pc' \in [Worker -> Steps] /\ result' \in [Worker -> Result]
        /\ todo' = [x \in Worker |-> todo'[x]] /\ batch' = [x \in Worker |-> batch'[x]]
    BY DEF BaseInv, TypeOK, OnlyHands, HandsTyped, Steps
  <1>3. \A x \in Worker : HandsTyped(x)'
    BY <1>1, HandsAreTyped DEF HandsTyped
  <1>4. TypeOK'
    BY <1>2, <1>3 DEF BaseInv, TypeOK, HandsTyped, Steps
  <1>5. ASSUME NEW x \in Worker \ {w}
        PROVE  HandsOK(x)'
    <2>1. HandsOK(x) /\ pc[x] \in Steps
      BY HandsAreTyped DEF HandsTyped
    <2>2. result[x] = "success" => Current(x) \in Job
      BY <2>1, CurrentInBatch DEF HandsOK, Posting
    <2>3. result[x] = "success" => posts'[Current(x)] > 0
      BY <2>1, <2>2 DEF HandsOK, BaseInv, TypeOK
    <2> QED
      BY <1>1, <2>1, <2>3 DEF HandsOK, Retryable
  <1>6. JobsOK'
    BY DEF BaseInv, JobsOK
  <1> QED
    BY <1>2, <1>4, <1>5, <1>6 DEF BaseInv

(* A step of one worker that writes no table.                               *)
LEMMA LocalBase ==
  ASSUME BaseInv, NEW w \in Worker, OnlyHands(w), HandsTyped(w)', HandsOK(w)',
         UNCHANGED tables, UNCHANGED tracked, overlap' \in BOOLEAN, faults' \in 0..MaxFaults
  PROVE  BaseInv'
  <1>1. SuccessIsReal'
    BY DEF BaseInv, SuccessIsReal, Posted, tables, jobTable
  <1> QED
    BY <1>1, StepBase DEF BaseInv, TypeOK, tables, jobTable

(* A fault is counted.                                                      *)
LEMMA FaultTyped ==
  ASSUME BaseInv, Fault
  PROVE  faults' \in 0..MaxFaults /\ faults' # 0 /\ tracked' = tracked /\ overlap' = overlap
  BY ShareAssumption DEF BaseInv, TypeOK, Fault

(* The loop goes on with another job, or is over.                          *)
LEMMA NextJobTyped ==
  ASSUME BaseInv, NEW w \in Worker, NextJob(w), jobRecord' = jobRecord,
         pc[w] \notin {"idle", "enqueue", "fetch"}
  PROVE  /\ OnlyHands(w) /\ HandsTyped(w)' /\ HandsOK(w)'
         /\ pc'[w] \in {"idle", "run"} /\ result'[w] = "none" /\ todo'[w] = todo[w]
         /\ DOMAIN batch'[w] = DOMAIN batch[w] \ {Current(w)}
         /\ \A j \in DOMAIN batch'[w] : batch'[w][j] = batch[w][j]
  <1> DEFINE S == DOMAIN batch[w] \ {Current(w)}
  <1>1. HandsTyped(w) /\ HandsOK(w)
    BY HandsAreTyped
  <1>2. /\ batch'[w] = [j \in S |-> batch[w][j]]
        /\ pc'[w] = IF S = {} THEN "idle" ELSE "run"
        /\ result'[w] = "none"
        /\ todo' = todo
        /\ OnlyHands(w)
    BY DEF NextJob, Continue, Goto, BaseInv, TypeOK, OnlyHands
  <1>3. HandsTyped(w)'
    BY <1>1, <1>2 DEF HandsTyped, Steps, Result
  <1>4. HandsOK(w)'
    BY <1>1, <1>2 DEF HandsOK, Posting
  <1> QED
    BY <1>2, <1>3, <1>4

(* A worker goes on to another call with what it has.                      *)
LEMMA GotoTyped ==
  ASSUME BaseInv, NEW w \in Worker, NEW next \in Steps, Goto(w, next),
         jobRecord' = jobRecord, UNCHANGED <<todo, batch>>,
         result' = [result EXCEPT ![w] = result'[w]], result'[w] \in Result,
         DOMAIN batch[w] # {} <=> next \notin {"idle", "enqueue", "fetch"}
  PROVE  /\ OnlyHands(w) /\ HandsTyped(w)' /\ pc'[w] = next
         /\ Current(w)' = Current(w) /\ batch'[w] = batch[w] /\ todo'[w] = todo[w]
  <1>1. HandsTyped(w)
    BY HandsAreTyped
  <1>2. OnlyHands(w) /\ pc'[w] = next
    BY DEF Goto, BaseInv, TypeOK, OnlyHands
  <1> QED
    BY <1>1, <1>2 DEF HandsTyped, Current

(* A processing starts with an empty batch.                                 *)
LEMMA StartBase ==
  ASSUME BaseInv, NEW w \in Worker, StartProcessing(w) \/ ProcessPending(w)
  PROVE  BaseInv'
  <1>1. /\ Goto(w, "fetch") /\ pc[w] \in {"idle", "enqueue"} /\ DOMAIN todo[w] = {}
        /\ UNCHANGED <<tables, todo, batch, result, history>>
    BY DEF StartProcessing, ProcessPending, BaseInv, HandsOK
  <1>2. DOMAIN batch[w] = {} /\ result[w] = "none" /\ HandsTyped(w)
    BY <1>1, HandsAreTyped DEF HandsTyped, HandsOK, Posting
  <1>3. OnlyHands(w) /\ HandsTyped(w)' /\ pc'[w] = "fetch" /\ todo'[w] = todo[w]
    BY <1>1, <1>2, GotoTyped DEF Steps, tables, jobTable, BaseInv, TypeOK, HandsTyped
  <1>4. HandsOK(w)'
    BY <1>1, <1>2, <1>3 DEF HandsOK, Posting
  <1> QED
    BY <1>1, <1>3, <1>4, LocalBase DEF BaseInv, TypeOK, history

(* A batch consists of pending jobs, which exist.                          *)
LEMMA TakeBase ==
  ASSUME BaseInv, NEW w \in Worker, pc[w] = "fetch", NEW n, Take(w, Oldest(n)),
         UNCHANGED <<tables, todo, result, tracked>>,
         overlap' \in BOOLEAN, faults' \in 0..MaxFaults
  PROVE  BaseInv'
  <1> DEFINE jobs == Oldest(n)
  <1>1. /\ HandsTyped(w) /\ HandsOK(w) /\ result[w] = "none"
        /\ DOMAIN todo[w] = {}
    BY HandsAreTyped DEF HandsOK, Posting
  <1>2. /\ batch'[w] = [j \in jobs |-> attempts[j]]
        /\ pc'[w] = IF jobs = {} THEN "idle" ELSE "run"
        /\ OnlyHands(w)
    BY DEF Take, Goto, OnlyHands, BaseInv, TypeOK
  <1>3. \A j \in jobs : j \in Job /\ jobRecord[j] \in Record /\ attempts[j] \in Nat
    BY DEF Oldest, PendingJobs, BaseInv, TypeOK, JobsOK
  <1> HIDE DEF jobs
  <1>4. HandsTyped(w)'
    BY <1>1, <1>2, <1>3 DEF HandsTyped, Steps, tables, jobTable
  <1>5. HandsOK(w)'
    BY <1>1, <1>2 DEF HandsOK, Posting
  <1> QED
    BY <1>2, <1>4, <1>5, LocalBase DEF BaseInv, TypeOK

(* The whole query takes up a batch.                                       *)
LEMMA FetchBase ==
  ASSUME BaseInv, NEW w \in Worker, FetchPendingJobs(w)
  PROVE  BaseInv'
  BY TakeBase DEF FetchPendingJobs, Fetched, BaseInv, TypeOK

(* What a post results in is in hand until the job is over; a success is    *)
(* posted first.                                                            *)
LEMMA PostBase ==
  ASSUME BaseInv, NEW w \in Worker,
         Post(w) \/ ResponseLost(w)
  PROVE  BaseInv'
  <1>1. /\ pc[w] = "post" /\ HandsTyped(w) /\ HandsOK(w) /\ Goto(w, "result")
        /\ UNCHANGED <<status, jobTable, todo, batch>>
        /\ result' = [result EXCEPT ![w] = result'[w]]
        /\ result'[w] \in Result \ {"none"}
        /\ \/ posts' = [posts EXCEPT ![Current(w)] = @ + 1]
           \/ posts' = posts /\ result'[w] # "success"
    <2>1. HandsTyped(w) /\ HandsOK(w) /\ DOMAIN result = Worker
      BY HandsAreTyped DEF BaseInv, TypeOK
    <2>2. CASE ResponseLost(w)
      BY <2>1, <2>2 DEF ResponseLost, Result
    <2>3. CASE Post(w)
      <3>1. PICK x \in Result \ {"none"} :
                /\ result' = [result EXCEPT ![w] = x]
                /\ posts' = IF x = "success" THEN [posts EXCEPT ![Current(w)] = @ + 1]
                                             ELSE posts
        BY <2>3 DEF Post
      <3>2. result'[w] = x
        BY <2>1, <3>1
      <3> QED
        BY <2>1, <2>3, <3>1, <3>2 DEF Post
    <2> QED
      BY <2>2, <2>3
  <1>2. tracked' = tracked /\ overlap' \in BOOLEAN /\ faults' \in 0..MaxFaults
    BY FaultTyped DEF Post, ResponseLost, history, BaseInv, TypeOK
  <1>3. Current(w) \in Job
    BY <1>1, CurrentInBatch
  <1>4. /\ OnlyHands(w) /\ HandsTyped(w)' /\ pc'[w] = "result" /\ Current(w)' = Current(w)
        /\ todo'[w] = todo[w]
    BY <1>1, GotoTyped DEF Steps, HandsTyped, jobTable
  <1>5. /\ posts' \in [Job -> Nat]
        /\ \A j \in Job : posts'[j] >= posts[j]
        /\ result'[w] = "success" => posts'[Current(w)] > 0
    BY <1>1, <1>3 DEF BaseInv, TypeOK
  <1>6. HandsOK(w)'
    BY <1>1, <1>4, <1>5 DEF HandsOK, Posting
  <1>7. SuccessIsReal'
    BY <1>1, <1>2, <1>5 DEF BaseInv, TypeOK, SuccessIsReal, Posted, jobTable
  <1> QED
    BY <1>1, <1>2, <1>4, <1>5, <1>6, <1>7, StepBase DEF BaseInv, TypeOK, jobTable

(* The result is written to the job as it is in hand.                       *)
LEMMA MarkJobResultBase ==
  ASSUME BaseInv, NEW w \in Worker, MarkJobResult(w)
  PROVE  BaseInv'
  <1>1. /\ pc[w] = "result" /\ HandsTyped(w) /\ HandsOK(w) /\ Goto(w, "record")
        /\ jobStatus' = [jobStatus EXCEPT ![Current(w)] = Outcome(w)]
        /\ attempts' = [attempts EXCEPT ![Current(w)] = @ + 1]
        /\ UNCHANGED <<status, jobRecord, posts, todo, batch, result, history>>
    BY HandsAreTyped DEF MarkJobResult
  <1>2. Current(w) \in Job /\ jobStatus[Current(w)] # "absent"
    BY <1>1, CurrentInBatch
  <1>3. /\ OnlyHands(w) /\ HandsTyped(w)' /\ pc'[w] = "record" /\ Current(w)' = Current(w)
        /\ todo'[w] = todo[w]
    BY <1>1, GotoTyped DEF Steps, HandsTyped, BaseInv, TypeOK
  <1>4. HandsOK(w)'
    BY <1>1, <1>3 DEF HandsOK, Posting
  <1>5. /\ jobStatus' \in [Job -> JobStatus] /\ attempts' \in [Job -> Nat]
        /\ \A j \in Job : jobStatus[j] = "absent" <=> jobStatus'[j] = "absent"
    BY <1>1, <1>2 DEF Outcome, JobStatus, BaseInv, TypeOK
  <1>6. SuccessIsReal'
    BY <1>1, <1>2 DEF BaseInv, TypeOK, SuccessIsReal, Posted, HandsOK, Outcome, history
  <1> QED
    BY <1>1, <1>3, <1>4, <1>5, <1>6, StepBase DEF BaseInv, TypeOK, history

(* ... and to the record; only a failed job goes on to be requeued.         *)
LEMMA UpdateRecordStatusBase ==
  ASSUME BaseInv, NEW w \in Worker, UpdateRecordStatus(w)
  PROVE  BaseInv'
  <1>1. /\ pc[w] = "record" /\ HandsTyped(w) /\ HandsOK(w) /\ Goto(w, AfterRecord(w))
        /\ status' = [status EXCEPT ![jobRecord[Current(w)]] = Outcome(w)]
        /\ UNCHANGED <<jobTable, posts, todo, batch, result, history>>
    BY HandsAreTyped DEF UpdateRecordStatus
  <1>2. Current(w) \in Job /\ jobRecord[Current(w)] \in Record
    BY <1>1, CurrentInBatch
  <1>3. AfterRecord(w) \in {"requeue", "audit"} /\ (AfterRecord(w) = "requeue" => Retryable(w))
    BY DEF AfterRecord
  <1>4. /\ OnlyHands(w) /\ HandsTyped(w)' /\ pc'[w] = AfterRecord(w)
        /\ Current(w)' = Current(w) /\ todo'[w] = todo[w] /\ batch'[w] = batch[w]
    BY <1>1, <1>3, GotoTyped DEF Steps, HandsTyped, BaseInv, TypeOK, jobTable
  <1>5. HandsOK(w)'
    BY <1>1, <1>3, <1>4 DEF HandsOK, Posting, Retryable
  <1>6. status' \in [Record -> RecordStatus]
    BY <1>1, <1>2 DEF Outcome, RecordStatus, BaseInv, TypeOK
  <1>7. SuccessIsReal'
    BY <1>1, <1>2 DEF BaseInv, TypeOK, SuccessIsReal, Posted, HandsOK, Outcome, history, jobTable
  <1> QED
    BY <1>1, <1>4, <1>5, <1>6, <1>7, StepBase DEF BaseInv, TypeOK, history, jobTable

(* A requeued job is pending again.                                         *)
LEMMA RequeueBase ==
  ASSUME BaseInv, NEW w \in Worker, Requeue(w)
  PROVE  BaseInv'
  <1>1. /\ pc[w] = "requeue" /\ NextJob(w)
        /\ jobStatus' = [jobStatus EXCEPT ![Current(w)] = "pending"]
        /\ UNCHANGED <<status, jobRecord, attempts, posts, history>>
    BY DEF Requeue
  <1>2. Current(w) \in Job /\ jobStatus[Current(w)] # "absent"
    BY <1>1, CurrentInBatch
  <1>3. OnlyHands(w) /\ HandsTyped(w)' /\ HandsOK(w)'
    BY <1>1, NextJobTyped
  <1>4. /\ jobStatus' \in [Job -> JobStatus]
        /\ \A j \in Job : jobStatus[j] = "absent" <=> jobStatus'[j] = "absent"
    BY <1>1, <1>2 DEF JobStatus, BaseInv, TypeOK
  <1>5. SuccessIsReal'
    BY <1>1, <1>2 DEF BaseInv, TypeOK, SuccessIsReal, Posted, history
  <1> QED
    BY <1>1, <1>3, <1>4, <1>5, StepBase DEF BaseInv, TypeOK, history

(* An audit changes nothing that anybody reads.                             *)
LEMMA CreateAuditBase ==
  ASSUME BaseInv, NEW w \in Worker, CreateAudit(w)
  PROVE  BaseInv'
  <1>1. pc[w] = "audit" /\ NextJob(w) /\ UNCHANGED <<tables, history>>
    BY DEF CreateAudit
  <1>2. OnlyHands(w) /\ HandsTyped(w)' /\ HandsOK(w)'
    BY <1>1, NextJobTyped DEF tables, jobTable
  <1> QED
    BY <1>1, <1>2, LocalBase DEF BaseInv, TypeOK, history

(* The records of a share that was not answered are written all the same.   *)
LEMMA ShareUnansweredBase ==
  ASSUME BaseInv, NEW w \in Worker, NEW R \in Request, ShareUnanswered(w, R)
  PROVE  BaseInv'
  <1>1. /\ UNCHANGED <<jobTable, posts, locals>>
        /\ faults' \in 0..MaxFaults /\ tracked' = tracked /\ overlap' = overlap
    BY FaultTyped DEF ShareUnanswered
  <1>2. /\ status' \in [Record -> RecordStatus]
        /\ \A r \in Record : status'[r] = "success" => status[r] = "success"
    BY DEF ShareUnanswered, UpsertTrackShares, Upserted, RecordStatus, BaseInv, TypeOK
  <1>3. TypeOK'
    BY <1>1, <1>2 DEF BaseInv, TypeOK, jobTable, locals
  <1>4. SuccessIsReal'
    BY <1>1, <1>2 DEF BaseInv, SuccessIsReal, Posted, jobTable
  <1> QED
    BY <1>1, <1>3, <1>4 DEF BaseInv, JobsOK, HandsOK, Retryable, Current, jobTable, locals

(* A call that fails leaves the tables alone, or fails after its effect.    *)
LEMMA CallFailsBase ==
  ASSUME BaseInv, NEW w \in Worker, CallFails(w)
  PROVE  BaseInv'
  <1>1. UNCHANGED <<tables, tracked, overlap>> /\ faults' \in 0..MaxFaults
    BY FaultTyped DEF CallFails
  <1>2. jobRecord' = jobRecord
    BY <1>1 DEF tables, jobTable
  <1>3. HandsTyped(w) /\ HandsOK(w)
    BY HandsAreTyped
  <1>4. CASE pc[w] = "enqueue" /\ todo' = [todo EXCEPT ![w] = Nothing]
               /\ UNCHANGED <<pc, batch, result>>
    <2>1. OnlyHands(w) /\ DOMAIN todo'[w] = {} /\ In(todo'[w]) = {}
      BY <1>4 DEF OnlyHands, Nothing, In, BaseInv, TypeOK
    <2>2. HandsTyped(w)'
      BY <1>2, <1>3, <1>4, <2>1 DEF HandsTyped
    <2>3. HandsOK(w)'
      BY <1>1, <1>3, <1>4, <2>1 DEF HandsOK, Retryable, Current, tables, Posting
    <2> QED
      BY <1>1, <2>1, <2>2, <2>3, LocalBase DEF BaseInv, TypeOK
  <1>5. ASSUME NEW next \in Steps, Goto(w, next), UNCHANGED <<todo, batch, result>>,
               \/ pc[w] = "run"     /\ next = "post"
               \/ pc[w] = "result"  /\ next = "record"
               \/ pc[w] = "record"  /\ next = AfterRecord(w)
               \/ pc[w] = "requeue" /\ next = "audit"
        PROVE  BaseInv'
    <2>1. AfterRecord(w) \in {"requeue", "audit"} /\ (AfterRecord(w) = "requeue" => Retryable(w))
      BY DEF AfterRecord
    <2>2. DOMAIN batch[w] # {} <=> next \notin {"idle", "enqueue", "fetch"}
      BY <1>3, <1>5, <2>1 DEF HandsTyped
    <2>3. /\ OnlyHands(w) /\ HandsTyped(w)' /\ pc'[w] = next
          /\ Current(w)' = Current(w) /\ todo'[w] = todo[w] /\ batch'[w] = batch[w]
      BY <1>2, <1>3, <1>5, <2>2, GotoTyped DEF HandsTyped, BaseInv, TypeOK
    <2>4. HandsOK(w)'
      BY <1>1, <1>3, <1>5, <2>1, <2>3 DEF HandsOK, Posting, Retryable, tables
    <2> QED
      BY <1>1, <2>3, <2>4, LocalBase DEF BaseInv, TypeOK
  <1>6. CASE pc[w] = "audit" /\ NextJob(w)
    BY <1>1, <1>2, <1>6, NextJobTyped, LocalBase DEF BaseInv, TypeOK
  <1>7. ASSUME pc[w] = "fetch", NEW n \in 0..BatchSize - 1, Take(w, Oldest(n)),
               UNCHANGED <<todo, result>>
        PROVE  BaseInv'
    BY <1>1, <1>7, TakeBase DEF BaseInv, TypeOK
  <1> QED
    BY <1>4, <1>5, <1>6, <1>7 DEF CallFails, Steps, AfterRecord

(* Workers that stop have nothing in hand.                                 *)
LEMMA StopBase ==
  ASSUME BaseInv, NEW W \in SUBSET Worker, Stop(W), Fault
  PROVE  BaseInv'
  <1>1. /\ UNCHANGED <<tables, tracked, overlap>> /\ faults' \in 0..MaxFaults
    BY FaultTyped DEF Stop
  <1>2. \A x \in Worker \ W : /\ pc'[x] = pc[x] /\ batch'[x] = batch[x]
                              /\ todo'[x] = todo[x] /\ result'[x] = result[x]
                              /\ Current(x)' = Current(x)
    BY DEF Stop, Current
  <1>3. \A x \in W : /\ pc'[x] = "idle" /\ result'[x] = "none"
                     /\ DOMAIN todo'[x] = {} /\ DOMAIN batch'[x] = {} /\ In(todo'[x]) = {}
    BY DEF Stop, Nothing, In
  <1>4. \A x \in Worker : HandsTyped(x)' /\ HandsOK(x)'
    <2>1. ASSUME NEW x \in W PROVE HandsTyped(x)' /\ HandsOK(x)'
      BY <1>3 DEF HandsTyped, HandsOK, Steps, Result, Posting
    <2>2. ASSUME NEW x \in Worker \ W PROVE HandsTyped(x)' /\ HandsOK(x)'
      BY <1>1, <1>2, HandsAreTyped DEF HandsTyped, HandsOK, Retryable, tables, jobTable
    <2> QED
      BY <2>1, <2>2
  <1>5. /\ pc' \in [Worker -> Steps] /\ result' \in [Worker -> Result]
        /\ todo' = [x \in Worker |-> todo'[x]] /\ batch' = [x \in Worker |-> batch'[x]]
    BY <1>4 DEF Stop, HandsTyped
  <1>6. TypeOK'
    BY <1>1, <1>4, <1>5 DEF BaseInv, TypeOK, HandsTyped, Steps, tables, jobTable
  <1> QED
    BY <1>1, <1>4, <1>5, <1>6
    DEF BaseInv, JobsOK, SuccessIsReal, Posted, tables, jobTable

(* At first there are no jobs.                                              *)
LEMMA InitialBase == Init => BaseInv
  <1> SUFFICES ASSUME Init PROVE BaseInv
    OBVIOUS
  <1>1. \A w \in Worker : DOMAIN todo[w] = {} /\ DOMAIN batch[w] = {} /\ In(todo[w]) = {}
    BY DEF Init, Nothing, In
  <1>2. TypeOK
    <2>1. faults \in 0..MaxFaults
      BY ShareAssumption DEF Init
    <2>2. \A w \in Worker : pc[w] = "idle"
      BY DEF Init
    <2> QED
      BY <1>1, <2>1, <2>2 DEF Init, TypeOK, RecordStatus, JobStatus, Result
  <1>3. \A w \in Worker : HandsOK(w)
    BY <1>1 DEF Init, HandsOK, Posting
  <1> QED
    BY <1>2, <1>3 DEF Init, BaseInv, JobsOK, SuccessIsReal

(* All steps together.                                                      *)
LEMMA BaseStep ==
  ASSUME BaseInv, Next
  PROVE  BaseInv'
  <1>1. ASSUME NEW w \in Worker, NEW R \in Request,
               ShareTrackOnly(w, R) \/ ShareServerPost(w, R) \/ ShareUnanswered(w, R)
        PROVE  BaseInv'
    BY <1>1, ShareTrackOnlyBase, ShareServerPostBase, ShareUnansweredBase
  <1>2. ASSUME NEW w \in Worker, Work(w)
        PROVE  BaseInv'
    BY <1>2, EnqueueBase, StartBase, FetchBase, MarkJobRunningBase, PostBase, MarkJobResultBase,
       UpdateRecordStatusBase, RequeueBase, CreateAuditBase DEF Work
  <1>3. ASSUME NEW w \in Worker, ProcessPending(w) \/ CallFails(w) \/ ResponseLost(w)
        PROVE  BaseInv'
    BY <1>3, StartBase, CallFailsBase, PostBase
  <1>4. ASSUME NEW w \in Worker, Deadline(w)
        PROVE  BaseInv'
    BY <1>4, StopBase DEF Deadline
  <1>5. CASE Crash
    BY <1>5, StopBase DEF Crash
  <1> QED
    BY <1>1, <1>2, <1>3, <1>4, <1>5 DEF Next

-------------------------------------------------------------------------------
(* Steps in which nothing fails.                                           *)
Clean(w) ==
    \/ \E R \in Request : ShareTrackOnly(w, R) \/ ShareServerPost(w, R)
    \/ ProcessPending(w)
    \/ Work(w)

(* As long as there was no fault, every step is one of a worker that works. *)
LEMMA CleanSteps ==
  ASSUME BaseInv, Next, faults' = 0
  PROVE  faults = 0 /\ \E w \in Worker : Clean(w)
  <1>1. ~Fault
    BY FaultTyped
  <1>2. PICK w \in Worker : Clean(w)
    BY <1>1 DEF Next, Clean, ShareUnanswered, CallFails, ResponseLost, Deadline, Crash
  <1>3. faults' = faults
    BY <1>2 DEF Clean, Work, ShareTrackOnly, ShareServerPost, ProcessPending, Enqueue,
                StartProcessing, FetchPendingJobs, MarkJobRunning, Post, MarkJobResult,
                UpdateRecordStatus, Requeue, CreateAudit, history
  <1> QED
    BY <1>2, <1>3

(* ... and touches what this worker has in hand only.                       *)
LEMMA CleanOnlyHands ==
  ASSUME BaseInv, NEW w \in Worker, Clean(w)
  PROVE  OnlyHands(w)
  <1>1. ASSUME NEW R \in Request, ShareTrackOnly(w, R) \/ ShareServerPost(w, R)
        PROVE  OnlyHands(w)
    BY <1>1 DEF ShareTrackOnly, ShareServerPost, Goto, locals, OnlyHands, BaseInv, TypeOK
  <1>2. CASE ProcessPending(w) \/ StartProcessing(w) \/ MarkJobRunning(w)
    BY <1>2 DEF ProcessPending, StartProcessing, MarkJobRunning, Goto, OnlyHands, BaseInv, TypeOK
  <1>3. CASE Enqueue(w) \/ FetchPendingJobs(w)
    BY <1>3 DEF Enqueue, FetchPendingJobs, Take, Goto, OnlyHands, BaseInv, TypeOK
  <1>4. CASE Post(w)
    BY <1>4 DEF Post, Goto, OnlyHands, BaseInv, TypeOK
  <1>5. CASE MarkJobResult(w) \/ UpdateRecordStatus(w)
    BY <1>5 DEF MarkJobResult, UpdateRecordStatus, Goto, OnlyHands, BaseInv, TypeOK
  <1>6. CASE Requeue(w) \/ CreateAudit(w)
    BY <1>6 DEF Requeue, CreateAudit, NextJob, Continue, Goto, OnlyHands, BaseInv, TypeOK
  <1> QED
    BY <1>1, <1>2, <1>3, <1>4, <1>5, <1>6 DEF Clean, Work

(* Until a call fails, whoever sets a job to running stays at it until it is*)
(* not.                                                                     *)
LEMMA AttendedStep ==
  ASSUME BaseInv, RunningIsAttended, Next
  PROVE  RunningIsAttended'
  <1> SUFFICES ASSUME faults' = 0, NEW j \in Job, jobStatus'[j] = "running"
               PROVE  \E v \in Worker : Attends(v, j)'
    BY DEF RunningIsAttended
  <1>1. PICK w \in Worker : Clean(w)
    BY CleanSteps
  <1>2. \A v \in Worker \ {w} : Attends(v, j) => Attends(v, j)'
    BY <1>1, CleanOnlyHands, OthersKeep DEF Attends
  <1>3. jobStatus[j] = "running" => \E v \in Worker : Attends(v, j)
    BY CleanSteps DEF RunningIsAttended
  <1>4. CASE MarkJobRunning(w) /\ j = Current(w)
    <2>1. pc'[w] = "post" /\ Current(w)' = Current(w)
      BY <1>4 DEF MarkJobRunning, Goto, BaseInv, TypeOK, Current
    <2> QED
      BY <1>4, <2>1 DEF Attends
  <1>5. CASE Post(w)
    <2>1. pc'[w] = "result" /\ Current(w)' = Current(w) /\ jobStatus' = jobStatus
      BY <1>5 DEF Post, Goto, BaseInv, TypeOK, Current, jobTable
    <2>2. Attends(w, j) => Attends(w, j)'
      BY <2>1 DEF Attends
    <2> QED
      BY <1>2, <1>3, <2>1, <2>2
  <1>6. CASE MarkJobResult(w)
    <2>1. jobStatus'[Current(w)] # "running"
      BY <1>6, CurrentInBatch DEF MarkJobResult, Outcome, BaseInv, TypeOK
    <2>2. jobStatus[j] = "running" /\ ~Attends(w, j)
      BY <1>6, <2>1 DEF MarkJobResult, Attends, BaseInv, TypeOK
    <2> QED
      BY <1>2, <1>3, <2>2
  <1>7. CASE ~(MarkJobRunning(w) /\ j = Current(w)) /\ ~Post(w) /\ ~MarkJobResult(w)
    <2>1. jobStatus[j] = "running" /\ pc[w] \notin {"post", "result"}
      <3>1. ASSUME NEW R \in Request, ShareTrackOnly(w, R) \/ ShareServerPost(w, R)
            PROVE  jobStatus[j] = "running" /\ pc[w] = "idle"
        BY <3>1 DEF ShareTrackOnly, ShareServerPost, jobTable
      <3>2. CASE Enqueue(w) \/ StartProcessing(w) \/ ProcessPending(w) \/ FetchPendingJobs(w)
        BY <3>2 DEF Enqueue, StartProcessing, ProcessPending, FetchPendingJobs, tables, jobTable,
                    BaseInv, TypeOK
      <3>3. CASE MarkJobRunning(w) /\ j # Current(w)
        BY <3>3 DEF MarkJobRunning, BaseInv, TypeOK
      <3>4. CASE UpdateRecordStatus(w) \/ Requeue(w) \/ CreateAudit(w)
        BY <3>4 DEF UpdateRecordStatus, Requeue, CreateAudit, tables, jobTable, BaseInv, TypeOK
      <3> QED
        BY <1>1, <1>7, <3>1, <3>2, <3>3, <3>4 DEF Clean, Work
    <2> QED
      BY <1>2, <1>3, <2>1 DEF Attends
  <1> QED
    BY <1>4, <1>5, <1>6, <1>7

-------------------------------------------------------------------------------
(* What PendingIsQueued asks of a pending record.                          *)
InWork(r) == \E j \in Job : jobRecord[j] = r /\ jobStatus[j] \in {"pending", "running"}

Covered(r) ==
    \/ InWork(r)
    \/ \E w \in Worker : r \in In(todo[w])
    \/ \E w \in Worker : pc[w] = "record" /\ jobRecord[Current(w)] = r

(* A record that is covered stays so, unless the step is the one that       *)
(* resolves it.                                                             *)
LEMMA CoveredStays ==
  ASSUME BaseInv, NEW w \in Worker, OnlyHands(w), NEW r \in Record, Covered(r),
         InWork(r) => InWork(r)',
         r \in In(todo[w]) => r \in In(todo'[w]),
         ~(pc[w] = "record" /\ jobRecord[Current(w)] = r),
         \A j \in Job : jobRecord[j] \in Record => jobRecord'[j] = jobRecord[j]
  PROVE  Covered(r)'
  <1>1. \A x \in Worker \ {w} : /\ pc'[x] = pc[x] /\ todo'[x] = todo[x]
                                /\ Current(x)' = Current(x)
    BY OthersKeep
  <1>2. CASE InWork(r)
    BY <1>2 DEF Covered
  <1>3. ASSUME NEW x \in Worker, r \in In(todo[x])
        PROVE  Covered(r)'
    <2>1. r \in In(todo'[x])
      BY <1>1, <1>3
    <2>2. In(todo'[x]) = In(todo[x])'
      BY DEF In
    <2> QED
      BY <2>1, <2>2 DEF Covered
  <1>4. ASSUME NEW x \in Worker, pc[x] = "record", jobRecord[Current(x)] = r
        PROVE  Covered(r)'
    <2>1. Current(x) \in Job /\ x # w
      BY <1>4, CurrentInBatch
    <2> QED
      BY <1>1, <1>4, <2>1 DEF Covered
  <1> QED
    BY <1>2, <1>3, <1>4 DEF Covered

(* Until a call fails, no step leaves a pending record uncovered.           *)
LEMMA QueuedStep ==
  ASSUME BaseInv, PendingIsQueued, Next
  PROVE  PendingIsQueued'
  <1> SUFFICES ASSUME faults' = 0, NEW r \in Record, status'[r] = "pending"
               PROVE  Covered(r)'
    BY DEF PendingIsQueued, Covered, InWork
  <1>1. PICK w \in Worker : Clean(w)
    BY CleanSteps
  <1>2. OnlyHands(w) /\ HandsOK(w) /\ HandsTyped(w)
    BY <1>1, CleanOnlyHands, HandsAreTyped
  <1>3. status[r] = "pending" => Covered(r)
    BY CleanSteps DEF PendingIsQueued, Covered, InWork
  <1>4. ASSUME NEW R \in Request, ShareTrackOnly(w, R)
        PROVE  Covered(r)'
    <2>1. status[r] = "pending" /\ UNCHANGED <<jobTable, locals>>
      BY <1>4 DEF ShareTrackOnly, UpsertTrackShares, Upserted, BaseInv, TypeOK
    <2> QED
      BY <1>3, <2>1 DEF Covered, InWork, In, Current, jobTable, locals
  <1>5. ASSUME NEW R \in Request, ShareServerPost(w, R)
        PROVE  Covered(r)'
    <2>1. /\ pc[w] = "idle" /\ DOMAIN todo[w] = {} /\ UNCHANGED jobTable
          /\ todo'[w] = ToEnqueue(R)
          /\ status'[r] = IF r \in In(R) THEN Upserted(r, "pending") ELSE status[r]
      BY <1>2, <1>5 DEF ShareServerPost, UpsertTrackShares, HandsOK, BaseInv, TypeOK
    <2>2. CASE r \in In(R)
      <3>1. PICK k \in DOMAIN R : R[k] = r
        BY <2>2 DEF In
      <3>2. k \in DOMAIN ToEnqueue(R) /\ ToEnqueue(R)[k] = r
        BY <2>1, <2>2, <3>1 DEF ToEnqueue
      <3>3. r \in In(todo[w])'
        BY <2>1, <3>2 DEF In
      <3> QED
        BY <3>3 DEF Covered
    <2>3. CASE r \notin In(R)
      <3>1. r \notin In(todo[w]) /\ (InWork(r) => InWork(r)')
        BY <2>1 DEF In, InWork, jobTable
      <3> QED
        BY <1>2, <1>3, <2>1, <2>3, <3>1, CoveredStays DEF jobTable
    <2> QED
      BY <2>2, <2>3
  <1>6. CASE Enqueue(w)
    <2> DEFINE i == Lowest(DOMAIN todo[w])
    <2>1. /\ pc[w] = "enqueue" /\ status' = status
          /\ todo'[w] = [k \in DOMAIN todo[w] \ {i} |-> todo[w][k]]
      BY <1>6 DEF Enqueue, BaseInv
    <2>2. PICK j \in Unborn : /\ jobRecord' = [jobRecord EXCEPT ![j] = todo[w][i]]
                              /\ jobStatus' = [jobStatus EXCEPT ![j] = "pending"]
      BY <1>6 DEF Enqueue
    <2> HIDE DEF i
    <2>3. j \in Job /\ jobStatus[j] = "absent" /\ jobRecord[j] \notin Record
      BY <2>2, ShareAssumption DEF Unborn, BaseInv, JobsOK
    <2>4. CASE r = todo[w][i]
      <3>1. InWork(r)'
        BY <2>2, <2>3, <2>4 DEF InWork, BaseInv, TypeOK
      <3> QED
        BY <3>1 DEF Covered
    <2>5. CASE r # todo[w][i]
      <3>1. r \in In(todo[w]) => r \in In(todo'[w])
        BY <2>1, <2>5 DEF In
      <3>2. /\ InWork(r) => InWork(r)'
            /\ \A k \in Job : jobRecord[k] \in Record => jobRecord'[k] = jobRecord[k]
        BY <2>2, <2>3 DEF InWork, BaseInv, TypeOK
      <3> QED
        BY <1>2, <1>3, <2>1, <3>1, <3>2, CoveredStays
    <2> QED
      BY <2>4, <2>5
  <1>7. CASE \/ StartProcessing(w) \/ ProcessPending(w) \/ FetchPendingJobs(w)
             \/ Post(w) \/ CreateAudit(w) \/ MarkJobRunning(w) \/ Requeue(w)
    <2>1. status' = status /\ todo' = todo /\ pc[w] # "record" /\ jobRecord' = jobRecord
      BY <1>7 DEF StartProcessing, ProcessPending, FetchPendingJobs, Post, CreateAudit,
                  MarkJobRunning, Requeue, NextJob, Continue, tables, jobTable
    <2>2. InWork(r) => InWork(r)'
      <3>1. CASE \/ StartProcessing(w) \/ ProcessPending(w) \/ FetchPendingJobs(w)
                 \/ Post(w) \/ CreateAudit(w)
        BY <3>1 DEF StartProcessing, ProcessPending, FetchPendingJobs, Post, CreateAudit,
                    tables, jobTable, InWork
      <3>2. CASE MarkJobRunning(w) \/ Requeue(w)
        BY <3>2 DEF MarkJobRunning, Requeue, InWork, BaseInv, TypeOK
      <3> QED
        BY <1>7, <3>1, <3>2
    <2> QED
      BY <1>2, <1>3, <2>1, <2>2, CoveredStays
  <1>8. CASE MarkJobResult(w)
    <2>1. /\ status' = status /\ todo' = todo /\ pc[w] = "result" /\ jobRecord' = jobRecord
          /\ pc'[w] = "record" /\ Current(w)' = Current(w)
          /\ \A j \in Job \ {Current(w)} : jobStatus'[j] = jobStatus[j]
      BY <1>8 DEF MarkJobResult, Goto, Current, BaseInv, TypeOK
    <2>2. CASE jobRecord[Current(w)] = r
      BY <2>1, <2>2 DEF Covered
    <2>3. CASE jobRecord[Current(w)] # r
      <3>1. InWork(r) => InWork(r)'
        BY <2>1, <2>3 DEF InWork
      <3> QED
        BY <1>2, <1>3, <2>1, <3>1, CoveredStays
    <2> QED
      BY <2>2, <2>3
  <1>9. CASE UpdateRecordStatus(w)
    <2>1. /\ jobRecord[Current(w)] \in Record /\ todo' = todo /\ UNCHANGED jobTable
          /\ status' = [status EXCEPT ![jobRecord[Current(w)]] = Outcome(w)]
      BY <1>9, CurrentInBatch DEF UpdateRecordStatus
    <2>2. jobRecord[Current(w)] # r /\ status[r] = "pending"
      BY <2>1 DEF Outcome, BaseInv, TypeOK
    <2>3. InWork(r) => InWork(r)'
      BY <2>1 DEF InWork, jobTable
    <2> QED
      BY <1>2, <1>3, <2>1, <2>2, <2>3, CoveredStays DEF jobTable
  <1> QED
    BY <1>1, <1>4, <1>5, <1>6, <1>7, <1>8, <1>9 DEF Clean, Work

-------------------------------------------------------------------------------
Calm == ~overlap /\ faults = 0

Disjoint == \A v, w \in Worker : v # w => DOMAIN batch[v] \cap DOMAIN batch[w] = {}

JobWithinBounds(j) ==
    /\ jobStatus[j] \in {"absent", "pending"} => Untried(j)
    /\ attempts[j] <= 2 /\ posts[j] <= 1

(* Nothing had failed or overlapped before a step after which that is so.   *)
LEMMA CalmSteps ==
  ASSUME BaseInv, Next, Calm'
  PROVE  Calm /\ \E w \in Worker : Clean(w)
  <1>1. PICK w \in Worker : Clean(w)
    BY CleanSteps DEF Calm
  <1>2. overlap => overlap'
    BY <1>1 DEF Clean, Work, ShareTrackOnly, ShareServerPost, ProcessPending, Enqueue,
                StartProcessing, FetchPendingJobs, MarkJobRunning, Post, MarkJobResult,
                UpdateRecordStatus, Requeue, CreateAudit, history, tables
  <1> QED
    BY <1>1, <1>2, CleanSteps DEF Calm

(* What the invariant says as long as nothing fails or overlaps.            *)
LEMMA CalmMeans ==
  ASSUME BaseInv, RetryInv, Calm
  PROVE  /\ Disjoint
         /\ \A w \in Worker : \A j \in DOMAIN batch[w] : KnowsJob(w, j)
         /\ \A j \in Job : JobWithinBounds(j)
  BY DEF RetryInv, Calm, Disjoint, JobWithinBounds, SingleRetry

(* A step of w changes the jobs of its own batch only, and knows them.     *)
LEMMA RetryFrame ==
  ASSUME BaseInv, RetryInv, Calm, NEW w \in Worker, OnlyHands(w),
         \A j \in Job : j \notin DOMAIN batch[w] /\ jobStatus[j] # "absent" =>
             /\ jobStatus'[j] = jobStatus[j]
             /\ attempts'[j] = attempts[j] /\ posts'[j] = posts[j],
         \A x \in Worker \ {w} : DOMAIN batch[x] \cap DOMAIN batch'[w] = {},
         \A j \in DOMAIN batch'[w] : KnowsJob(w, j)',
         \A j \in Job : JobWithinBounds(j)'
  PROVE  RetryInv'
  <1>1. \A x \in Worker \ {w} : /\ pc'[x] = pc[x] /\ batch'[x] = batch[x]
                                /\ result'[x] = result[x] /\ Current(x)' = Current(x)
    BY OthersKeep
  <1>2. Disjoint'
    BY <1>1, CalmMeans DEF Disjoint
  <1>3. ASSUME NEW x \in Worker \ {w}, NEW j \in DOMAIN batch[x]
        PROVE  KnowsJob(x, j)'
    <2>1. j \in Job /\ jobRecord[j] \in Record /\ j \notin DOMAIN batch[w]
      BY CalmMeans DEF Disjoint, BaseInv, TypeOK
    <2>2. /\ jobStatus'[j] = jobStatus[j]
          /\ attempts'[j] = attempts[j] /\ posts'[j] = posts[j]
      BY <2>1, ShareAssumption DEF BaseInv, JobsOK
    <2>3. KnowsJob(x, j)
      BY CalmMeans
    <2> QED
      BY <1>1, <2>2, <2>3 DEF KnowsJob, Outcome
  <1>4. \A x \in Worker : \A j \in DOMAIN batch'[x] : KnowsJob(x, j)'
    BY <1>1, <1>3
  <1> QED
    BY <1>2, <1>4 DEF RetryInv, Disjoint, JobWithinBounds, SingleRetry

(* Steps of workers that have no batch.                                    *)
LEMMA RetryWithoutBatch ==
  ASSUME BaseInv, RetryInv, Calm, Calm', NEW w \in Worker,
         \/ \E R \in Request : ShareTrackOnly(w, R) \/ ShareServerPost(w, R)
         \/ ProcessPending(w)
         \/ StartProcessing(w)
         \/ Enqueue(w)
         \/ FetchPendingJobs(w)
  PROVE  RetryInv'
  <1>1. OnlyHands(w) /\ HandsTyped(w) /\ HandsOK(w)
    BY CleanOnlyHands, HandsAreTyped DEF Clean, Work
  <1>2. DOMAIN batch[w] = {}
    BY <1>1 DEF ShareTrackOnly, ShareServerPost, ProcessPending, StartProcessing, Enqueue,
                FetchPendingJobs, HandsTyped
  <1>3. ASSUME NEW R \in Request, ShareTrackOnly(w, R) \/ ShareServerPost(w, R)
        PROVE  RetryInv'
    <2>1. UNCHANGED <<jobTable, posts, batch>>
      BY <1>3 DEF ShareTrackOnly, ShareServerPost, locals
    <2>2. \A j \in Job : JobWithinBounds(j)'
      BY <2>1, CalmMeans DEF JobWithinBounds, Untried, jobTable
    <2> QED
      BY <1>1, <1>2, <2>1, <2>2, RetryFrame DEF jobTable
  <1>4. CASE ProcessPending(w) \/ StartProcessing(w)
    <2>1. UNCHANGED <<jobTable, posts, batch>>
      BY <1>4 DEF ProcessPending, StartProcessing, tables
    <2>2. \A j \in Job : JobWithinBounds(j)'
      BY <2>1, CalmMeans DEF JobWithinBounds, Untried, jobTable
    <2> QED
      BY <1>1, <1>2, <2>1, <2>2, RetryFrame DEF jobTable
  <1>5. CASE Enqueue(w)
    <2>1. PICK j \in Unborn : jobStatus' = [jobStatus EXCEPT ![j] = "pending"]
      BY <1>5 DEF Enqueue
    <2>2. UNCHANGED <<attempts, posts, batch>> /\ j \in Job /\ jobStatus[j] = "absent"
      BY <1>5, <2>1 DEF Enqueue, Unborn
    <2>3. \A k \in Job : JobWithinBounds(k)'
      BY <2>1, <2>2, CalmMeans DEF JobWithinBounds, Untried, BaseInv, TypeOK
    <2> QED
      BY <1>1, <1>2, <2>1, <2>2, <2>3, RetryFrame DEF BaseInv, TypeOK
  <1>6. CASE FetchPendingJobs(w)
    <2>1. /\ UNCHANGED <<jobTable, posts>>
          /\ batch'[w] = [j \in Fetched |-> attempts[j]]
          /\ pc'[w] = IF Fetched = {} THEN "idle" ELSE "run"
      BY <1>6 DEF FetchPendingJobs, Take, Goto, tables, BaseInv, TypeOK
    <2>2. \A x \in Worker \ {w} : DOMAIN batch[x] \cap DOMAIN batch'[w] = {}
      BY <1>6, <2>1 DEF FetchPendingJobs, Calm
    <2>3. \A j \in DOMAIN batch'[w] : KnowsJob(w, j)'
      BY <2>1 DEF KnowsJob, Fetched, Oldest, PendingJobs, Posting, jobTable
    <2>4. \A j \in Job : JobWithinBounds(j)'
      BY <2>1, CalmMeans DEF JobWithinBounds, Untried, jobTable
    <2> QED
      BY <1>1, <1>2, <2>1, <2>2, <2>3, <2>4, RetryFrame DEF jobTable
  <1> QED
    BY <1>3, <1>4, <1>5, <1>6

(* Steps of workers that are at a job.                                     *)
LEMMA RetryWithBatch ==
  ASSUME BaseInv, RetryInv, Calm, NEW w \in Worker,
         \/ MarkJobRunning(w)
         \/ Post(w)
         \/ MarkJobResult(w)
         \/ UpdateRecordStatus(w)
         \/ Requeue(w)
         \/ CreateAudit(w)
  PROVE  RetryInv'
  <1>1. OnlyHands(w) /\ HandsTyped(w) /\ HandsOK(w)
    BY CleanOnlyHands, HandsAreTyped DEF Clean, Work
  <1>2. pc[w] \notin {"idle", "enqueue", "fetch"}
    BY DEF MarkJobRunning, Post, MarkJobResult, UpdateRecordStatus, Requeue, CreateAudit
  <1>3. PICK c \in Job : c = Current(w) /\ c \in DOMAIN batch[w] /\ batch[w][c] \in Nat
    BY <1>2, CurrentInBatch
  <1>4. /\ KnowsJob(w, c) /\ JobWithinBounds(c) /\ attempts[c] \in Nat
        /\ \A j \in DOMAIN batch[w] : j \in Job /\ KnowsJob(w, j)
        /\ \A j \in Job : JobWithinBounds(j)
        /\ \A x \in Worker \ {w} : DOMAIN batch[x] \cap DOMAIN batch[w] = {}
    BY <1>3, CalmMeans DEF Disjoint, BaseInv, TypeOK
  <1>5. ASSUME batch' = batch, Current(w)' = c, pc'[w] # "run",
               \A j \in Job \ {c} : /\ jobStatus'[j] = jobStatus[j]
                                    /\ attempts'[j] = attempts[j] /\ posts'[j] = posts[j],
               KnowsJob(w, c)', JobWithinBounds(c)'
        PROVE  RetryInv'
    <2>1. \A j \in DOMAIN batch'[w] : KnowsJob(w, j)'
      BY <1>3, <1>4, <1>5 DEF KnowsJob
    <2>2. \A j \in Job : JobWithinBounds(j)'
      BY <1>4, <1>5 DEF JobWithinBounds, Untried
    <2> QED
      BY <1>1, <1>3, <1>4, <1>5, <2>1, <2>2, RetryFrame
  <1>6. CASE MarkJobRunning(w)
    <2>1. /\ pc[w] = "run" /\ pc'[w] = "post" /\ Current(w)' = c
          /\ UNCHANGED <<batch, attempts, posts>>
          /\ jobStatus' = IF jobStatus[c] = "pending" THEN [jobStatus EXCEPT ![c] = "running"]
                                                      ELSE jobStatus
      BY <1>3, <1>6 DEF MarkJobRunning, Goto, Current, BaseInv, TypeOK
    <2>2. /\ jobStatus'[c] = "running" /\ batch[w][c] = attempts[c]
          /\ attempts[c] <= 1 /\ posts[c] = 0
          /\ \A j \in Job \ {c} : jobStatus'[j] = jobStatus[j]
      BY <1>4, <2>1 DEF KnowsJob, JobWithinBounds, Untried, BaseInv, TypeOK
    <2>3. KnowsJob(w, c)'
      BY <2>1, <2>2 DEF KnowsJob, Posting
    <2>4. JobWithinBounds(c)'
      BY <1>4, <2>1, <2>2 DEF JobWithinBounds
    <2> QED
      BY <1>5, <2>1, <2>2, <2>3, <2>4
  <1>7. CASE Post(w)
    <2>1. /\ pc[w] = "post" /\ pc'[w] = "result" /\ Current(w)' = c
          /\ UNCHANGED <<batch, jobTable>>
          /\ \/ posts' = posts
             \/ posts' = [posts EXCEPT ![c] = @ + 1] /\ result'[w] = "success"
      <3>1. PICK x \in Result \ {"none"} :
                /\ result' = [result EXCEPT ![w] = x]
                /\ posts' = IF x = "success" THEN [posts EXCEPT ![c] = @ + 1] ELSE posts
        BY <1>3, <1>7 DEF Post
      <3>2. result'[w] = x
        BY <3>1 DEF BaseInv, TypeOK
      <3> QED
        BY <1>3, <1>7, <3>1, <3>2 DEF Post, Goto, Current, BaseInv, TypeOK
    <2>2. /\ jobStatus[c] = "running" /\ batch[w][c] = attempts[c]
          /\ attempts[c] <= 1 /\ posts[c] = 0
      BY <1>3, <1>4, <2>1 DEF KnowsJob
    <2>3. /\ posts'[c] = 0 \/ (posts'[c] = 1 /\ result'[w] = "success")
          /\ \A j \in Job \ {c} : posts'[j] = posts[j]
      <3>1. posts \in [Job -> Nat]
        BY DEF BaseInv, TypeOK
      <3>2. CASE posts' = posts
        BY <2>2, <3>2
      <3>3. CASE posts' = [posts EXCEPT ![c] = @ + 1] /\ result'[w] = "success"
        BY <2>2, <3>1, <3>3
      <3> QED
        BY <2>1, <3>2, <3>3
    <2>4. /\ jobStatus'[c] = "running" /\ batch'[w][c] = attempts'[c]
          /\ attempts'[c] = attempts[c]
      BY <2>1, <2>2 DEF jobTable
    <2>5. KnowsJob(w, c)'
      BY <2>1, <2>2, <2>3, <2>4 DEF KnowsJob
    <2>6. JobWithinBounds(c)'
      BY <1>4, <2>2, <2>3, <2>4 DEF JobWithinBounds
    <2> QED
      BY <1>5, <2>1, <2>3, <2>5, <2>6 DEF jobTable
  <1>8. CASE MarkJobResult(w)
    <2>1. /\ pc[w] = "result" /\ pc'[w] = "record" /\ Current(w)' = c
          /\ UNCHANGED <<batch, posts, result>>
          /\ jobStatus' = [jobStatus EXCEPT ![c] = Outcome(w)]
          /\ attempts' = [attempts EXCEPT ![c] = @ + 1]
      BY <1>3, <1>8 DEF MarkJobResult, Goto, Current, BaseInv, TypeOK
    <2>2. /\ batch[w][c] = attempts[c] /\ attempts[c] <= 1 /\ posts[c] <= 1
          /\ result[w] # "success" => posts[c] = 0
      BY <1>3, <1>4, <2>1 DEF KnowsJob, JobWithinBounds, Posting
    <2>3. /\ jobStatus'[c] = Outcome(w) /\ attempts'[c] = attempts[c] + 1
          /\ \A j \in Job \ {c} : jobStatus'[j] = jobStatus[j] /\ attempts'[j] = attempts[j]
      BY <2>1 DEF BaseInv, TypeOK
    <2>4. Outcome(w)' = Outcome(w) /\ Outcome(w) \in {"success", "failed"}
      BY <2>1 DEF Outcome
    <2>5. KnowsJob(w, c)'
      BY <2>1, <2>2, <2>3, <2>4 DEF KnowsJob
    <2>6. JobWithinBounds(c)'
      BY <1>4, <2>1, <2>2, <2>3, <2>4 DEF JobWithinBounds
    <2> QED
      BY <1>5, <2>1, <2>3, <2>5, <2>6
  <1>9. CASE UpdateRecordStatus(w)
    <2>1. /\ pc[w] = "record" /\ pc'[w] \in {"requeue", "audit"} /\ Current(w)' = c
          /\ UNCHANGED <<batch, jobTable, posts, result>>
      BY <1>3, <1>9 DEF UpdateRecordStatus, AfterRecord, Goto, Current, BaseInv, TypeOK
    <2>2. KnowsJob(w, c)' /\ JobWithinBounds(c)'
      BY <1>3, <1>4, <2>1 DEF KnowsJob, JobWithinBounds, Untried, Posting, jobTable, Outcome
    <2> QED
      BY <1>5, <2>1, <2>2 DEF jobTable
  <1>10. CASE Requeue(w) \/ CreateAudit(w)
    <2>1. /\ pc[w] \in {"requeue", "audit"} /\ NextJob(w) /\ UNCHANGED <<attempts, posts, jobRecord>>
          /\ \A j \in Job \ {c} : jobStatus'[j] = jobStatus[j]
          /\ pc[w] = "requeue" => jobStatus'[c] = "pending"
          /\ pc[w] = "audit" => jobStatus'[c] = jobStatus[c]
      BY <1>3, <1>10 DEF Requeue, CreateAudit, tables, jobTable, BaseInv, TypeOK
    <2>2. /\ pc'[w] \in {"idle", "run"}
          /\ DOMAIN batch'[w] = DOMAIN batch[w] \ {c}
          /\ \A j \in DOMAIN batch'[w] : batch'[w][j] = batch[w][j]
      BY <1>2, <1>3, <2>1, NextJobTyped
    <2>3. \A j \in DOMAIN batch'[w] : KnowsJob(w, j)'
      BY <1>3, <1>4, <2>1, <2>2 DEF KnowsJob, Posting
    <2>4. attempts[c] = batch[w][c] + 1 /\ jobStatus[c] = Outcome(w)
      BY <1>3, <1>4, <2>1 DEF KnowsJob
    <2>5. JobWithinBounds(c)'
      <3>1. CASE pc[w] = "requeue"
        <4>1. result[w] = "transient" /\ batch[w][c] + 1 < 2
          BY <1>1, <1>3, <3>1 DEF HandsOK, Retryable
        <4>2. posts[c] = 0 /\ attempts[c] <= 1
          BY <1>3, <1>4, <2>4, <3>1, <4>1 DEF KnowsJob, Posting
        <4> QED
          BY <1>4, <2>1, <3>1, <4>2 DEF JobWithinBounds, Untried
      <3>2. CASE pc[w] = "audit"
        <4>1. jobStatus'[c] \in {"success", "failed"}
          BY <2>1, <2>4, <3>2 DEF Outcome
        <4> QED
          BY <1>4, <2>1, <4>1 DEF JobWithinBounds
      <3> QED
        BY <2>1, <3>1, <3>2
    <2>6. \A j \in Job : JobWithinBounds(j)'
      BY <1>4, <2>1, <2>5 DEF JobWithinBounds, Untried
    <2>7. \A j \in Job : j \notin DOMAIN batch[w] /\ jobStatus[j] # "absent" =>
              /\ jobStatus'[j] = jobStatus[j]
              /\ attempts'[j] = attempts[j] /\ posts'[j] = posts[j]
      BY <1>3, <2>1
    <2> QED
      BY <1>1, <1>4, <2>2, <2>3, <2>6, <2>7, RetryFrame
  <1> QED
    BY <1>6, <1>7, <1>8, <1>9, <1>10

(* Every step keeps what workers know of the jobs in their batches.         *)
LEMMA RetryStep ==
  ASSUME BaseInv, RetryInv, Next
  PROVE  RetryInv'
  <1>1. CASE ~Calm'
    BY <1>1 DEF RetryInv, Calm
  <1>2. CASE Calm'
    <2>1. PICK w \in Worker : Clean(w)
      BY <1>2, CalmSteps
    <2>2. Calm
      BY <1>2, CalmSteps
    <2> QED
      BY <1>2, <2>1, <2>2, RetryWithoutBatch, RetryWithBatch DEF Clean, Work
  <1> QED
    BY <1>1, <1>2

-------------------------------------------------------------------------------
(* At first all parts hold.                                                 *)
LEMMA Initially ==
  ASSUME Init
  PROVE  ShareInv
  <1>1. /\ \A r \in Record : status[r] = "absent"
        /\ \A j \in Job : jobStatus[j] = "absent" /\ attempts[j] = 0 /\ posts[j] = 0
        /\ \A w \in Worker : DOMAIN batch[w] = {}
    BY DEF Init, Nothing
  <1>2. RunningIsAttended /\ PendingIsQueued
    BY <1>1 DEF RunningIsAttended, PendingIsQueued
  <1>3. RetryInv
    BY <1>1 DEF RetryInv, Untried, SingleRetry
  <1> QED
    BY <1>2, <1>3, InitialBase DEF ShareInv

(* Every step keeps all parts.                                              *)
LEMMA Step ==
  ASSUME ShareInv, [Next]_vars
  PROVE  ShareInv'
  <1>1. CASE Next
    BY <1>1, BaseStep, AttendedStep, QueuedStep, RetryStep DEF ShareInv
  <1>2. CASE UNCHANGED vars
    BY <1>2 DEF vars, tables, jobTable, locals, history, ShareInv, BaseInv, TypeOK, JobsOK,
                HandsOK, Retryable, Current, In, SuccessIsReal, Posted, RunningIsAttended,
                Attends, PendingIsQueued, RetryInv, KnowsJob, Outcome, Untried, SingleRetry
  <1> QED
    BY <1>1, <1>2

(* The invariant on which the others rest: its parts are types, what a     *)
(* worker has in hand at each of its calls (processJob's local variables), *)
(* and, until something fails, what it knows of the jobs in its batch.     *)
THEOREM ShareInvariance == Spec => []ShareInv
  <1>1. Init => ShareInv
    BY Initially
  <1>2. ShareInv /\ [Next]_vars => ShareInv'
    BY Step
  <1> QED
    BY <1>1, <1>2, PTL DEF Spec

(* Type correctness of the share jobs.                                     *)
THEOREM ShareTypes == Spec => []TypeOK
  <1>1. ShareInv => TypeOK
    BY DEF ShareInv, BaseInv
  <1> QED
    BY <1>1, ShareInvariance, PTL

(* Whatever overlaps, fails or stops between two calls of processJob: a    *)
(* job or record that says success has been posted, or recorded on demand. *)
THEOREM SuccessesAreReal == Spec => []SuccessIsReal
  <1>1. ShareInv => SuccessIsReal
    BY DEF ShareInv, BaseInv
  <1> QED
    BY <1>1, ShareInvariance, PTL

(* Until a call fails, no path through processJob leaves a running job     *)
(* that no worker is at, however many workers have the job.                *)
THEOREM RunningAreAttended == Spec => []RunningIsAttended
  <1>1. ShareInv => RunningIsAttended
    BY DEF ShareInv
  <1> QED
    BY <1>1, ShareInvariance, PTL

(* Until a call fails, every pending record has a job that may resolve it, *)
(* or somebody about to give it one, or to resolve it.                     *)
THEOREM PendingAreQueued == Spec => []PendingIsQueued
  <1>1. ShareInv => PendingIsQueued
    BY DEF ShareInv
  <1> QED
    BY <1>1, ShareInvariance, PTL

(* Until batches overlap or a call fails, the attempts read with a batch   *)
(* are still those of the job when the retry rule looks at them: no job is *)
(* attempted a third time or posted twice.                                 *)
THEOREM RetriesAreSingle == Spec => []SingleRetry
  <1>1. ShareInv => SingleRetry
    BY DEF ShareInv, RetryInv, SingleRetry
  <1> QED
    BY <1>1, ShareInvariance, PTL
===============================================================================
