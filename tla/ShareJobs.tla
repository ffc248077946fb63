------------------------------- MODULE ShareJobs -------------------------------
(***************************************************************************)
(* Sharing of videos (usecase/share_usecase.go over                        *)
(* infrastructure/persistence/share_repository.go and its MSSQL twin):     *)
(* Share records what a user wants on which platform and enqueues a job    *)
(* for each record; ProcessShareJobs takes pending jobs and posts them.    *)
(* One action per call to the database or the platform.                    *)
(*                                                                         *)
(* A worker is a goroutine that serves a Share call and then, as the       *)
(* goroutine that call starts, its processing; or one that serves          *)
(* ProcessPending, which is processing only.  Most errors of database      *)
(* calls are discarded by the code: CallFails is such a call.              *)
(*                                                                         *)
(* Not modelled: the text of the post, the checks of the request, what a   *)
(* failed job's error says, external references, the broadcasts, and the   *)
(* audit and attempt_count of records, which nothing reads.                *)
(***************************************************************************)
EXTENDS Integers, Sequences, FiniteSets

CONSTANTS
    Worker,      \* goroutines
    Record,      \* rows of video_share_records: video, platform and user
    NoRecord,    \* the record of a job that does not exist
    Request,     \* the records a request is about: one for each platform it
                 \* names, and one more if it names a platform twice
    BatchSize,   \* the LIMIT of FetchPendingJobs
    MaxJobs,     \* bound on the jobs ever enqueued
    MaxFaults    \* bound on failing calls, lost responses, deadlines and
                 \* process stops

ASSUME ShareAssumption ==
    /\ NoRecord \notin Record
    /\ IsFiniteSet(Worker)
    /\ IsFiniteSet(Record)
    /\ Request \subseteq Seq(Record)
    /\ BatchSize \in Nat \ {0}
    /\ MaxJobs \in Nat
    /\ MaxFaults \in Nat

(* Rows of share_jobs in the order of created_at, which EnqueueJobs reads  *)
(* from the clock before its INSERTs: rows need not come in that order.    *)
(* It is one time for all jobs of a request; their numbers say which of    *)
(* them the database lists first, and each INSERT takes any free number.   *)
Job == 1..MaxJobs

VARIABLES
    status,     \* the status of each record
    jobRecord,  \* the record of each job
    jobStatus,  \* the status of each job
    attempts,   \* the attempts column of each job
    posts,      \* how many times each job has been posted on the platform
    pc,         \* the next call of each worker
    todo,       \* the pending records a Share call has not yet enqueued, by
                \* their place in its request
    batch,      \* the fetched jobs left, with the attempts read
    result,     \* what became of the job being processed
    tracked,    \* records that a track_only call made a success
    overlap,    \* two workers have had one job in their batches
    faults      \* faults so far

jobTable == <<jobRecord, jobStatus, attempts>>
tables   == <<status, jobTable, posts>>
locals   == <<pc, todo, batch, result>>
history  == <<tracked, overlap, faults>>
vars     == <<tables, locals, history>>

RecordStatus == {"absent", "pending", "success", "failed"}
JobStatus    == {"absent", "pending", "running", "success", "failed"}
Result       == {"none", "success", "transient", "refused"}

(* Of todo and batch: nothing is left.                                     *)
Nothing == [i \in {} |-> NoRecord]

Init ==
    /\ status = [r \in Record |-> "absent"]
    /\ jobRecord = [j \in Job |-> NoRecord]
    /\ jobStatus = [j \in Job |-> "absent"]
    /\ attempts = [j \in Job |-> 0]
    /\ posts = [j \in Job |-> 0]
    /\ pc = [w \in Worker |-> "idle"]
    /\ todo = [w \in Worker |-> Nothing]
    /\ batch = [w \in Worker |-> Nothing]
    /\ result = [w \in Worker |-> "none"]
    /\ tracked = {}
    /\ overlap = FALSE
    /\ faults = 0

Goto(w, next) == pc' = [pc EXCEPT ![w] = next]

Fault == faults < MaxFaults /\ faults' = faults + 1 /\ UNCHANGED <<tracked, overlap>>

-------------------------------------------------------------------------------
(* Share.                                                                  *)

Unborn == {j \in Job : jobStatus[j] = "absent"}

(* Rows and list positions are taken in their order.                       *)
Lowest(S) == CHOOSE i \in S : \A k \in S : i <= k

(* There is room for the jobs of R and of the calls on their way (bound).  *)
HasRoom(R) ==
    Len(R) + Cardinality(UNION {{w} \X DOMAIN todo[w] : w \in Worker})
        <= Cardinality(Unborn)

(* ON CONFLICT ... DO UPDATE: a success stays a success.                   *)
Upserted(r, initialStatus) ==
    IF status[r] = "success" THEN "success" ELSE initialStatus

In(R) == {R[i] : i \in DOMAIN R}

(* One transaction for all records.                                        *)
UpsertTrackShares(R, initialStatus) ==
    status' = [r \in Record |-> IF r \in In(R) THEN Upserted(r, initialStatus)
                                               ELSE status[r]]

(* Mode track_only: what the user has shared is only recorded.             *)
ShareTrackOnly(w, R) ==
    /\ pc[w] = "idle"
    /\ UpsertTrackShares(R, "success")
    /\ tracked' = tracked \cup {r \in In(R) : status[r] # "success"}
    /\ UNCHANGED <<jobTable, posts, locals, overlap, faults>>

(* Variant: only records that were not there before get a job.             *)
ToEnqueueNew(R) == [i \in {k \in DOMAIN R : status[R[k]] = "absent"} |-> R[i]]

(* EnqueueJobs skips the records that are not pending.                     *)
ToEnqueue(R) ==
    [i \in {k \in DOMAIN R : Upserted(R[k], "pending") = "pending"} |-> R[i]]

(* Mode server_post.  A forced call is no different: the branch that is to *)
(* enqueue a success again (share_usecase.go:100) is never reached.        *)
ShareServerPost(w, R) ==
    /\ pc[w] = "idle"
    /\ HasRoom(R)
    /\ UpsertTrackShares(R, "pending")
    /\ todo' = [todo EXCEPT ![w] = ToEnqueue(R)]
    /\ Goto(w, "enqueue")
    /\ UNCHANGED <<jobTable, posts, batch, result, history>>

(* EnqueueJobs: one INSERT for each record that is left.                   *)
Enqueue(w) ==
    /\ pc[w] = "enqueue"
    /\ DOMAIN todo[w] # {}
    /\ LET i == Lowest(DOMAIN todo[w])
       IN  /\ \E j \in Unborn :
                  /\ jobRecord' = [jobRecord EXCEPT ![j] = todo[w][i]]
                  /\ jobStatus' = [jobStatus EXCEPT ![j] = "pending"]
           /\ todo' = [todo EXCEPT ![w] = [k \in DOMAIN @ \ {i} |-> @[k]]]
    /\ UNCHANGED <<status, attempts, posts, pc, batch, result, history>>

(* Share answers, and its goroutine starts to process jobs.                *)
StartProcessing(w) ==
    /\ pc[w] = "enqueue"
    /\ DOMAIN todo[w] = {}
    /\ Goto(w, "fetch")
    /\ UNCHANGED <<tables, todo, batch, result, history>>

-------------------------------------------------------------------------------
(* ProcessShareJobs.                                                       *)

ProcessPending(w) ==
    /\ pc[w] = "idle"
    /\ Goto(w, "fetch")
    /\ UNCHANGED <<tables, todo, batch, result, history>>

(* The batch comes ordered by created_at.                                  *)
Current(w) == Lowest(DOMAIN batch[w])

(* The loop goes on with the jobs in S of its batch.                       *)
Continue(w, S) ==
    /\ batch' = [batch EXCEPT ![w] = [j \in S |-> batch[w][j]]]
    /\ Goto(w, IF S = {} THEN "idle" ELSE "run")
    /\ result' = [result EXCEPT ![w] = "none"]
    /\ UNCHANGED todo

NextJob(w) == Continue(w, DOMAIN batch[w] \ {Current(w)})

PendingJobs == {j \in Job : jobStatus[j] = "pending"}
Oldest(n) == {j \in PendingJobs : Cardinality({i \in PendingJobs : i < j}) < n}
Fetched   == Oldest(BatchSize)

Take(w, jobs) ==
    /\ batch' = [batch EXCEPT ![w] = [j \in jobs |-> attempts[j]]]
    /\ Goto(w, IF jobs = {} THEN "idle" ELSE "run")

(* A plain SELECT: nothing keeps another worker from the same jobs.        *)
FetchPendingJobs(w) ==
    /\ pc[w] = "fetch"
    /\ Take(w, Fetched)
    /\ overlap' = (overlap \/ \E v \in Worker \ {w} :
                                  Fetched \cap DOMAIN batch[v] # {})
    /\ UNCHANGED <<tables, todo, result, tracked, faults>>

(* UPDATE ... WHERE status = 'pending'; nobody asks how many rows matched. *)
MarkJobRunning(w) ==
    /\ pc[w] = "run"
    /\ jobStatus' = IF jobStatus[Current(w)] = "pending"
                    THEN [jobStatus EXCEPT ![Current(w)] = "running"]
                    ELSE jobStatus
    /\ Goto(w, "post")
    /\ UNCHANGED <<status, jobRecord, attempts, posts, todo, batch, result,
                   history>>

(* Variant: a refused post goes on with the next job at once.              *)
PostAndContinue(w) ==
    /\ pc[w] = "post"
    /\ \/ /\ NextJob(w)
          /\ UNCHANGED posts
       \/ /\ result' = [result EXCEPT ![w] = "success"]
          /\ posts' = [posts EXCEPT ![Current(w)] = @ + 1]
          /\ Goto(w, "result")
          /\ UNCHANGED <<todo, batch>>
    /\ UNCHANGED <<status, jobTable, history>>

(* The platform takes the post; refuses it for good (no record, token or   *)
(* page, an unsupported platform, a 4xx answer); or may take it later      *)
(* (429, 5xx or no connection).                                            *)
Post(w) ==
    /\ pc[w] = "post"
    /\ \E x \in Result \ {"none"} :
           /\ result' = [result EXCEPT ![w] = x]
           /\ posts' = IF x = "success" THEN [posts EXCEPT ![Current(w)] = @ + 1]
                                        ELSE posts
    /\ Goto(w, "result")
    /\ UNCHANGED <<status, jobTable, todo, batch, history>>

(* Variant: what is not worth a retry counts as done.                      *)
OutcomeUnlessTransient(w) ==
    IF result[w] = "transient" THEN "failed" ELSE "success"

Outcome(w) == IF result[w] = "success" THEN "success" ELSE "failed"

MarkJobResult(w) ==
    /\ pc[w] = "result"
    /\ jobStatus' = [jobStatus EXCEPT ![Current(w)] = Outcome(w)]
    /\ attempts' = [attempts EXCEPT ![Current(w)] = @ + 1]
    /\ Goto(w, "record")
    /\ UNCHANGED <<status, jobRecord, posts, todo, batch, result, history>>

(* Variant: a job is retried however often it was attempted.               *)
RetryableAlways(w) == result[w] = "transient"

(* The retry rule looks at the attempts that were read with the batch.     *)
Retryable(w) == result[w] = "transient" /\ batch[w][Current(w)] + 1 < 2

AfterRecord(w) == IF Retryable(w) THEN "requeue" ELSE "audit"

UpdateRecordStatus(w) ==
    /\ pc[w] = "record"
    /\ status' = [status EXCEPT ![jobRecord[Current(w)]] = Outcome(w)]
    /\ Goto(w, AfterRecord(w))
    /\ UNCHANGED <<jobTable, posts, todo, batch, result, history>>

(* UPDATE share_jobs SET status = 'pending', whatever it is by now.        *)
Requeue(w) ==
    /\ pc[w] = "requeue"
    /\ jobStatus' = [jobStatus EXCEPT ![Current(w)] = "pending"]
    /\ NextJob(w)
    /\ UNCHANGED <<status, jobRecord, attempts, posts, history>>

CreateAudit(w) ==
    /\ pc[w] = "audit"
    /\ NextJob(w)
    /\ UNCHANGED <<tables, history>>

-------------------------------------------------------------------------------
(* Mode server_post: the transaction of UpsertTrackShares commits, but the *)
(* caller sees an error and enqueues nothing (track_only ends there).      *)
ShareUnanswered(w, R) ==
    /\ Fault
    /\ pc[w] = "idle"
    /\ UpsertTrackShares(R, "pending")
    /\ UNCHANGED <<jobTable, posts, locals>>

(* A database call of a worker fails.  EnqueueJobs gives up the rest, a    *)
(* fetch whose rows break off has those that came, as nobody asks          *)
(* rows.Err(), or none if the query failed; all other errors are discarded *)
(* (a job that is not requeued is audited).                                *)
CallFails(w) ==
    /\ Fault
    /\ \/ /\ pc[w] = "enqueue"
          /\ todo' = [todo EXCEPT ![w] = Nothing]
          /\ UNCHANGED <<pc, batch, result>>
       \/ /\ pc[w] = "fetch"
          /\ \E n \in 0..BatchSize - 1 : Take(w, Oldest(n))
          /\ UNCHANGED <<todo, result>>
       \/ /\ \/ pc[w] = "run"     /\ Goto(w, "post")
             \/ pc[w] = "result"  /\ Goto(w, "record")
             \/ pc[w] = "record"  /\ Goto(w, AfterRecord(w))
             \/ pc[w] = "requeue" /\ Goto(w, "audit")
          /\ UNCHANGED <<todo, batch, result>>
       \/ /\ pc[w] = "audit"
          /\ NextJob(w)
    /\ UNCHANGED tables

(* The platform has the post, but its answer does not arrive.              *)
ResponseLost(w) ==
    /\ Fault
    /\ pc[w] = "post"
    /\ posts' = [posts EXCEPT ![Current(w)] = @ + 1]
    /\ result' = [result EXCEPT ![w] = "transient"]
    /\ Goto(w, "result")
    /\ UNCHANGED <<status, jobTable, todo, batch>>

(* Variant: a stopped worker keeps its batch.                              *)
StopWithBatch(W) ==
    /\ pc' = [w \in Worker |-> IF w \in W THEN "idle" ELSE pc[w]]
    /\ todo' = [w \in Worker |-> IF w \in W THEN Nothing ELSE todo[w]]
    /\ result' = [w \in Worker |-> IF w \in W THEN "none" ELSE result[w]]
    /\ UNCHANGED <<tables, batch>>

(* The workers of W stop where they are.                                   *)
Stop(W) ==
    /\ pc' = [w \in Worker |-> IF w \in W THEN "idle" ELSE pc[w]]
    /\ todo' = [w \in Worker |-> IF w \in W THEN Nothing ELSE todo[w]]
    /\ batch' = [w \in Worker |-> IF w \in W THEN Nothing ELSE batch[w]]
    /\ result' = [w \in Worker |-> IF w \in W THEN "none" ELSE result[w]]
    /\ UNCHANGED tables

(* The 30 seconds of the processing that Share starts are over, or the     *)
(* client of ProcessPending is gone: all further calls fail at once.       *)
Deadline(w) ==
    /\ Fault
    /\ pc[w] \notin {"idle", "enqueue"}
    /\ Stop({w})

Crash ==
    /\ Fault
    /\ \E w \in Worker : pc[w] # "idle"
    /\ Stop(Worker)

-------------------------------------------------------------------------------
Work(w) ==
    \/ Enqueue(w)
    \/ StartProcessing(w)
    \/ FetchPendingJobs(w)
    \/ MarkJobRunning(w)
    \/ Post(w)
    \/ MarkJobResult(w)
    \/ UpdateRecordStatus(w)
    \/ Requeue(w)
    \/ CreateAudit(w)

Next ==
    \/ \E w \in Worker :
           \/ \E R \in Request :
                  \/ ShareTrackOnly(w, R)
                  \/ ShareServerPost(w, R)
                  \/ ShareUnanswered(w, R)
           \/ ProcessPending(w)
           \/ Work(w)
           \/ CallFails(w)
           \/ ResponseLost(w)
           \/ Deadline(w)
    \/ Crash

Spec == Init /\ [][Next]_vars

-------------------------------------------------------------------------------
(* Type correctness; a worker has a batch exactly while it processes it.   *)
TypeOK ==
    /\ status \in [Record -> RecordStatus]
    /\ jobRecord \in [Job -> Record \cup {NoRecord}]
    /\ jobStatus \in [Job -> JobStatus]
    /\ attempts \in [Job -> Nat]
    /\ posts \in [Job -> Nat]
    /\ pc \in [Worker -> {"idle", "enqueue", "fetch", "run", "post", "result",
                          "record", "requeue", "audit"}]
    /\ \A w \in Worker : DOMAIN todo[w] \subseteq Nat /\ In(todo[w]) \subseteq Record
    /\ \A w \in Worker :
           /\ DOMAIN batch[w] \subseteq Job
           /\ \A j \in DOMAIN batch[w] : batch[w][j] \in Nat /\ jobRecord[j] \in Record
           /\ DOMAIN batch[w] # {} <=> pc[w] \notin {"idle", "enqueue", "fetch"}
    /\ result \in [Worker -> Result]
    /\ tracked \subseteq Record
    /\ overlap \in BOOLEAN
    /\ faults \in 0..MaxFaults

Posted(r) == \E j \in Job : jobRecord[j] = r /\ posts[j] > 0

(* Whatever overlaps or fails, a success is real: no job or record says so *)
(* unless the record's video is on the platform, or the user only asked to *)
(* have it recorded.                                                       *)
SuccessIsReal ==
    /\ \A j \in Job : jobStatus[j] = "success" => posts[j] > 0
    /\ \A r \in Record : status[r] = "success" => r \in tracked \/ Posted(r)

(* A worker between its MarkJobRunning and its MarkJobResult of j.         *)
Attends(w, j) == pc[w] \in {"post", "result"} /\ j = Current(w)

(* Until a call fails or the process stops, a running job is somebody's:   *)
(* no path through the platforms leaves one behind, which FetchPendingJobs *)
(* would never see again.                                                  *)
RunningIsAttended ==
    faults = 0 =>
        \A j \in Job : jobStatus[j] = "running" => \E w \in Worker : Attends(w, j)

(* Until then a pending record ("Stuck on pending" in README.md) has a job *)
(* that is pending or running, or is about to get one, or to be resolved.  *)
PendingIsQueued ==
    faults = 0 =>
        \A r \in Record : status[r] = "pending" =>
            \/ \E j \in Job : jobRecord[j] = r /\ jobStatus[j] \in {"pending", "running"}
            \/ \E w \in Worker : r \in In(todo[w])
            \/ \E w \in Worker : pc[w] = "record" /\ jobRecord[Current(w)] = r

(* "A single automatic retry" (README.md): as long as no two workers have  *)
(* one job in their batches, and no call fails, a job is attempted at most *)
(* twice and posted at most once.                                          *)
SingleRetry ==
    ~overlap /\ faults = 0 =>
        \A j \in Job : attempts[j] <= 2 /\ posts[j] <= 1
===============================================================================
