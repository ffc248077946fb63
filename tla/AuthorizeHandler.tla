--------------------------- MODULE AuthorizeHandler ---------------------------
(***************************************************************************)
(* HandleAuthorize (interfaces/http/issuing_handler.go), run by concurrent *)
(* HTTP workers over the idempotency store, one action per remote call.    *)
(* AuthorizePayment is the one step in which its database transaction      *)
(* commits or gives up (module Ledger shows that it is one).               *)
(*                                                                         *)
(* A Redis command may be executed and its reply lost, in which case the   *)
(* client (go-redis, external) sends it again; or it may fail without      *)
(* having been executed, as it does when the request's context is          *)
(* cancelled.  The constant Faults says which of these, and of expiry of   *)
(* keys, panics and process stops, may happen.                             *)
(*                                                                         *)
(* Not modelled: metrics and tracing, and the failure of json.Marshal on   *)
(* two strings, which cannot happen.                                       *)
(***************************************************************************)
EXTENDS Idempotency, Integers

CONSTANTS
    Worker,     \* HTTP handler goroutines
    None,       \* no worker
    NoKey,      \* the Idempotency-Key header is missing or blank
    NoResult,   \* an answer without a transaction
    Request,    \* what clients send
    Faults      \* which faults may happen

Fault == {"callFailure", "replyLoss", "expiry", "panic", "crash"}

ASSUME HandlerAssumption ==
    /\ None \notin Worker
    /\ NoKey \notin Key
    /\ NoResult \notin Result
    /\ Request # {}
    /\ Request \subseteq [key     : Key \cup {NoKey},
                          txn     : Result,
                          decodes : BOOLEAN]
    /\ Faults \subseteq Fault

VARIABLES
    posted,     \* committed transactions, with the key each was sent under
    pc,         \* the next step of each worker
    req,        \* the request it serves or served last
    answer,     \* the response decided on; sent once the worker is idle
    owner,      \* the worker whose AcquireLock wrote the last marker of a key
    worst       \* the worst fault so far: 0 none, or only process stops
                \*   1 a call failed or a handler panicked
                \*   2 a reply was lost or a key expired

calls == <<pc, req, answer>>
vars  == <<store, posted, pc, req, answer, owner, worst>>

Posting == [key : Key, txn : Result]

Answer == [status : {0, 200, 400, 404, 409, 422, 500},
           result : Result \cup {NoResult}]

NoAnswer == [status |-> 0, result |-> NoResult]
Respond(status) == [status |-> status, result |-> NoResult]
Replay(r) == [status |-> 200, result |-> r]

KeyOf(w) == req[w].key

Init ==
    /\ StoreInit
    /\ posted = {}
    /\ pc = [w \in Worker |-> "idle"]
    /\ req = [w \in Worker |-> CHOOSE r \in Request : TRUE]
    /\ answer = [w \in Worker |-> NoAnswer]
    /\ owner = [k \in Key |-> None]
    /\ worst = 0

(* A fault of class n happens.                                             *)
Worsen(n) == worst' = IF worst < n THEN n ELSE worst

Goto(w, next) ==
    /\ pc' = [pc EXCEPT ![w] = next]
    /\ UNCHANGED <<req, answer>>

(* The handler returns with response a.                                    *)
Return(w, a) ==
    /\ pc' = [pc EXCEPT ![w] = "idle"]
    /\ answer' = [answer EXCEPT ![w] = a]
    /\ UNCHANGED req

(* Variant: an error path that returns without releasing the lock.         *)
ReleaseForgotten(w, status) == Return(w, Respond(status))

(* Every error path behind the lock: release it, then respond.             *)
ReleaseAnd(w, status) ==
    /\ pc' = [pc EXCEPT ![w] = "release"]
    /\ answer' = [answer EXCEPT ![w] = Respond(status)]
    /\ UNCHANGED req

-------------------------------------------------------------------------------
(* A request arrives; without a key it is refused before anything else.    *)
Receive(w, r) ==
    /\ pc[w] = "idle"
    /\ req' = [req EXCEPT ![w] = r]
    /\ \/ /\ r.key = NoKey
          /\ answer' = [answer EXCEPT ![w] = Respond(400)]
          /\ UNCHANGED pc
       \/ /\ r.key # NoKey
          /\ answer' = [answer EXCEPT ![w] = NoAnswer]
          /\ pc' = [pc EXCEPT ![w] = "acquire"]
    /\ UNCHANGED <<store, posted, owner, worst>>

(* The command of AcquireLock, with the history of who wrote the marker.   *)
ExecuteAcquire(w) ==
    /\ SetMarker(KeyOf(w))
    /\ owner' = IF Acquires(KeyOf(w)) THEN [owner EXCEPT ![KeyOf(w)] = w]
                                      ELSE owner

Acquire(w) ==
    /\ pc[w] = "acquire"
    /\ ExecuteAcquire(w)
    /\ Goto(w, IF Acquires(KeyOf(w)) THEN "decode" ELSE "lookup")
    /\ UNCHANGED <<posted, worst>>

(* On a conflict: replay the stored response, or report a conflict.        *)
LookUp(w) ==
    /\ pc[w] = "lookup"
    /\ Return(w, IF HasResult(KeyOf(w)) THEN Replay(store[KeyOf(w)])
                                        ELSE Respond(409))
    /\ UNCHANGED <<store, posted, owner, worst>>

(* decodeAuthorizeRequest.                                                 *)
Decode(w) ==
    /\ pc[w] = "decode"
    /\ IF req[w].decodes THEN Goto(w, "authorize") ELSE ReleaseAnd(w, 400)
    /\ UNCHANGED <<store, posted, owner, worst>>

NotPosted(t) == \A p \in posted : p.txn # t

(* AuthorizePayment commits; the answer to COMMIT may be lost.             *)
Post(w) ==
    /\ pc[w] = "authorize"
    /\ NotPosted(req[w].txn)
    /\ posted' = posted \cup {[key |-> KeyOf(w), txn |-> req[w].txn]}
    /\ \/ Goto(w, "complete") /\ UNCHANGED worst
       \/ "callFailure" \in Faults /\ ReleaseAnd(w, 500) /\ Worsen(1)
    /\ UNCHANGED <<store, owner>>

(* Variant: the error of AuthorizePayment is not looked at.                *)
DeclineUnnoticed(w) ==
    /\ pc[w] = "authorize"
    /\ Goto(w, "complete")
    /\ UNCHANGED <<store, posted, owner, worst>>

(* AuthorizePayment returns an error: unknown account, funds, currency,    *)
(* validation, or a transaction identifier that is already posted.         *)
Decline(w) ==
    /\ pc[w] = "authorize"
    /\ \E status \in {404, 422, 500} : ReleaseAnd(w, status)
    /\ UNCHANGED <<store, posted, owner, worst>>

Complete(w) ==
    /\ pc[w] = "complete"
    /\ SetResult(KeyOf(w), req[w].txn)
    /\ IF Completes(KeyOf(w)) THEN Return(w, Replay(req[w].txn))
                              ELSE ReleaseAnd(w, 500)
    /\ UNCHANGED <<posted, owner, worst>>

Release(w) ==
    /\ pc[w] = "release"
    /\ Delete(KeyOf(w))
    /\ Return(w, answer[w])
    /\ UNCHANGED <<posted, owner, worst>>

-------------------------------------------------------------------------------
(* A command is executed but its reply is lost; the client sends it again. *)
ReplyLost(w) ==
    /\ "replyLoss" \in Faults
    /\ \/ pc[w] = "acquire" /\ ExecuteAcquire(w)
       \/ pc[w] = "complete" /\ SetResult(KeyOf(w), req[w].txn) /\ UNCHANGED owner
       \/ pc[w] = "release" /\ Delete(KeyOf(w)) /\ UNCHANGED owner
    /\ Worsen(2)
    /\ UNCHANGED <<posted, calls>>

(* A command fails, now or after retries, and this attempt is not          *)
(* executed.  The error of ReleaseLock is discarded; one of GetResult      *)
(* counts as a conflict.                                                   *)
CallFails(w) ==
    /\ "callFailure" \in Faults
    /\ \/ pc[w] = "acquire" /\ Return(w, Respond(500))
       \/ pc[w] = "lookup" /\ Return(w, Respond(409))
       \/ pc[w] = "complete" /\ ReleaseAnd(w, 500)
       \/ pc[w] = "release" /\ Return(w, answer[w])
    /\ Worsen(1)
    /\ UNCHANGED <<store, posted, owner>>

(* The deferred recover of HandleAuthorize while lockActive.               *)
Panic(w) ==
    /\ "panic" \in Faults
    /\ pc[w] \in {"decode", "authorize", "complete"}
    /\ ReleaseAnd(w, 500)
    /\ Worsen(1)
    /\ UNCHANGED <<store, posted, owner>>

(* The process stops: no worker answers, the store and the ledger stay.    *)
Crash ==
    /\ "crash" \in Faults
    /\ \E w \in Worker : pc[w] # "idle"
    /\ pc' = [w \in Worker |-> "idle"]
    /\ answer' = [w \in Worker |-> NoAnswer]
    /\ UNCHANGED <<store, posted, req, owner, worst>>

Expire(k) ==
    /\ "expiry" \in Faults
    /\ Elapse(k)
    /\ Worsen(2)
    /\ UNCHANGED <<posted, calls, owner>>

-------------------------------------------------------------------------------
Serve(w) ==
    \/ Acquire(w)
    \/ LookUp(w)
    \/ Decode(w)
    \/ Post(w)
    \/ Decline(w)
    \/ Complete(w)
    \/ Release(w)

Next ==
    \/ \E w \in Worker :
           \/ \E r \in Request : Receive(w, r)
           \/ Serve(w)
           \/ ReplyLost(w)
           \/ CallFails(w)
           \/ Panic(w)
    \/ \E k \in Key : Expire(k)
    \/ Crash

Spec == Init /\ [][Next]_vars

-------------------------------------------------------------------------------
(* Type correctness: store, postings and what each worker is doing.        *)
CallsType ==
    /\ pc \in [Worker -> {"idle", "acquire", "lookup", "decode", "authorize",
                          "complete", "release"}]
    /\ req \in [Worker -> Request]
    /\ \A w \in Worker : pc[w] # "idle" => KeyOf(w) \in Key
    /\ answer \in [Worker -> Answer]

TypeOK ==
    /\ StoreType
    /\ posted \subseteq Posting
    /\ CallsType
    /\ owner \in [Key -> Worker \cup {None}]
    /\ worst \in 0..2

(* A worker that has acquired its key and not yet given it up.             *)
Holds(w, k) ==
    /\ pc[w] \in {"decode", "authorize", "complete", "release"}
    /\ KeyOf(w) = k

(* Whatever fails, a 200 answer, replayed ones included, names a           *)
(* transaction that is in the ledger and was sent under the same key.      *)
AnswerIsTrue ==
    \A w \in Worker : answer[w].status = 200 =>
        [key |-> KeyOf(w), txn |-> answer[w].result] \in posted

(* Until a key expires or a reply is lost, no two workers hold one key,    *)
(* not even after failed calls, panics and restarts: "Concurrent retries   *)
(* therefore leave exactly one request holding the IN_PROGRESS marker"     *)
(* (idempotency.go:46-47).                                                 *)
OneHolder ==
    worst < 2 =>
        \A k \in Key : \A v, w \in Worker : Holds(v, k) /\ Holds(w, k) => v = w

(* Until then a 200 answer stands: the store keeps giving the same one for *)
(* the key.                                                                *)
AnswerStands ==
    worst < 2 =>
        \A w \in Worker : answer[w].status = 200 =>
            store[KeyOf(w)] = answer[w].result

(* And until then a result replaces a marker only by the worker that wrote *)
(* the marker.                                                             *)
CompletedByHolder ==
    [][\A w \in Worker :
           worst' < 2 /\ Complete(w) /\ store' # store => owner[KeyOf(w)] = w]_vars

(* "A worker may publish a result only while the request still owns the    *)
(* IN_PROGRESS state" (idempotency.go:34-36): the same, whatever happens.  *)
CompletedByOwner ==
    [][\A w \in Worker : Complete(w) /\ store' # store => owner[KeyOf(w)] = w]_vars

(* Worker w sends its answer: it goes idle with one.                       *)
Answers(w) == pc[w] # "idle" /\ pc'[w] = "idle" /\ answer'[w] # NoAnswer

(* As long as nothing but process stops goes wrong, a request that is      *)
(* answered with an error other than 409 leaves its key without a posting, *)
(* by whatever call: the client may send another transaction under it.     *)
(* 409 ("request is already in progress") leaves the outcome open.  The    *)
(* key may be in work, or a process stopped between its commit and         *)
(* Complete, and then the posting stands.                                  *)
DeclinedMeansNotPosted ==
    [][\A w \in Worker :
           worst' = 0 /\ Answers(w) /\ answer'[w].status \notin {200, 409} =>
               \A p \in posted' : p.key # KeyOf(w)]_vars

(* As long as that is so, at most one transaction is posted under a key,   *)
(* even if the client names a new one with every retry.                    *)
PostedOncePerKey ==
    worst = 0 => \A p, q \in posted : p.key = q.key => p = q

(* As long as Redis answers and the process runs, a marker is always       *)
(* somebody's: no return path, panics included, leaves one behind.         *)
NoOrphanMarker ==
    \A k \in Key : store[k] = InProgress => \E w \in Worker : Holds(w, k)

(* A key in progress is given up again: completed or released.             *)
KeyRecovers ==
    \A k \in Key : store[k] = InProgress ~> store[k] # InProgress
===============================================================================
