------------------------------- MODULE MCProcess -------------------------------
(* Four parts of the process in which somebody may wait for good for what  *)
(* another goroutine leaves undone, and which share no state: main with    *)
(* its relay and its server, the hub of the share status streams, the      *)
(* worker pool, and the handlers of module AuthorizeHandler over the       *)
(* markers of their keys.  A behaviour is one of one part; the others rest *)
(* in their initial states.                                                *)
EXTENDS ServiceProcess, ShareHub, WorkerPool

CONSTANTS Worker, None, NoKey, NoResult, Request, Faults,
          Key, Result, Absent, InProgress

VARIABLES part, store, posted, pc, req, answer, owner, worst

Handler == INSTANCE AuthorizeHandler

handlerVars == <<store, posted, pc, req, answer, owner, worst>>
allVars == <<part, vars, hubVars, poolVars, handlerVars>>

MCInit ==
    /\ part \in {"main", "hub", "pool", "handlers"}
    /\ Init
    /\ HubInit
    /\ PoolInit
    /\ Handler!Init
    /\ part # "pool" => nameless = {}

MCNext ==
    \/ part = "main" /\ Next /\ UNCHANGED <<part, hubVars, poolVars, handlerVars>>
    \/ part = "hub" /\ HubNext /\ UNCHANGED <<part, vars, poolVars, handlerVars>>
    \/ part = "pool" /\ PoolNext /\ UNCHANGED <<part, vars, hubVars, handlerVars>>
    \/ part = "handlers" /\ Handler!Next /\ UNCHANGED <<part, vars, hubVars, poolVars>>

Main(A) == part = "main" /\ exit = Running /\ A
Hub(A)  == part = "hub" /\ ~panicked /\ A
Pool(A) == part = "pool" /\ A
Handlers(A) == part = "handlers" /\ A

(* The goroutines are scheduled, the relay watches its context, and the    *)
(* database of the pool answers; the calls of a handler return; a client of *)
(* a stream need neither come, nor read, nor leave.                        *)
MCSpec ==
    /\ MCInit /\ [][MCNext]_allVars
    /\ WF_vars(Main(MainStep))
    /\ WF_vars(Main(ServerStep))
    /\ WF_vars(Main(cancelled /\ RelayEnds))
    /\ \A s \in Stream : WF_hubVars(Hub(StreamStep(s)))
    /\ \A b \in Sender : WF_hubVars(Hub(SenderStep(b)))
    /\ WF_poolVars(Pool(Produce))
    /\ WF_poolVars(Pool(Collect))
    /\ \A w \in PoolWorker : WF_poolVars(Pool(Work(w)))
    /\ \A w \in Worker : WF_handlerVars(Handlers(Handler!Serve(w)))

NoOrphanMarker == Handler!NoOrphanMarker
KeyRecovers    == Handler!KeyRecovers

Ask(k, t, d) == [key |-> k, txn |-> t, decodes |-> d]

(* One key with two transactions and a body that does not decode, another  *)
(* key, and none.                                                          *)
MCRequest == {
    Ask("k1", "t1", TRUE),
    Ask("k1", "t2", TRUE),
    Ask("k1", "t1", FALSE),
    Ask("k2", "t1", TRUE),
    Ask(NoKey, "t1", TRUE) }

MCUserOf == [s \in Stream |-> IF s = 3 THEN "v" ELSE "u"]
===============================================================================
