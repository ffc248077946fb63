----------------------------- MODULE Idempotency -----------------------------
(***************************************************************************)
(* The idempotency store (infrastructure/cache/idempotency.go): what its   *)
(* four commands do to the value kept in Redis under each key, and what    *)
(* they answer.  Redis executes a command, the script of Complete          *)
(* included, in one step.  Whether the answer reaches the caller is the    *)
(* business of the module that issues the commands.                        *)
(***************************************************************************)
CONSTANTS
    Key,          \* idempotency keys
    Result,       \* the stored responses
    Absent,       \* no value under the key
    InProgress    \* the marker "IN_PROGRESS"

ASSUME IdempotencyAssumption ==
    /\ Absent # InProgress
    /\ {Absent, InProgress} \cap Result = {}

VARIABLE store    \* the value under each key

StoreType == store \in [Key -> Result \cup {Absent, InProgress}]

StoreInit == store = [k \in Key |-> Absent]

(* Variant: only a stored response refuses the lock.                       *)
AcquiresUnlessCompleted(k) == store[k] \notin Result

(* AcquireLock: SETNX of the marker; ErrIdempotencyConflict if there was a *)
(* value.                                                                  *)
Acquires(k) == store[k] = Absent

(* Variant: SET without NX.                                                *)
SetMarkerAlways(k) == store' = [store EXCEPT ![k] = InProgress]

SetMarker(k) ==
    store' = IF Acquires(k) THEN [store EXCEPT ![k] = InProgress] ELSE store

(* The script of Complete compares the value with the marker, and with     *)
(* nothing that tells whose marker it is; ErrIdempotencyConflict if it     *)
(* differs.                                                                *)
Completes(k) == store[k] = InProgress

(* Variant: completion drops the key instead of keeping the response.      *)
DropKey(k, r) ==
    store' = IF Completes(k) THEN [store EXCEPT ![k] = Absent] ELSE store

(* The script then replaces the marker by the response.                    *)
SetResult(k, r) ==
    store' = IF Completes(k) THEN [store EXCEPT ![k] = r] ELSE store

(* Variant: whatever value the key has is taken for a response.            *)
HasValue(k) == store[k] # Absent

(* GetResult: a stored response, as opposed to the marker or nothing.      *)
HasResult(k) == store[k] \in Result

(* ReleaseLock: DEL, whatever the value and whoever wrote it.              *)
Delete(k) == store' = [store EXCEPT ![k] = Absent]

(* The TTL of the marker, or of the result, runs out.                      *)
Elapse(k) == store[k] # Absent /\ Delete(k)
===============================================================================
