----------------------------- MODULE LedgerProofs -----------------------------
(***************************************************************************)
(* Proofs about Ledger for every set of workers, accounts and requests.    *)
(***************************************************************************)
EXTENDS LedgerInvariant, FiniteSetTheorems, TLAPS

(***************************************************************************)
(* Type correctness.                                                       *)
(***************************************************************************)

(* The initial tables, locks and local variables are well typed.           *)
LEMMA InitType == Init => TypeOK
  <1> SUFFICES ASSUME Init PROVE TypeOK
    OBVIOUS
  <1>1. (CHOOSE r \in Request : TRUE) \in Request
    BY LedgerAssumption
  <1>2. InitBalance \in [Account -> Int]
    BY LedgerAssumption
  <1> QED
    BY <1>1, <1>2 DEF Init, TypeOK, NothingStaged, Outcome

(* A callback that returns an error leaves well-typed values.              *)
LEMMA AbortType ==
  ASSUME TypeOK, NEW w \in Worker, NEW why \in Outcome, Abort(w, why)
  PROVE  TypeOK'
  BY DEF Abort, TypeOK, tables, locks

(* SELECT ... FOR UPDATE keeps the types: it reads an integer of a row.    *)
LEMMA LockType ==
  ASSUME TypeOK, NEW w \in Worker, NEW id \in AccountId,
         NEW next \in Statement, GetAccountForUpdate(w, id, next)
  PROVE  TypeOK'
  <1>1. CASE RowOf[id] = NoRow
    BY <1>1, AbortType DEF GetAccountForUpdate, Outcome
  <1>2. CASE RowOf[id] # NoRow
    <2>1. RowOf[id] \in Account
      BY <1>2, LedgerAssumption
    <2>2. row[RowOf[id]] \in Int
      BY <2>1 DEF TypeOK
    <2>3. /\ rowLock' = [rowLock EXCEPT ![RowOf[id]] = w]
          /\ seen' = [seen EXCEPT ![w][id] = row[RowOf[id]]]
          /\ pc' = [pc EXCEPT ![w] = next]
          /\ UNCHANGED <<tables, row, staged, req, outcome>>
      BY <1>2 DEF GetAccountForUpdate
    <2>4. seen' \in [Worker -> [AccountId -> Int]]
      BY <2>2, <2>3 DEF TypeOK
    <2>5. rowLock' \in [Account -> Worker \cup {None}]
      BY <2>3 DEF TypeOK
    <2> QED
      BY <2>3, <2>4, <2>5 DEF TypeOK, tables
  <1> QED
    BY <1>1, <1>2

(* The fields of the request a worker serves, and the rows they find.      *)
LEMMA RequestType ==
  ASSUME TypeOK, NEW w \in Worker
  PROVE  /\ req[w] \in Request
         /\ req[w].txn \in TxnId
         /\ req[w].source \in AccountId
         /\ req[w].destination \in AccountId
         /\ req[w].amount \in Int
         /\ First(req[w]) \in AccountId
         /\ Second(req[w]) \in AccountId
         /\ {First(req[w]), Second(req[w])} =
                {req[w].source, req[w].destination}
         /\ SourceRow(w) \in Account \cup {NoRow}
         /\ DestinationRow(w) \in Account \cup {NoRow}
  <1>1. req[w] \in Request
    BY DEF TypeOK
  <1>2. /\ req[w].txn \in TxnId
        /\ req[w].source \in AccountId
        /\ req[w].destination \in AccountId
        /\ req[w].amount \in Int
    BY <1>1, LedgerAssumption
  <1>3. /\ First(req[w]) \in {req[w].source, req[w].destination}
        /\ {First(req[w]), Second(req[w])} =
                {req[w].source, req[w].destination}
        /\ Second(req[w]) \in {req[w].source, req[w].destination}
    BY DEF First, Second
  <1> QED
    BY <1>1, <1>2, <1>3, LedgerAssumption DEF SourceRow, DestinationRow

(* What a step of one worker leaves alone: the calls of the others, the    *)
(* rows they have locked, and everything committed.                        *)
Frame(w) ==
  /\ \A v \in Worker \ {w} :
        /\ pc'[v] = pc[v]
        /\ req'[v] = req[v]
        /\ seen'[v] = seen[v]
        /\ staged'[v] = staged[v]
        /\ outcome'[v] = outcome[v]
        /\ \A a \in Account :
              /\ rowLock'[a] = v <=> rowLock[a] = v
              /\ rowLock[a] = v => row'[a] = row[a] /\ balance'[a] = balance[a]
  /\ events \subseteq events'

(* A SELECT ... FOR UPDATE of one worker disturbs no other worker.         *)
LEMMA LockFrame ==
  ASSUME TypeOK, NEW w \in Worker, NEW id \in AccountId,
         NEW next \in Statement, GetAccountForUpdate(w, id, next)
  PROVE  Frame(w)
  <1>1. CASE RowOf[id] = NoRow
    BY <1>1 DEF GetAccountForUpdate, Abort, Frame, TypeOK, tables, locks
  <1>2. CASE RowOf[id] # NoRow
    BY <1>2, LedgerAssumption
    DEF GetAccountForUpdate, Frame, TypeOK, tables, Free
  <1> QED
    BY <1>1, <1>2

(* An UPDATE of an account row disturbs no other worker.                   *)
LEMMA UpdateFrame ==
  ASSUME TypeOK, NEW w \in Worker, NEW a \in Account, NEW value,
         NEW next, UpdateAccountBalance(w, a, value, next)
  PROVE  Frame(w)
  BY LedgerAssumption
  DEF UpdateAccountBalance, Abort, Frame, TypeOK, tables, locks, Free

(* COMMIT and ROLLBACK touch only rows the transaction has locked.         *)
LEMMA EndFrame ==
  ASSUME TypeOK, NEW w \in Worker, Commit(w) \/ Rollback(w)
  PROVE  Frame(w)
  BY LedgerAssumption
  DEF Commit, Rollback, EndTransaction, Unlocked, Frame, TypeOK, tables

(* A step of a worker, as Next has it.                                     *)
WorkerStep(w) == Accept(w) \/ Step(w) \/ Fail(w)

(* No step of a worker disturbs the transaction of another one.            *)
LEMMA StepFrame ==
  ASSUME TypeOK, NEW w \in Worker, WorkerStep(w)
  PROVE  Frame(w)
  <1> USE DEF Frame, TypeOK, tables, locks
  <1>1. CASE \E r \in Request : Begin(w, r)
    BY <1>1 DEF Begin
  <1>2. CASE \E r \in Request : Refuse(w, r)
    BY <1>2 DEF Refuse
  <1>3. CASE LockFirst(w)
    BY <1>3, LockFrame, RequestType DEF LockFirst, Statement
  <1>4. CASE LockSecond(w)
    BY <1>4, LockFrame, RequestType DEF LockSecond, Statement
  <1>5. CASE RejectFunds(w) \/ RejectCurrency(w) \/ Fail(w)
    BY <1>5 DEF RejectFunds, RejectCurrency, Fail, Abort
  <1>6. CASE CreateLedgerTransaction(w)
    BY <1>6 DEF CreateLedgerTransaction, Abort
  <1>7. CASE UpdateSource(w)
    <2>1. CASE SourceRow(w) \in Account
      BY <1>7, <2>1, UpdateFrame DEF UpdateSource
    <2>2. CASE SourceRow(w) \notin Account
      BY <1>7, <2>2 DEF UpdateSource, UpdateAccountBalance, Abort
    <2> QED
      BY <2>1, <2>2
  <1>8. CASE UpdateDestination(w)
    <2>1. CASE DestinationRow(w) \in Account
      BY <1>8, <2>1, UpdateFrame DEF UpdateDestination
    <2>2. CASE DestinationRow(w) \notin Account
      BY <1>8, <2>2 DEF UpdateDestination, UpdateAccountBalance, Abort
    <2> QED
      BY <2>1, <2>2
  <1>9. CASE InsertDebit(w) \/ InsertCredit(w)
    BY <1>9 DEF InsertDebit, InsertCredit, CreateLedgerEntry
  <1>10. CASE CreateOutboxEvent(w)
    BY <1>10 DEF CreateOutboxEvent
  <1>11. CASE Commit(w) \/ Rollback(w)
    BY <1>11, EndFrame
  <1> QED
    BY <1>1, <1>2, <1>3, <1>4, <1>5, <1>6, <1>7, <1>8, <1>9, <1>10, <1>11
    DEF WorkerStep, Accept, Step

(* The rows a worker works on are rows it has locked, so what holds of its *)
(* own transaction survives every step of another worker.                  *)
LEMMA OthersKeep ==
  ASSUME TypeOK, NEW w \in Worker, Frame(w), NEW v \in Worker \ {w},
         WorkerInv(v)
  PROVE  WorkerInv(v)'
  <1>1. /\ pc'[v] = pc[v]
        /\ req'[v] = req[v]
        /\ seen'[v] = seen[v]
        /\ staged'[v] = staged[v]
        /\ outcome'[v] = outcome[v]
        /\ \A a \in Account :
              /\ rowLock'[a] = v <=> rowLock[a] = v
              /\ rowLock[a] = v => row'[a] = row[a] /\ balance'[a] = balance[a]
        /\ events \subseteq events'
    BY DEF Frame
  <1>2. /\ SourceRow(v) \in Account \cup {NoRow}
        /\ DestinationRow(v) \in Account \cup {NoRow}
        /\ FirstRow(v) \in Account \cup {NoRow}
    BY RequestType, LedgerAssumption DEF FirstRow
  <1>3. /\ SourceRow(v)' = SourceRow(v)
        /\ DestinationRow(v)' = DestinationRow(v)
        /\ FirstRow(v)' = FirstRow(v)
        /\ First(req[v])' = First(req[v])
        /\ Valid(req[v])' = Valid(req[v])
        /\ FundsSuffice(v)' = FundsSuffice(v)
        /\ CurrenciesAgree(v)' = CurrenciesAgree(v)
        /\ NewSourceBalance(v)' = NewSourceBalance(v)
        /\ NewDestinationBalance(v)' = NewDestinationBalance(v)
        /\ DebitEntry(v)' = DebitEntry(v)
        /\ CreditEntry(v)' = CreditEntry(v)
        /\ AuthorizedEvent(v)' = AuthorizedEvent(v)
    BY <1>1 DEF SourceRow, DestinationRow, FirstRow, First, Valid,
       FundsSuffice, CurrenciesAgree, NewSourceBalance,
       NewDestinationBalance, DebitEntry, CreditEntry, AuthorizedEvent
  <1>4. LocksOf(v)'
    BY <1>1, <1>3 DEF WorkerInv, LocksOf
  <1>5. /\ pc[v] = "lockSecond" =>
              /\ row'[FirstRow(v)] = row[FirstRow(v)]
              /\ balance'[FirstRow(v)] = balance[FirstRow(v)]
        /\ pc[v] \in BothLocked =>
              /\ row'[SourceRow(v)] = row[SourceRow(v)]
              /\ balance'[SourceRow(v)] = balance[SourceRow(v)]
              /\ row'[DestinationRow(v)] = row[DestinationRow(v)]
              /\ balance'[DestinationRow(v)] = balance[DestinationRow(v)]
    BY <1>1, <1>2 DEF WorkerInv, LocksOf
  <1>6. RowsOf(v)'
    BY <1>1, <1>3, <1>5
    DEF WorkerInv, RowsOf, BothLocked, Checked, Updated, Statement
  <1>7. ReadsOf(v)'
    BY <1>1, <1>3, <1>5 DEF WorkerInv, ReadsOf
  <1>8. GuardsOf(v)' /\ StagedOf(v)'
    BY <1>1, <1>3 DEF WorkerInv, GuardsOf, StagedOf
  <1>9. (outcome[v] = "ok" => AuthorizedEvent(v) \in events)'
    BY <1>1, <1>3 DEF WorkerInv
  <1> QED
    BY <1>4, <1>6, <1>7, <1>8, <1>9 DEF WorkerInv

(* UPDATE of a balance keeps the types.                                    *)
LEMMA UpdateType ==
  ASSUME TypeOK, NEW w \in Worker, NEW a \in Account, NEW value \in Int,
         NEW next \in Statement, UpdateAccountBalance(w, a, value, next)
  PROVE  TypeOK'
  <1>1. CASE Abort(w, "error")
    BY <1>1, AbortType DEF Outcome
  <1>2. CASE ~Abort(w, "error")
    <2>1. /\ rowLock' = [rowLock EXCEPT ![a] = w]
          /\ row' = [row EXCEPT ![a] = value]
          /\ pc' = [pc EXCEPT ![w] = next]
          /\ UNCHANGED <<tables, staged, req, seen, outcome>>
      BY <1>2 DEF UpdateAccountBalance
    <2>2. /\ rowLock' \in [Account -> Worker \cup {None}]
          /\ row' \in [Account -> Int]
          /\ pc' \in [Worker -> Statement \cup {"idle", "rollback"}]
      BY <2>1 DEF TypeOK
    <2> QED
      BY <2>1, <2>2 DEF TypeOK, tables
  <1> QED
    BY <1>1, <1>2 DEF UpdateAccountBalance

(* INSERT of an entry keeps the types.                                     *)
LEMMA EntryType ==
  ASSUME TypeOK, NEW w \in Worker, NEW entry \in Entry, NEW next \in Statement,
         CreateLedgerEntry(w, entry, next)
  PROVE  TypeOK'
  <1>1. staged' \in [Worker -> [txns    : SUBSET TxnId,
                               entries : SUBSET Entry,
                               events  : SUBSET Event]]
    BY DEF CreateLedgerEntry, TypeOK
  <1>2. pc' \in [Worker -> Statement \cup {"idle", "rollback"}]
    BY DEF CreateLedgerEntry, TypeOK
  <1> QED
    BY <1>1, <1>2 DEF CreateLedgerEntry, TypeOK, tables, locks

(* What a transaction computes is of the type its columns have.            *)
LEMMA ComputedType ==
  ASSUME TypeOK, NEW w \in Worker
  PROVE  /\ NewSourceBalance(w) \in Int
         /\ NewDestinationBalance(w) \in Int
         /\ SourceRow(w) # NoRow => DebitEntry(w) \in Entry
         /\ DestinationRow(w) # NoRow => CreditEntry(w) \in Entry
         /\ SourceRow(w) # NoRow /\ DestinationRow(w) # NoRow /\ Valid(req[w])
               => AuthorizedEvent(w) \in Event
  <1>1. /\ seen[w][req[w].source] \in Int
        /\ seen[w][req[w].destination] \in Int
    BY RequestType DEF TypeOK
  <1>2. SourceRow(w) # NoRow => CurrencyOf[SourceRow(w)] \in Currency
    BY RequestType, LedgerAssumption
  <1> QED
    BY <1>1, <1>2, RequestType
    DEF NewSourceBalance, NewDestinationBalance, DebitEntry, CreditEntry,
        AuthorizedEvent, Entry, Event, Valid

(* COMMIT and ROLLBACK keep the types.                                     *)
LEMMA EndType ==
  ASSUME TypeOK, NEW w \in Worker, Commit(w) \/ Rollback(w)
  PROVE  TypeOK'
  <1> DEFINE Staged == [txns    : SUBSET TxnId,
                        entries : SUBSET Entry,
                        events  : SUBSET Event]
             ZeroReads == [a \in AccountId |-> 0]
  <1>a. NothingStaged \in Staged
    BY DEF NothingStaged
  <1>b. ZeroReads \in [AccountId -> Int]
    OBVIOUS
  <1>c. staged' \in [Worker -> Staged]
    <2>1. staged \in [Worker -> Staged]
      BY DEF TypeOK
    <2>2. staged' = [staged EXCEPT ![w] = NothingStaged]
      BY DEF Commit, Rollback, EndTransaction
    <2> HIDE DEF Staged
    <2> QED
      BY <1>a, <2>1, <2>2
  <1>d. seen' \in [Worker -> [AccountId -> Int]]
    <2>1. seen' = [seen EXCEPT ![w] = ZeroReads]
      BY DEF Commit, Rollback, EndTransaction
    <2> HIDE DEF ZeroReads
    <2> QED
      BY <1>b, <2>1 DEF TypeOK
  <1>1. /\ rowLock' \in [Account -> Worker \cup {None}]
        /\ pc' \in [Worker -> Statement \cup {"idle", "rollback"}]
        /\ req' \in [Worker -> Request]
    BY DEF Commit, Rollback, EndTransaction, Unlocked, TypeOK
  <1>3. row' \in [Account -> Int]
    BY DEF Commit, Rollback, TypeOK
  <1>4. /\ balance' \in [Account -> Int]
        /\ txns' \subseteq TxnId
        /\ entries' \subseteq Entry
        /\ events' \subseteq Event
    BY DEF Commit, Rollback, TypeOK, tables
  <1>5. outcome' \in [Worker -> Outcome]
    BY DEF Commit, Rollback, TypeOK, Outcome
  <1> QED
    BY <1>c, <1>d, <1>1, <1>3, <1>4, <1>5 DEF TypeOK

(* Every step of a worker keeps the types.                                 *)
LEMMA StepType ==
  ASSUME TypeOK, NEW w \in Worker, WorkerInv(w), WorkerStep(w)
  PROVE  TypeOK'
  <1>1. CASE \E r \in Request : Begin(w, r)
    BY <1>1 DEF Begin, TypeOK, Outcome, Statement, tables, locks
  <1>2. CASE \E r \in Request : Refuse(w, r)
    BY <1>2 DEF Refuse, TypeOK, Outcome, tables, locks
  <1>3. CASE LockFirst(w)
    BY <1>3, LockType, RequestType DEF LockFirst, Statement
  <1>4. CASE LockSecond(w)
    BY <1>4, LockType, RequestType DEF LockSecond, Statement
  <1>5. CASE RejectFunds(w) \/ RejectCurrency(w) \/ Fail(w)
    BY <1>5, AbortType DEF RejectFunds, RejectCurrency, Fail, Outcome
  <1>6. CASE CreateLedgerTransaction(w)
    <2>1. CASE Abort(w, "error")
      BY <2>1, AbortType DEF Outcome
    <2>2. CASE ~Abort(w, "error")
      <3>1. /\ staged' = [staged EXCEPT ![w].txns = @ \cup {req[w].txn}]
            /\ pc' = [pc EXCEPT ![w] = "updateSource"]
            /\ UNCHANGED <<tables, locks, req, seen, outcome>>
        BY <1>6, <2>2 DEF CreateLedgerTransaction
      <3>2. staged' \in [Worker -> [txns    : SUBSET TxnId,
                                   entries : SUBSET Entry,
                                   events  : SUBSET Event]]
        <4>1. req[w].txn \in TxnId
          BY RequestType
        <4> QED
          BY <3>1, <4>1 DEF TypeOK
      <3> QED
        BY <3>1, <3>2 DEF TypeOK, Statement, tables, locks
    <2> QED
      BY <2>1, <2>2
  <1>7. CASE UpdateSource(w)
    BY <1>7, UpdateType, ComputedType, RequestType
    DEF UpdateSource, WorkerInv, LocksOf, BothLocked, Statement
  <1>8. CASE UpdateDestination(w)
    BY <1>8, UpdateType, ComputedType, RequestType
    DEF UpdateDestination, WorkerInv, LocksOf, BothLocked, Statement
  <1>9. CASE InsertDebit(w)
    <2>1. SourceRow(w) # NoRow /\ CreateLedgerEntry(w, DebitEntry(w), "insertCredit")
      BY <1>9 DEF InsertDebit, WorkerInv, LocksOf, BothLocked, Statement
    <2> QED
      BY <2>1, ComputedType, EntryType DEF Statement
  <1>10. CASE InsertCredit(w)
    <2>1. DestinationRow(w) # NoRow /\ CreateLedgerEntry(w, CreditEntry(w), "insertEvent")
      BY <1>10 DEF InsertCredit, WorkerInv, LocksOf, BothLocked, Statement
    <2> QED
      BY <2>1, ComputedType, EntryType DEF Statement
  <1>11. CASE CreateOutboxEvent(w)
    <2>1. AuthorizedEvent(w) \in Event
      BY <1>11, ComputedType
      DEF CreateOutboxEvent, WorkerInv, LocksOf, GuardsOf, BothLocked, Statement
    <2>2. staged' \in [Worker -> [txns    : SUBSET TxnId,
                                 entries : SUBSET Entry,
                                 events  : SUBSET Event]]
      BY <1>11, <2>1 DEF CreateOutboxEvent, TypeOK
    <2> QED
      BY <1>11, <2>2 DEF CreateOutboxEvent, TypeOK, Statement, tables, locks
  <1>12. CASE Commit(w) \/ Rollback(w)
    BY <1>12, EndType
  <1> QED
    BY <1>1, <1>2, <1>3, <1>4, <1>5, <1>6, <1>7, <1>8, <1>9, <1>10, <1>11,
       <1>12 DEF WorkerStep, Accept, Step

(***************************************************************************)
(* A step of a worker preserves what holds of its own transaction.         *)
(***************************************************************************)

(* After an error only the rollback is left: nothing is claimed of it.     *)
LEMMA AbortKeeps ==
  ASSUME TypeOK, NEW w \in Worker, NEW why, why # "ok", Abort(w, why)
  PROVE  WorkerInv(w)'
  <1>1. pc'[w] = "rollback" /\ outcome'[w] = why
    BY DEF Abort, TypeOK
  <1> QED
    BY <1>1
    DEF WorkerInv, LocksOf, RowsOf, ReadsOf, GuardsOf, StagedOf, BothLocked,
        Checked, Updated, Statement

(* A call starts, or is refused, with no lock and nothing inserted.        *)
LEMMA BeginKeeps ==
  ASSUME TypeOK, NEW w \in Worker, NEW r \in Request, WorkerInv(w),
         Begin(w, r) \/ Refuse(w, r)
  PROVE  WorkerInv(w)'
  <1>1. /\ pc[w] = "idle"
        /\ pc'[w] \in {"idle", "lockFirst"}
        /\ outcome'[w] # "ok"
        /\ rowLock' = rowLock
        /\ staged'[w] = staged[w]
        /\ pc'[w] = "lockFirst" => Valid(req'[w])
    BY DEF Begin, Refuse, TypeOK, locks
  <1> QED
    BY <1>1
    DEF WorkerInv, LocksOf, RowsOf, ReadsOf, GuardsOf, StagedOf, BothLocked,
        Checked, Updated, Statement

(* The first row locked is the only one held, and is read as committed.    *)
LEMMA LockFirstKeeps ==
  ASSUME TypeOK, NEW w \in Worker, WorkerInv(w), UnlockedRows, LockFirst(w)
  PROVE  WorkerInv(w)'
  <1>1. CASE FirstRow(w) = NoRow
    BY <1>1, AbortKeeps DEF LockFirst, GetAccountForUpdate, FirstRow
  <1>2. CASE FirstRow(w) # NoRow
    <2>1. /\ pc[w] = "lockFirst"
          /\ Free(w, FirstRow(w))
          /\ rowLock' = [rowLock EXCEPT ![FirstRow(w)] = w]
          /\ seen' = [seen EXCEPT ![w][First(req[w])] = row[FirstRow(w)]]
          /\ pc' = [pc EXCEPT ![w] = "lockSecond"]
          /\ UNCHANGED <<tables, row, staged, req, outcome>>
      BY <1>2 DEF LockFirst, GetAccountForUpdate, FirstRow
    <2>2. FirstRow(w) \in Account /\ First(req[w]) \in AccountId
      BY <1>2, RequestType, LedgerAssumption DEF FirstRow
    <2>3. FirstRow(w)' = FirstRow(w) /\ First(req[w])' = First(req[w])
      BY <2>1 DEF FirstRow, First
    <2>4. rowLock[FirstRow(w)] = None
      BY <2>1, <2>2 DEF Free, WorkerInv, LocksOf
    <2>5. seen'[w][First(req[w])] = row[FirstRow(w)]
      BY <2>1, <2>2 DEF TypeOK
    <2>6. /\ pc'[w] = "lockSecond"
          /\ row' = row /\ balance' = balance /\ req' = req
          /\ staged'[w] = NothingStaged
          /\ outcome' = outcome /\ events' = events
      BY <2>1 DEF TypeOK, WorkerInv, StagedOf, tables
    <2>7. LocksOf(w)'
      BY <1>2, <2>1, <2>2, <2>3, <2>6
      DEF LocksOf, WorkerInv, TypeOK, BothLocked
    <2>8. RowsOf(w)' /\ ReadsOf(w)'
      BY <2>2, <2>3, <2>4, <2>5, <2>6
      DEF RowsOf, ReadsOf, UnlockedRows, BothLocked, Checked, Updated
    <2>9. GuardsOf(w)' /\ StagedOf(w)'
      BY <2>1, <2>6
      DEF GuardsOf, StagedOf, WorkerInv, BothLocked, Checked, Updated, Statement
    <2>10. (outcome[w] = "ok" => AuthorizedEvent(w) \in events)'
      BY <2>6 DEF WorkerInv, AuthorizedEvent, SourceRow, DestinationRow
    <2> QED
      BY <2>7, <2>8, <2>9, <2>10 DEF WorkerInv
  <1> QED
    BY <1>1, <1>2

(* With the second lock the worker holds both rows and has read both.      *)
LEMMA LockSecondKeeps ==
  ASSUME TypeOK, NEW w \in Worker, WorkerInv(w), UnlockedRows, LockSecond(w)
  PROVE  WorkerInv(w)'
  <1> DEFINE second == Second(req[w])
  <1>1. CASE RowOf[second] = NoRow
    BY <1>1, AbortKeeps DEF LockSecond, GetAccountForUpdate
  <1>2. CASE RowOf[second] # NoRow
    <2>1. /\ pc[w] = "lockSecond"
          /\ Free(w, RowOf[second])
          /\ rowLock' = [rowLock EXCEPT ![RowOf[second]] = w]
          /\ seen' = [seen EXCEPT ![w][second] = row[RowOf[second]]]
          /\ pc' = [pc EXCEPT ![w] = "insertTxn"]
          /\ UNCHANGED <<tables, row, staged, req, outcome>>
      BY <1>2 DEF LockSecond, GetAccountForUpdate
    <2>2. /\ RowOf[second] \in Account
          /\ second \in AccountId
          /\ First(req[w]) \in AccountId
          /\ {First(req[w]), second} = {req[w].source, req[w].destination}
          /\ FirstRow(w) \in Account
      BY <1>2, <2>1, RequestType, LedgerAssumption
      DEF WorkerInv, LocksOf, FirstRow
    <2>3. Valid(req[w]) /\ second # First(req[w])
      <3>1. Valid(req[w])
        BY <2>1 DEF WorkerInv, GuardsOf, Statement
      <3> QED
        BY <2>2, <3>1 DEF Valid
    <2>4. row[RowOf[second]] = balance[RowOf[second]]
      <3>1. CASE rowLock[RowOf[second]] = None
        BY <2>2, <3>1 DEF UnlockedRows
      <3>2. CASE rowLock[RowOf[second]] = w
        BY <2>1, <2>2, <3>2 DEF WorkerInv, LocksOf, RowsOf
      <3> QED
        BY <2>1, <3>1, <3>2 DEF Free
    <2>5. /\ seen'[w][second] = balance[RowOf[second]]
          /\ seen'[w][First(req[w])] = balance[FirstRow(w)]
      <3>1. seen[w] \in [AccountId -> Int]
        BY DEF TypeOK
      <3>2. seen'[w] = [seen[w] EXCEPT ![second] = row[RowOf[second]]]
        BY <2>1 DEF TypeOK
      <3> HIDE DEF second
      <3> QED
        BY <2>1, <2>2, <2>3, <2>4, <3>1, <3>2 DEF WorkerInv, ReadsOf
    <2>6. /\ pc'[w] = "insertTxn"
          /\ row' = row /\ balance' = balance /\ req' = req
          /\ staged'[w] = NothingStaged
          /\ outcome' = outcome /\ events' = events
      BY <2>1 DEF TypeOK, WorkerInv, StagedOf, tables
    <2>7. /\ SourceRow(w)' = SourceRow(w)
          /\ DestinationRow(w)' = DestinationRow(w)
          /\ SourceRow(w) \in Account
          /\ DestinationRow(w) \in Account
          /\ {SourceRow(w), DestinationRow(w)} = {FirstRow(w), RowOf[second]}
      BY <2>2, <2>6 DEF SourceRow, DestinationRow, FirstRow
    <2>8. LocksOf(w)'
      <3>1. \A a \in Account :
               rowLock'[a] = w <=> a \in {FirstRow(w), RowOf[second]}
        BY <2>1, <2>2 DEF WorkerInv, LocksOf, TypeOK
      <3> HIDE DEF second
      <3> QED
        BY <2>6, <2>7, <3>1, LedgerAssumption DEF LocksOf
    <2>9. /\ seen'[w][req[w].source] = balance[SourceRow(w)]
          /\ seen'[w][req[w].destination] = balance[DestinationRow(w)]
          /\ row[SourceRow(w)] = balance[SourceRow(w)]
          /\ row[DestinationRow(w)] = balance[DestinationRow(w)]
      <3>1. row[FirstRow(w)] = balance[FirstRow(w)]
        BY <2>1 DEF WorkerInv, RowsOf
      <3> HIDE DEF second
      <3> QED
        BY <2>2, <2>4, <2>5, <3>1 DEF SourceRow, DestinationRow, FirstRow
    <2>10. RowsOf(w)' /\ ReadsOf(w)'
      BY <2>6, <2>7, <2>9 DEF RowsOf, ReadsOf, BothLocked, Checked, Updated
    <2>11. GuardsOf(w)' /\ StagedOf(w)'
      BY <2>3, <2>6 DEF GuardsOf, StagedOf, BothLocked, Checked, Updated
    <2>12. (outcome[w] = "ok" => AuthorizedEvent(w) \in events)'
      BY <2>6 DEF WorkerInv, AuthorizedEvent, SourceRow, DestinationRow
    <2> QED
      BY <2>8, <2>10, <2>11, <2>12 DEF WorkerInv
  <1> QED
    BY <1>1, <1>2

(* The remaining statements change one of: the inserted rows, the row of   *)
(* one account.  The lemma below carries everything else over.             *)
LEMMA SameCall ==
  ASSUME TypeOK, NEW w \in Worker, WorkerInv(w),
         pc[w] \in BothLocked, pc'[w] \in BothLocked,
         UNCHANGED <<balance, events, req, seen, outcome, rowLock>>
  PROVE  /\ LocksOf(w)'
         /\ ReadsOf(w)'
         /\ (outcome[w] = "ok" => AuthorizedEvent(w) \in events)'
         /\ UNCHANGED <<SourceRow(w), DestinationRow(w), NewSourceBalance(w),
                        NewDestinationBalance(w), DebitEntry(w),
                        CreditEntry(w), AuthorizedEvent(w), FundsSuffice(w),
                        CurrenciesAgree(w), Valid(req[w])>>
         /\ Valid(req[w])
         /\ SourceRow(w) \in Account
         /\ DestinationRow(w) \in Account
         /\ CanonicalIds => SourceRow(w) # DestinationRow(w)
  <1>1. UNCHANGED <<SourceRow(w), DestinationRow(w), NewSourceBalance(w),
                    NewDestinationBalance(w), DebitEntry(w),
                    CreditEntry(w), AuthorizedEvent(w), FundsSuffice(w),
                    CurrenciesAgree(w), Valid(req[w])>>
    BY DEF SourceRow, DestinationRow, NewSourceBalance,
       NewDestinationBalance, DebitEntry, CreditEntry, AuthorizedEvent,
       FundsSuffice, CurrenciesAgree, Valid
  <1>2. LocksOf(w)' /\ ReadsOf(w)'
    BY <1>1 DEF WorkerInv, LocksOf, ReadsOf, BothLocked, Statement
  <1>3. (outcome[w] = "ok" => AuthorizedEvent(w) \in events)'
    BY <1>1 DEF WorkerInv
  <1>4. Valid(req[w])
    BY DEF WorkerInv, GuardsOf, BothLocked
  <1>5. SourceRow(w) \in Account /\ DestinationRow(w) \in Account
    BY RequestType DEF WorkerInv, LocksOf
  <1>6. CanonicalIds => SourceRow(w) # DestinationRow(w)
    BY <1>4, <1>5, RequestType, LedgerAssumption
    DEF CanonicalIds, SourceRow, DestinationRow, Valid
  <1> QED
    BY <1>1, <1>2, <1>3, <1>4, <1>5, <1>6

(* The header is inserted only after the funds and currency checks.        *)
LEMMA InsertTxnKeeps ==
  ASSUME TypeOK, NEW w \in Worker, WorkerInv(w), CreateLedgerTransaction(w)
  PROVE  WorkerInv(w)'
  <1>1. CASE Abort(w, "error")
    BY <1>1, AbortKeeps
  <1>2. CASE ~Abort(w, "error")
    <2>1. /\ pc[w] = "insertTxn" /\ pc'[w] = "updateSource"
          /\ FundsSuffice(w) /\ CurrenciesAgree(w)
          /\ staged'[w] = [staged[w] EXCEPT !.txns = @ \cup {req[w].txn}]
          /\ UNCHANGED <<tables, locks, req, seen, outcome>>
      BY <1>2 DEF CreateLedgerTransaction, TypeOK
    <2>2. staged[w] = NothingStaged
      BY <2>1 DEF WorkerInv, StagedOf
    <2>3. /\ staged'[w].txns = {req[w].txn}
          /\ staged'[w].entries = {}
          /\ staged'[w].events = {}
      BY <2>1, <2>2 DEF NothingStaged
    <2>4. UNCHANGED <<balance, row, rowLock, events, req, seen, outcome>>
      BY <2>1 DEF tables, locks
    <2>5. /\ LocksOf(w)'
          /\ ReadsOf(w)'
          /\ (outcome[w] = "ok" => AuthorizedEvent(w) \in events)'
          /\ SourceRow(w)' = SourceRow(w)
          /\ DestinationRow(w)' = DestinationRow(w)
          /\ FundsSuffice(w)' /\ CurrenciesAgree(w)'
          /\ Valid(req[w])'
      BY <2>1, <2>4, SameCall DEF BothLocked, Statement
    <2>6. RowsOf(w)'
      BY <2>1, <2>4, <2>5
      DEF WorkerInv, RowsOf, BothLocked, Checked, Updated, Statement
    <2>7. GuardsOf(w)' /\ StagedOf(w)'
      BY <2>1, <2>3, <2>4, <2>5
      DEF GuardsOf, StagedOf, BothLocked, Checked, Updated, Statement
    <2> QED
      BY <2>5, <2>6, <2>7 DEF WorkerInv
  <1> QED
    BY <1>1, <1>2

(* The source row becomes the balance read minus the amount.               *)
LEMMA UpdateSourceKeeps ==
  ASSUME CanonicalIds, TypeOK, NEW w \in Worker, WorkerInv(w), UpdateSource(w)
  PROVE  WorkerInv(w)'
  <1>1. CASE Abort(w, "error")
    BY <1>1, AbortKeeps
  <1>2. CASE ~Abort(w, "error")
    <2>1. /\ pc[w] = "updateSource" /\ pc'[w] = "updateDestination"
          /\ rowLock' = [rowLock EXCEPT ![SourceRow(w)] = w]
          /\ row' = [row EXCEPT ![SourceRow(w)] = NewSourceBalance(w)]
          /\ UNCHANGED <<tables, staged, req, seen, outcome>>
      BY <1>2 DEF UpdateSource, UpdateAccountBalance, TypeOK
    <2>2. rowLock' = rowLock
      <3>1. SourceRow(w) # NoRow /\ rowLock[SourceRow(w)] = w
        BY <2>1, RequestType DEF WorkerInv, LocksOf, BothLocked, Statement
      <3> QED
        BY <2>1, <3>1 DEF TypeOK
    <2>3. UNCHANGED <<balance, events, req, seen, outcome, rowLock, staged>>
      BY <2>1, <2>2 DEF tables
    <2>4. /\ LocksOf(w)'
          /\ ReadsOf(w)'
          /\ (outcome[w] = "ok" => AuthorizedEvent(w) \in events)'
          /\ UNCHANGED <<SourceRow(w), DestinationRow(w), NewSourceBalance(w),
                         FundsSuffice(w), CurrenciesAgree(w), Valid(req[w])>>
          /\ SourceRow(w) \in Account
          /\ DestinationRow(w) \in Account
          /\ SourceRow(w) # DestinationRow(w)
      BY <2>1, <2>3, SameCall DEF BothLocked, Statement
    <2>5. /\ row'[SourceRow(w)] = NewSourceBalance(w)
          /\ row'[DestinationRow(w)] = row[DestinationRow(w)]
      BY <2>1, <2>4 DEF TypeOK
    <2>6. RowsOf(w)'
      BY <2>1, <2>3, <2>4, <2>5
      DEF WorkerInv, RowsOf, BothLocked, Checked, Updated, Statement
    <2>7. GuardsOf(w)' /\ StagedOf(w)'
      BY <2>1, <2>3, <2>4
      DEF WorkerInv, GuardsOf, StagedOf, BothLocked, Checked, Updated, Statement
    <2> QED
      BY <2>4, <2>6, <2>7 DEF WorkerInv
  <1> QED
    BY <1>1, <1>2

(* The destination row becomes its balance plus the amount.                *)
LEMMA UpdateDestinationKeeps ==
  ASSUME CanonicalIds, TypeOK, NEW w \in Worker, WorkerInv(w),
         UpdateDestination(w)
  PROVE  WorkerInv(w)'
  <1>1. CASE Abort(w, "error")
    BY <1>1, AbortKeeps
  <1>2. CASE ~Abort(w, "error")
    <2>1. /\ pc[w] = "updateDestination" /\ pc'[w] = "insertDebit"
          /\ NewDestinationBalance(w) <= MaxBalance
          /\ rowLock' = [rowLock EXCEPT ![DestinationRow(w)] = w]
          /\ row' = [row EXCEPT ![DestinationRow(w)] = NewDestinationBalance(w)]
          /\ UNCHANGED <<tables, staged, req, seen, outcome>>
      BY <1>2 DEF UpdateDestination, UpdateAccountBalance, TypeOK
    <2>2. rowLock' = rowLock
      <3>1. DestinationRow(w) # NoRow /\ rowLock[DestinationRow(w)] = w
        BY <2>1, RequestType DEF WorkerInv, LocksOf, BothLocked, Statement
      <3> QED
        BY <2>1, <3>1 DEF TypeOK
    <2>3. UNCHANGED <<balance, events, req, seen, outcome, rowLock, staged>>
      BY <2>1, <2>2 DEF tables
    <2>4. /\ LocksOf(w)'
          /\ ReadsOf(w)'
          /\ (outcome[w] = "ok" => AuthorizedEvent(w) \in events)'
          /\ UNCHANGED <<SourceRow(w), DestinationRow(w), NewSourceBalance(w),
                         NewDestinationBalance(w), FundsSuffice(w),
                         CurrenciesAgree(w), Valid(req[w])>>
          /\ SourceRow(w) \in Account
          /\ DestinationRow(w) \in Account
          /\ SourceRow(w) # DestinationRow(w)
      BY <2>1, <2>3, SameCall DEF BothLocked, Statement
    <2>5. /\ row'[SourceRow(w)] = row[SourceRow(w)]
          /\ row'[DestinationRow(w)] = NewDestinationBalance(w)
      BY <2>1, <2>4 DEF TypeOK
    <2>6. RowsOf(w)'
      BY <2>1, <2>3, <2>4, <2>5
      DEF WorkerInv, RowsOf, BothLocked, Checked, Updated, Statement
    <2>7. GuardsOf(w)' /\ StagedOf(w)'
      BY <2>1, <2>3, <2>4
      DEF WorkerInv, GuardsOf, StagedOf, BothLocked, Checked, Updated, Statement
    <2> QED
      BY <2>4, <2>6, <2>7 DEF WorkerInv
  <1> QED
    BY <1>1, <1>2

(* Debit, credit and event are inserted in turn, each exactly once.        *)
LEMMA InsertRowsKeep ==
  ASSUME TypeOK, NEW w \in Worker, WorkerInv(w),
         InsertDebit(w) \/ InsertCredit(w) \/ CreateOutboxEvent(w)
  PROVE  WorkerInv(w)'
  <1>1. /\ pc[w] \in {"insertDebit", "insertCredit", "insertEvent"}
        /\ pc[w] = "insertDebit" =>
              /\ pc'[w] = "insertCredit"
              /\ staged'[w] = [staged[w] EXCEPT !.entries = @ \cup {DebitEntry(w)}]
        /\ pc[w] = "insertCredit" =>
              /\ pc'[w] = "insertEvent"
              /\ staged'[w] = [staged[w] EXCEPT !.entries = @ \cup {CreditEntry(w)}]
        /\ pc[w] = "insertEvent" =>
              /\ pc'[w] = "commit"
              /\ staged'[w] = [staged[w] EXCEPT !.events = @ \cup {AuthorizedEvent(w)}]
        /\ UNCHANGED <<tables, locks, req, seen, outcome>>
    BY DEF InsertDebit, InsertCredit, CreateOutboxEvent, CreateLedgerEntry,
       TypeOK
  <1>2. UNCHANGED <<balance, events, req, seen, outcome, rowLock, row>>
    BY <1>1 DEF tables, locks
  <1>3. pc[w] \in BothLocked /\ pc'[w] \in BothLocked
    BY <1>1 DEF BothLocked, Statement
  <1>4. /\ LocksOf(w)'
        /\ ReadsOf(w)'
        /\ (outcome[w] = "ok" => AuthorizedEvent(w) \in events)'
        /\ UNCHANGED <<SourceRow(w), DestinationRow(w), NewSourceBalance(w),
                       NewDestinationBalance(w), DebitEntry(w),
                       CreditEntry(w), AuthorizedEvent(w), FundsSuffice(w),
                       CurrenciesAgree(w), Valid(req[w])>>
    BY <1>2, <1>3, SameCall
  <1>5. RowsOf(w)' /\ GuardsOf(w)'
    BY <1>1, <1>2, <1>4
    DEF WorkerInv, RowsOf, GuardsOf, BothLocked, Checked, Updated, Statement
  <1>6. /\ pc[w] = "insertDebit" =>
              staged'[w].entries = {DebitEntry(w)} /\ staged'[w].events = {}
        /\ pc[w] = "insertCredit" =>
              /\ staged'[w].entries = {DebitEntry(w), CreditEntry(w)}
              /\ staged'[w].events = {}
        /\ pc[w] = "insertEvent" =>
              /\ staged'[w].entries = {DebitEntry(w), CreditEntry(w)}
              /\ staged'[w].events = {AuthorizedEvent(w)}
        /\ staged'[w].txns = {req[w].txn}
    <2>1. staged[w] \in [txns    : SUBSET TxnId,
                         entries : SUBSET Entry,
                         events  : SUBSET Event]
      BY DEF TypeOK
    <2>2. StagedOf(w)
      BY DEF WorkerInv
    <2> QED
      BY <1>1, <2>1, <2>2 DEF StagedOf, BothLocked, Checked, Statement
  <1>7. StagedOf(w)'
    BY <1>1, <1>2, <1>4, <1>6
    DEF StagedOf, BothLocked, Checked, Updated, Statement
  <1> QED
    BY <1>4, <1>5, <1>7 DEF WorkerInv

(* A transaction that ended holds nothing; if it said ok it is posted.     *)
LEMMA EndKeeps ==
  ASSUME TypeOK, NEW w \in Worker, WorkerInv(w), Commit(w) \/ Rollback(w)
  PROVE  WorkerInv(w)'
  <1>1. /\ pc'[w] = "idle"
        /\ staged'[w] = NothingStaged
        /\ \A a \in Account : rowLock'[a] # w
        /\ req' = req
    BY LedgerAssumption
    DEF Commit, Rollback, EndTransaction, Unlocked, TypeOK
  <1>2. (outcome[w] = "ok" => AuthorizedEvent(w) \in events)'
    <2>1. AuthorizedEvent(w)' = AuthorizedEvent(w)
      BY <1>1 DEF AuthorizedEvent, SourceRow, DestinationRow
    <2>2. CASE Commit(w)
      BY <2>1, <2>2
      DEF Commit, WorkerInv, StagedOf, BothLocked, Checked, Statement
    <2>3. CASE Rollback(w)
      BY <2>1, <2>3 DEF Rollback, WorkerInv, tables
    <2> QED
      BY <2>2, <2>3
  <1> QED
    BY <1>1, <1>2
    DEF WorkerInv, LocksOf, RowsOf, ReadsOf, GuardsOf, StagedOf, BothLocked,
        Checked, Updated, Statement

(* Every step of a worker preserves what holds of its own transaction.     *)
LEMMA OwnKeeps ==
  ASSUME CanonicalIds, TypeOK, NEW w \in Worker, WorkerInv(w), UnlockedRows,
         WorkerStep(w)
  PROVE  WorkerInv(w)'
  <1>1. CASE RejectFunds(w) \/ RejectCurrency(w) \/ Fail(w)
    BY <1>1, AbortKeeps DEF RejectFunds, RejectCurrency, Fail
  <1> QED
    BY <1>1, BeginKeeps, LockFirstKeeps, LockSecondKeeps, InsertTxnKeeps,
       UpdateSourceKeeps, UpdateDestinationKeeps, InsertRowsKeep, EndKeeps
    DEF WorkerStep, Accept, Step

(***************************************************************************)
(* What holds of the tables as a whole.                                    *)
(***************************************************************************)

(* Only Commit changes a committed row.                                    *)
LEMMA OnlyCommitPublishes ==
  ASSUME NEW w \in Worker, WorkerStep(w), ~Commit(w)
  PROVE  UNCHANGED tables
  BY DEF WorkerStep, Accept, Step, Begin, Refuse, LockFirst, LockSecond,
     GetAccountForUpdate, RejectFunds, RejectCurrency, Abort,
     CreateLedgerTransaction, UpdateSource, UpdateDestination,
     UpdateAccountBalance, InsertDebit, InsertCredit, CreateLedgerEntry,
     CreateOutboxEvent, Rollback, Fail

(* A row is given up only when it equals the committed one.                *)
LEMMA UnlockedRowsKept ==
  ASSUME TypeOK, NEW w \in Worker, WorkerInv(w), UnlockedRows, WorkerStep(w)
  PROVE  UnlockedRows'
  <1>1. CASE Commit(w)
    BY <1>1 DEF Commit, EndTransaction, Unlocked, UnlockedRows, TypeOK
  <1>2. CASE Rollback(w)
    BY <1>2 DEF Rollback, EndTransaction, Unlocked, UnlockedRows, TypeOK, tables
  <1>3. CASE UpdateSource(w) \/ UpdateDestination(w)
    <2>1. UNCHANGED balance
      BY <1>3 DEF UpdateSource, UpdateDestination, UpdateAccountBalance,
         Abort, tables
    <2>2. \A a \in Account : rowLock'[a] = None =>
             rowLock[a] = None /\ row'[a] = row[a]
      BY <1>3, LedgerAssumption
      DEF UpdateSource, UpdateDestination, UpdateAccountBalance, Abort,
          TypeOK, locks, Free
    <2> QED
      BY <2>1, <2>2 DEF UnlockedRows
  <1>4. CASE LockFirst(w) \/ LockSecond(w)
    <2>1. UNCHANGED <<balance, row>>
      BY <1>4 DEF LockFirst, LockSecond, GetAccountForUpdate, Abort, tables,
         locks
    <2>2. \A a \in Account : rowLock'[a] = None => rowLock[a] = None
      BY <1>4, LedgerAssumption
      DEF LockFirst, LockSecond, GetAccountForUpdate, Abort, TypeOK, locks
    <2> QED
      BY <2>1, <2>2 DEF UnlockedRows
  <1>5. CASE UNCHANGED <<tables, locks>>
    BY <1>5 DEF UnlockedRows, tables, locks
  <1> QED
    BY <1>1, <1>2, <1>3, <1>4, <1>5
    DEF WorkerStep, Accept, Step, Begin, Refuse, RejectFunds, RejectCurrency,
        Abort, CreateLedgerTransaction, InsertDebit, InsertCredit,
        CreateLedgerEntry, CreateOutboxEvent, Fail

(* The unique key admits one claim to a transaction identifier.            *)
LEMMA ClaimedOnceKept ==
  ASSUME TypeOK, NEW w \in Worker, WorkerInv(w), ClaimedOnce, WorkerStep(w),
         Frame(w)
  PROVE  ClaimedOnce'
  <1>1. \A v \in Worker \ {w} : staged'[v] = staged[v]
    BY DEF Frame
  <1>2. CASE Commit(w)
    <2>1. staged'[w].txns = {} /\ txns' = txns \cup staged[w].txns
      BY <1>2 DEF Commit, EndTransaction, NothingStaged, TypeOK
    <2> QED
      BY <1>1, <2>1 DEF ClaimedOnce
  <1>3. CASE Rollback(w)
    <2>1. staged'[w].txns = {} /\ txns' = txns
      BY <1>3 DEF Rollback, EndTransaction, NothingStaged, TypeOK, tables
    <2> QED
      BY <1>1, <2>1 DEF ClaimedOnce
  <1>4. CASE CreateLedgerTransaction(w) /\ ~Abort(w, "error")
    <2>1. /\ ~TxnClaimed(w)
          /\ req[w].txn \notin txns
          /\ staged'[w].txns = staged[w].txns \cup {req[w].txn}
          /\ txns' = txns
      BY <1>4 DEF CreateLedgerTransaction, TypeOK, tables
    <2> QED
      BY <1>1, <2>1 DEF ClaimedOnce, TxnClaimed
  <1>5. CASE staged'[w].txns = staged[w].txns /\ txns' = txns
    BY <1>1, <1>5 DEF ClaimedOnce
  <1>6. CASE InsertDebit(w) \/ InsertCredit(w) \/ CreateOutboxEvent(w)
    BY <1>5, <1>6
    DEF InsertDebit, InsertCredit, CreateOutboxEvent, CreateLedgerEntry,
        TypeOK, tables
  <1> QED
    BY <1>2, <1>3, <1>4, <1>5, <1>6
    DEF WorkerStep, Accept, Step, Begin, Refuse, LockFirst, LockSecond,
        GetAccountForUpdate, RejectFunds, RejectCurrency, Abort,
        CreateLedgerTransaction, UpdateSource, UpdateDestination,
        UpdateAccountBalance, Fail, tables

(* What a commit publishes.                                                *)
LEMMA CommitEffect ==
  ASSUME CanonicalIds, TypeOK, NEW w \in Worker, WorkerInv(w), Commit(w)
  PROVE  LET e == AuthorizedEvent(w) IN
         /\ e \in Event
         /\ e.source # e.destination
         /\ e.currency = CurrencyOf[e.source]
         /\ e.currency = CurrencyOf[e.destination]
         /\ e.amount <= balance[e.source]
         /\ balance[e.destination] + e.amount <= MaxBalance
         /\ balance' = [balance EXCEPT ![e.source]      = @ - e.amount,
                                       ![e.destination] = @ + e.amount]
         /\ staged[w].txns = {e.txn}
         /\ txns' = txns \cup {e.txn}
         /\ entries' = entries \cup {Debit(e), Credit(e)}
         /\ events' = events \cup {e}
  <1> DEFINE e == AuthorizedEvent(w)
             src == SourceRow(w)
             dst == DestinationRow(w)
             amount == req[w].amount
  <1>1. pc[w] = "commit" /\ pc[w] \in BothLocked
        /\ pc[w] \in Checked /\ pc[w] \in Updated
    BY DEF Commit, BothLocked, Checked, Updated, Statement
  <1>2. Valid(req[w])
    BY <1>1 DEF WorkerInv, GuardsOf, Statement
  <1>3. src \in Account /\ dst \in Account /\ src # dst
    BY <1>1, <1>2, RequestType, LedgerAssumption
    DEF WorkerInv, LocksOf, CanonicalIds, Valid, SourceRow, DestinationRow
  <1>4. e \in Event
    BY <1>2, <1>3, ComputedType, LedgerAssumption
  <1>5. /\ e.txn = req[w].txn /\ e.source = src /\ e.destination = dst
        /\ e.amount = amount /\ e.currency = CurrencyOf[src]
        /\ Debit(e) = DebitEntry(w) /\ Credit(e) = CreditEntry(w)
    BY DEF AuthorizedEvent, Debit, Credit, DebitEntry, CreditEntry
  <1>6. CurrencyOf[src] = CurrencyOf[dst]
    BY <1>1 DEF WorkerInv, GuardsOf, CurrenciesAgree
  <1>7. /\ row[src] = balance[src] - amount
        /\ row[dst] = balance[dst] + amount
        /\ amount <= balance[src]
        /\ balance[dst] + amount <= MaxBalance
    <2>1. /\ seen[w][req[w].source] = balance[src]
          /\ seen[w][req[w].destination] = balance[dst]
      BY <1>1 DEF WorkerInv, ReadsOf
    <2>2. balance[src] \in Int /\ balance[dst] \in Int /\ amount \in Int
      BY <1>3, RequestType DEF TypeOK
    <2>3. /\ row[src] = NewSourceBalance(w)
          /\ row[dst] = NewDestinationBalance(w)
          /\ FundsSuffice(w)
          /\ NewDestinationBalance(w) <= MaxBalance
      BY <1>1 DEF WorkerInv, RowsOf, GuardsOf
    <2> QED
      BY <2>1, <2>2, <2>3
      DEF NewSourceBalance, NewDestinationBalance, FundsSuffice
  <1>8. balance' = [balance EXCEPT ![src] = @ - amount, ![dst] = @ + amount]
    <2>1. \A a \in Account : rowLock[a] = w <=> a \in {src, dst}
      BY <1>1 DEF WorkerInv, LocksOf
    <2>2. balance' = [a \in Account |-> IF rowLock[a] = w THEN row[a]
                                                         ELSE balance[a]]
      BY DEF Commit
    <2>3. balance \in [Account -> Int]
      BY DEF TypeOK
    <2> HIDE DEF src, dst, amount
    <2> QED
      BY <1>3, <1>7, <2>1, <2>2, <2>3
  <1>9. /\ staged[w].txns = {e.txn}
        /\ staged[w].entries = {Debit(e), Credit(e)}
        /\ staged[w].events = {e}
    BY <1>1, <1>5 DEF WorkerInv, StagedOf
  <1>10. /\ txns' = txns \cup {e.txn}
         /\ entries' = entries \cup {Debit(e), Credit(e)}
         /\ events' = events \cup {e}
    BY <1>9 DEF Commit
  <1> HIDE DEF e, src, dst, amount
  <1>11. /\ e.source # e.destination
         /\ e.currency = CurrencyOf[e.source]
         /\ e.currency = CurrencyOf[e.destination]
         /\ e.amount <= balance[e.source]
         /\ balance[e.destination] + e.amount <= MaxBalance
         /\ balance' = [balance EXCEPT ![e.source]      = @ - e.amount,
                                       ![e.destination] = @ + e.amount]
    BY <1>3, <1>5, <1>6, <1>7, <1>8
  <1> QED
    BY <1>4, <1>9, <1>10, <1>11 DEF e

(* A commit moves an amount the source has and the destination can hold.   *)
LEMMA NoOverdraftKept ==
  ASSUME CanonicalIds, TypeOK, NEW w \in Worker, WorkerInv(w), NoOverdraft,
         WorkerStep(w)
  PROVE  NoOverdraft'
  <1>1. CASE ~Commit(w)
    BY <1>1, OnlyCommitPublishes DEF NoOverdraft, tables
  <1>2. CASE Commit(w)
    <2> DEFINE e == AuthorizedEvent(w)
    <2>1. /\ e \in Event
          /\ e.source # e.destination
          /\ e.amount <= balance[e.source]
          /\ balance[e.destination] + e.amount <= MaxBalance
          /\ balance' = [balance EXCEPT ![e.source]      = @ - e.amount,
                                        ![e.destination] = @ + e.amount]
      BY <1>2, CommitEffect
    <2> HIDE DEF e
    <2>2. e.source \in Account /\ e.destination \in Account /\ e.amount \in Nat
      BY <2>1 DEF Event
    <2>3. \A a \in Account : balance[a] \in 0..MaxBalance
      BY DEF NoOverdraft
    <2>4. \A a \in Account : balance'[a] =
             IF a = e.source THEN balance[a] - e.amount
             ELSE IF a = e.destination THEN balance[a] + e.amount
             ELSE balance[a]
      BY <2>1, <2>2 DEF TypeOK
    <2>5. ASSUME NEW a \in Account PROVE balance'[a] \in 0..MaxBalance
      <3>1. /\ balance[a] \in Int /\ MaxBalance \in Int
            /\ 0 <= balance[a] /\ balance[a] <= MaxBalance
            /\ 0 <= e.amount /\ e.amount \in Int
        BY <2>2, <2>3, LedgerAssumption
      <3>2. CASE a = e.source
        <4>1. balance'[a] = balance[a] - e.amount /\ e.amount <= balance[a]
          BY <2>1, <2>4, <3>2
        <4> QED
          BY <3>1, <4>1
      <3>3. CASE a = e.destination
        <4>1. /\ balance'[a] = balance[a] + e.amount
              /\ balance[a] + e.amount <= MaxBalance
          BY <2>1, <2>4, <3>3
        <4> QED
          BY <3>1, <4>1
      <3>4. CASE a # e.source /\ a # e.destination
        BY <2>4, <3>1, <3>4
      <3> QED
        BY <3>2, <3>3, <3>4
    <2> QED
      BY <2>5 DEF NoOverdraft
  <1> QED
    BY <1>1, <1>2

(* A commit adds a header, its two entries and its event together.         *)
LEMMA DoubleEntryKept ==
  ASSUME CanonicalIds, TypeOK, NEW w \in Worker, WorkerInv(w), ClaimedOnce,
         DoubleEntry, WorkerStep(w)
  PROVE  DoubleEntry'
  <1>1. CASE ~Commit(w)
    <2>1. txns' = txns /\ entries' = entries /\ events' = events
      BY <1>1, OnlyCommitPublishes DEF tables
    <2> QED
      BY <2>1 DEF DoubleEntry, Debit, Credit
  <1>2. CASE Commit(w)
    <2> DEFINE e == AuthorizedEvent(w)
    <2>1. /\ e.source # e.destination
          /\ staged[w].txns = {e.txn}
          /\ txns' = txns \cup {e.txn}
          /\ entries' = entries \cup {Debit(e), Credit(e)}
          /\ events' = events \cup {e}
      BY <1>2, CommitEffect
    <2> HIDE DEF e
    <2>2. e.txn \notin txns
      BY <2>1 DEF ClaimedOnce
    <2>3. \A f \in events : f.txn # e.txn
      BY <2>2 DEF DoubleEntry
    <2>4. txns' = {f.txn : f \in events'}
      BY <2>1 DEF DoubleEntry
    <2>5. \A f, g \in events' : f.txn = g.txn => f = g
      BY <2>1, <2>3 DEF DoubleEntry
    <2>6. entries' = {Debit(f) : f \in events'} \cup {Credit(f) : f \in events'}
      <3>1. {Debit(f) : f \in events'} = {Debit(f) : f \in events} \cup {Debit(e)}
        BY <2>1
      <3>2. {Credit(f) : f \in events'} = {Credit(f) : f \in events} \cup {Credit(e)}
        BY <2>1
      <3>3. entries = {Debit(f) : f \in events} \cup {Credit(f) : f \in events}
        BY DEF DoubleEntry
      <3> QED
        BY <2>1, <3>1, <3>2, <3>3
    <2>7. \A f \in events' : f.source # f.destination
      BY <2>1 DEF DoubleEntry
    <2> QED
      BY <2>4, <2>5, <2>6, <2>7 DEF DoubleEntry, Debit, Credit
  <1> QED
    BY <1>1, <1>2

(***************************************************************************)
(* The invariant is inductive.                                             *)
(***************************************************************************)

(* The invariant holds when the service starts.                            *)
LEMMA InitInvariant == Init => IInv
  <1> SUFFICES ASSUME Init PROVE IInv
    OBVIOUS
  <1>1. TypeOK
    BY InitType
  <1>2. \A w \in Worker : WorkerInv(w)
    BY LedgerAssumption
    DEF Init, WorkerInv, LocksOf, RowsOf, ReadsOf, GuardsOf, StagedOf,
        BothLocked, Checked, Updated, Statement
  <1>3. UnlockedRows /\ ClaimedOnce
    BY DEF Init, UnlockedRows, ClaimedOnce, NothingStaged
  <1>4. NoOverdraft
    BY LedgerAssumption DEF Init, NoOverdraft
  <1>5. DoubleEntry
    BY DEF Init, DoubleEntry
  <1> QED
    BY <1>1, <1>2, <1>3, <1>4, <1>5 DEF IInv

(* A step of any worker preserves the invariant.                           *)
LEMMA WorkerStepInvariant ==
  ASSUME CanonicalIds, IInv, NEW w \in Worker, WorkerStep(w)
  PROVE  IInv'
  <1> USE DEF IInv
  <1>1. TypeOK' /\ Frame(w)
    BY StepType, StepFrame
  <1>2. \A v \in Worker : WorkerInv(v)'
    BY <1>1, OwnKeeps, OthersKeep
  <1>3. UnlockedRows' /\ ClaimedOnce' /\ NoOverdraft' /\ DoubleEntry'
    BY <1>1, UnlockedRowsKept, ClaimedOnceKept, NoOverdraftKept,
       DoubleEntryKept
  <1> QED
    BY <1>1, <1>2, <1>3

(* A process stop preserves it: open transactions are left to roll back.   *)
LEMMA CrashInvariant == IInv /\ Crash => IInv'
  <1> SUFFICES ASSUME IInv, Crash PROVE IInv'
    OBVIOUS
  <1>1. \A w \in Worker : \/ pc'[w] = "rollback"
                          \/ pc'[w] = "idle" /\ pc[w] = "idle"
    BY DEF Crash
  <1>2. \A w \in Worker : outcome'[w] = "none"
    BY DEF Crash
  <1>3. UNCHANGED <<balance, txns, entries, events, row, rowLock, staged,
                    req, seen>>
    BY DEF Crash, tables, locks
  <1>4. TypeOK'
    BY <1>1, <1>2, <1>3 DEF Crash, TypeOK, Outcome, IInv
  <1>5. \A w \in Worker : WorkerInv(w)'
    BY <1>1, <1>2, <1>3
    DEF IInv, WorkerInv, LocksOf, RowsOf, ReadsOf, GuardsOf, StagedOf,
        BothLocked, Checked, Updated, Statement
  <1>6. UnlockedRows' /\ ClaimedOnce' /\ NoOverdraft'
    BY <1>1, <1>2, <1>3 DEF UnlockedRows, ClaimedOnce, NoOverdraft, IInv
  <1>7. DoubleEntry'
    BY <1>1, <1>2, <1>3 DEF DoubleEntry, Debit, Credit, IInv
  <1> QED
    BY <1>4, <1>5, <1>6, <1>7 DEF IInv

(* A step that changes nothing preserves it.                               *)
LEMMA StutterInvariant == IInv /\ UNCHANGED vars => IInv'
  BY DEF IInv, vars, TypeOK, WorkerInv, LocksOf, RowsOf, ReadsOf, GuardsOf,
     StagedOf, UnlockedRows, ClaimedOnce, NoOverdraft, DoubleEntry, FirstRow,
     SourceRow, DestinationRow, NewSourceBalance, NewDestinationBalance,
     DebitEntry, CreditEntry, AuthorizedEvent, FundsSuffice, CurrenciesAgree

(* The invariant is inductive.                                             *)
LEMMA NextInvariant ==
  ASSUME CanonicalIds, IInv, [Next]_vars
  PROVE  IInv'
  BY WorkerStepInvariant, CrashInvariant, StutterInvariant
  DEF Next, WorkerStep

(* The inductive invariant holds in every reachable state.                 *)
THEOREM Invariance ==
  ASSUME CanonicalIds
  PROVE  Spec => []IInv
  <1>1. IInv /\ [Next]_vars => IInv'
    BY NextInvariant
  <1> QED
    BY <1>1, InitInvariant, PTL DEF Spec

(* Type correctness of the tables, locks and local variables.              *)
THEOREM TypeCorrect ==
  ASSUME CanonicalIds
  PROVE  Spec => []TypeOK
  <1>1. IInv => TypeOK
    BY DEF IInv
  <1> QED
    BY <1>1, Invariance, PTL

(* Committed balances stay within their column and never become negative,  *)
(* however the statements of concurrent authorizations interleave.         *)
THEOREM NeverOverdrawn ==
  ASSUME CanonicalIds
  PROVE  Spec => []NoOverdraft
  <1>1. IInv => NoOverdraft
    BY DEF IInv
  <1> QED
    BY <1>1, Invariance, PTL

(* Headers, entries and events of committed transactions always agree.     *)
THEOREM AlwaysDoubleEntry ==
  ASSUME CanonicalIds
  PROVE  Spec => []DoubleEntry
  <1>1. IInv => DoubleEntry
    BY DEF IInv
  <1> QED
    BY <1>1, Invariance, PTL

(* No locked read is ever stale when the transaction writes from it.       *)
THEOREM UpdatesNeverLost ==
  ASSUME CanonicalIds
  PROVE  Spec => []NoLostUpdate
  <1>1. IInv => NoLostUpdate
    BY DEF IInv, WorkerInv, ReadsOf, NoLostUpdate
  <1> QED
    BY <1>1, Invariance, PTL

(* An authorization that succeeded is in the ledger, exactly as requested. *)
THEOREM SuccessIsPosted ==
  ASSUME CanonicalIds
  PROVE  Spec => []OkMeansPosted
  <1>1. IInv => OkMeansPosted
    BY DEF IInv, WorkerInv, OkMeansPosted
  <1> QED
    BY <1>1, Invariance, PTL

(***************************************************************************)
(* No circle of waiting transactions.                                      *)
(***************************************************************************)

(* The members of S that rank above w.                                     *)
Above(S, rank, w) == {v \in S : rank[v] > rank[w]}

(* A finite set of workers that each wait for a worker of a higher rank is *)
(* empty.                                                                  *)
LEMMA NoEndlessAscent ==
  ASSUME NEW S, IsFiniteSet(S), NEW rank \in [S -> Nat],
         \A w \in S : \E v \in S : rank[v] > rank[w]
  PROVE  S = {}
  <1> SUFFICES ASSUME S # {} PROVE FALSE
    OBVIOUS
  <1> DEFINE Aboves == {Above(S, rank, w) : w \in S}
  <1>1. Aboves \subseteq FiniteSubsetsOf(S) /\ Aboves # {}
    <2>1. \A w \in S : Above(S, rank, w) \in SUBSET S
      BY DEF Above
    <2>2. \A w \in S : IsFiniteSet(Above(S, rank, w))
      BY <2>1, FS_Subset
    <2> QED
      BY <2>1, <2>2 DEF FiniteSubsetsOf
  <1>2. PICK A \in Aboves : \A B \in Aboves : ~ (<<B, A>> \in StrictSubsetOrdering(S))
    <2> HIDE DEF Aboves
    <2>1. IsWellFoundedOn(StrictSubsetOrdering(S), FiniteSubsetsOf(S))
      BY FS_StrictSubsetOrderingWellFounded
    <2> QED
      BY <1>1, <2>1, WFMin
  <1>3. PICK w \in S : A = Above(S, rank, w)
    BY <1>2
  <1>4. PICK v \in S : rank[v] > rank[w]
    OBVIOUS
  <1>5. Above(S, rank, v) \in Aboves /\ A \subseteq S /\ Above(S, rank, v) \subseteq S
    BY <1>3 DEF Above
  <1>6. Above(S, rank, v) \subseteq A /\ Above(S, rank, v) # A
    <2>1. v \in A /\ v \notin Above(S, rank, v)
      BY <1>3, <1>4 DEF Above
    <2>2. \A x \in S : rank[x] > rank[v] => rank[x] > rank[w]
      BY <1>4
    <2> QED
      BY <1>3, <2>1, <2>2 DEF Above
  <1>7. <<Above(S, rank, v), A>> \in StrictSubsetOrdering(S)
    BY <1>5, <1>6 DEF StrictSubsetOrdering
  <1> QED
    BY <1>2, <1>5, <1>7

(* A worker that has inserted rows waits for nobody.                       *)
LEMMA InsertersDoNotWait ==
  ASSUME IInv, NEW w \in Worker, NEW v \in Worker, staged[w].txns # {}
  PROVE  ~Waits(w, v)
  <1>1. pc[w] \in Checked \cup {"rollback"}
    BY DEF IInv, WorkerInv, StagedOf, TypeOK, NothingStaged, Checked, BothLocked, Statement
  <1>2. pc[w] # "insertTxn" /\ pc[w] # "lockFirst" /\ pc[w] # "lockSecond"
    BY <1>1 DEF Checked, BothLocked, Statement
  <1>3. CASE pc[w] \in {"updateSource", "updateDestination"}
    <2>1. pc[w] \in BothLocked /\ SourceRow(w) \in Account /\ DestinationRow(w) \in Account
      <3>1. pc[w] \in BothLocked
        BY <1>3 DEF BothLocked, Statement
      <3> QED
        BY <3>1, RequestType DEF IInv, WorkerInv, LocksOf
    <2>2. RowWanted(w) \in {SourceRow(w), DestinationRow(w)}
      BY <1>3 DEF RowWanted
    <2>3. rowLock[RowWanted(w)] = w
      BY <2>1, <2>2 DEF IInv, WorkerInv, LocksOf
    <2> QED
      BY <1>2, <2>3 DEF Waits
  <1>4. CASE pc[w] \notin {"updateSource", "updateDestination"}
    <2>1. RowWanted(w) = NoRow
      BY <1>2, <1>4 DEF RowWanted
    <2> QED
      BY <1>2, <2>1 DEF Waits
  <1> QED
    BY <1>3, <1>4

(* A worker that waits waits at a lock, or for one that has inserted rows. *)
LEMMA WhereWorkersWait ==
  ASSUME IInv, NEW w \in Worker, NEW v \in Worker, Waits(w, v)
  PROVE  \/ staged[v].txns # {}
         \/ pc[w] = "lockFirst" /\ RowOf[First(req[w])] # NoRow /\ rowLock[RowOf[First(req[w])]] = v
         \/ pc[w] = "lockSecond" /\ RowOf[Second(req[w])] # NoRow /\ rowLock[RowOf[Second(req[w])]] = v
  <1>1. CASE pc[w] \in {"lockFirst", "lockSecond"}
    BY <1>1 DEF Waits, RowWanted
  <1>2. CASE pc[w] = "insertTxn"
    <2>1. RowWanted(w) = NoRow
      BY <1>2 DEF RowWanted
    <2> QED
      BY <2>1 DEF Waits
  <1>3. CASE pc[w] \in {"updateSource", "updateDestination"}
    <2>1. staged[w].txns = {req[w].txn}
      BY <1>3 DEF IInv, WorkerInv, StagedOf, Checked, BothLocked, Statement
    <2> QED
      BY <2>1, InsertersDoNotWait
  <1>4. CASE pc[w] \notin {"lockFirst", "lockSecond", "insertTxn", "updateSource", "updateDestination"}
    <2>1. RowWanted(w) = NoRow
      BY <1>4 DEF RowWanted
    <2> QED
      BY <1>4, <2>1 DEF Waits
  <1> QED
    BY <1>1, <1>2, <1>3, <1>4

(* Whoever waits for a worker that waits has the lower rank.               *)
LEMMA WaitersClimb ==
  ASSUME CanonicalIds, IInv, NEW w \in Worker, NEW v \in Worker, Waits(w, v),
         NEW u \in Worker, Waits(v, u)
  PROVE  /\ staged[u].txns = {} => pc[v] = "lockSecond"
         /\ pc[w] = "lockSecond" /\ pc[v] = "lockSecond" =>
                LexRank[First(req[v])] > LexRank[First(req[w])]
  <1>1. staged[w].txns = {} /\ staged[v].txns = {}
    BY InsertersDoNotWait
  <1> DEFINE i == IF pc[w] = "lockFirst" THEN First(req[w]) ELSE Second(req[w])
  <1>2. /\ pc[w] \in {"lockFirst", "lockSecond"}
        /\ RowOf[i] # NoRow /\ rowLock[RowOf[i]] = v
    BY <1>1, WhereWorkersWait
  <1>3. /\ First(req[w]) \in AccountId /\ Second(req[w]) \in AccountId
        /\ First(req[v]) \in AccountId
    BY RequestType DEF IInv
  <1>4. RowOf[i] \in Account
    BY <1>2, <1>3, LedgerAssumption
  <1>5. pc[v] # "lockFirst"
    BY <1>2, <1>4 DEF IInv, WorkerInv, LocksOf
  <1>6. staged[u].txns = {} => pc[v] = "lockSecond"
    BY <1>5, WhereWorkersWait
  <1>7. ASSUME pc[w] = "lockSecond", pc[v] = "lockSecond"
        PROVE  LexRank[First(req[v])] > LexRank[First(req[w])]
    <2>1. FirstRow(v) = RowOf[i]
      BY <1>2, <1>4, <1>7 DEF IInv, WorkerInv, LocksOf
    <2>2. First(req[v]) = Second(req[w])
      BY <1>2, <1>3, <1>7, <2>1 DEF FirstRow, CanonicalIds
    <2>3. LexRank[Second(req[w])] > LexRank[First(req[w])]
      <3>1. req[w].source # req[w].destination
        BY <1>7 DEF IInv, WorkerInv, GuardsOf, Valid, Statement
      <3>2. /\ LexRank[req[w].source] \in Nat /\ LexRank[req[w].destination] \in Nat
            /\ LexRank[req[w].source] # LexRank[req[w].destination]
        BY <3>1, RequestType, LedgerAssumption DEF IInv
      <3> QED
        BY <3>2 DEF First, Second
    <2> QED
      BY <2>2, <2>3
  <1> QED
    BY <1>6, <1>7

(* Among workers that all wait for each other, those at their second lock  *)
(* would climb the lexical order without end.                              *)
LEMMA NoCircle ==
  ASSUME CanonicalIds, IsFiniteSet(Worker), IInv
  PROVE  NoCircularWait
  <1> SUFFICES ASSUME ~NoCircularWait
               PROVE  FALSE
    OBVIOUS
  <1>a. PICK S \in (SUBSET Worker) \ {{}} : ~ \E w \in S : \A v \in S : ~Waits(w, v)
    BY Zenon DEF NoCircularWait
  <1>b. S \subseteq Worker /\ S # {} /\ \A w \in S : \E v \in S : Waits(w, v)
    BY <1>a
  <1>1. \A w \in S : staged[w].txns = {}
    BY <1>b, InsertersDoNotWait
  <1> DEFINE L == {w \in S : pc[w] = "lockSecond"}
             rank == [w \in L |-> LexRank[First(req[w])]]
  <1>2. IsFiniteSet(L)
    BY <1>b, FS_Subset
  <1>3. \A w, v \in S : Waits(w, v) => v \in L
    BY <1>b, <1>1, WaitersClimb
  <1>4. L # {}
    BY <1>b, <1>3
  <1>5. rank \in [L -> Nat]
    BY <1>b, RequestType, LedgerAssumption DEF IInv
  <1>6. \A w \in L : \E v \in L : rank[v] > rank[w]
    BY <1>b, <1>3, WaitersClimb
  <1> HIDE DEF L, rank
  <1> QED
    BY <1>2, <1>4, <1>5, <1>6, NoEndlessAscent

(* "Every authorization locks accounts in lexical order" (issuing_usecase. *)
(* go:97): as long as no account has two spellings, no number of transfers *)
(* between any accounts can wait for each other in a circle.               *)
THEOREM NeverWaitInACircle ==
  ASSUME CanonicalIds, IsFiniteSet(Worker)
  PROVE  Spec => []NoCircularWait
  <1>1. IInv => NoCircularWait
    BY NoCircle
  <1> QED
    BY <1>1, Invariance, PTL

(***************************************************************************)
(* The balances and the ledger.  MapThenSumSet is a recursive function on  *)
(* the subsets of its argument; what it computes is shown from the least   *)
(* subset for which it would be something else.                            *)
(***************************************************************************)

AnyOf(s) == CHOOSE x \in s : TRUE

(* The recursive function that EntrySum takes its value from.              *)
IsSum(g, S) ==
    g = [s \in SUBSET S |-> IF s = {} THEN 0 ELSE AnyOf(s).amount + g[s \ {AnyOf(s)}]]

(* A set of subsets of a finite set has an element none of whose proper    *)
(* subsets belong to it.                                                   *)
LEMMA SmallestOf ==
  ASSUME NEW S, IsFiniteSet(S), NEW B \in SUBSET SUBSET S, B # {}
  PROVE  \E s \in B : \A t \in SUBSET s : t # s => t \notin B
  <1>1. IsWellFoundedOn(StrictSubsetOrdering(S), FiniteSubsetsOf(S))
    BY FS_StrictSubsetOrderingWellFounded
  <1>2. B \subseteq FiniteSubsetsOf(S)
    BY FS_FiniteSubsetsOfFinite
  <1>3. PICK s \in B : \A t \in B : ~ (<<t, s>> \in StrictSubsetOrdering(S))
    BY <1>1, <1>2, WFMin
  <1> QED
    BY <1>3 DEF StrictSubsetOrdering

(* Two such functions agree on the subsets both are defined on.            *)
LEMMA SumsAgree ==
  ASSUME NEW S, IsFiniteSet(S), NEW R \in SUBSET S, NEW g, NEW h, IsSum(g, S), IsSum(h, R)
  PROVE  g[R] = h[R]
  <1> DEFINE B == {s \in SUBSET R : g[s] # h[s]}
  <1> SUFFICES ASSUME B # {} PROVE FALSE
    OBVIOUS
  <1>0. IsFiniteSet(R)
    BY FS_Subset
  <1>1. PICK s \in B : \A t \in SUBSET s : t # s => t \notin B
    <2>1. B \in SUBSET SUBSET R
      OBVIOUS
    <2> HIDE DEF B
    <2> QED
      BY <1>0, <2>1, SmallestOf
  <1> DEFINE x == AnyOf(s)
  <1>2. s \in SUBSET R /\ s \in SUBSET S
    BY <1>1
  <1>3. /\ g[s] = IF s = {} THEN 0 ELSE x.amount + g[s \ {x}]
        /\ h[s] = IF s = {} THEN 0 ELSE x.amount + h[s \ {x}]
    BY <1>2 DEF IsSum
  <1>4. s # {} /\ x \in s
    BY <1>1, <1>3 DEF AnyOf
  <1>5. g[s \ {x}] = h[s \ {x}]
    BY <1>1, <1>2, <1>4
  <1> QED
    BY <1>1, <1>3, <1>4, <1>5

(* There is one for every finite set.                                      *)
LEMMA SumExists ==
  ASSUME NEW S, IsFiniteSet(S)
  PROVE  \E g : IsSum(g, S)
  <1> DEFINE B == {s \in SUBSET S : ~ \E g : IsSum(g, s)}
  <1> SUFFICES ASSUME B # {} PROVE FALSE
    OBVIOUS
  <1>1. PICK s \in B : \A t \in SUBSET s : t # s => t \notin B
    <2>1. B \in SUBSET SUBSET S
      OBVIOUS
    <2> HIDE DEF B
    <2> QED
      BY <2>1, SmallestOf
  <1> DEFINE F(t) == CHOOSE g : IsSum(g, t)
             x == AnyOf(s)
             V(t) == IF t = s
                     THEN IF s = {} THEN 0 ELSE x.amount + F(s \ {x})[s \ {x}]
                     ELSE F(t)[t]
             G == [t \in SUBSET s |-> V(t)]
  <1>2. s \subseteq S /\ IsFiniteSet(s)
    BY <1>1, FS_Subset
  <1>3. \A t \in SUBSET s : t # s => IsSum(F(t), t)
    BY <1>1, <1>2
  <1> HIDE DEF F
  <1>4. ASSUME NEW t \in SUBSET s
        PROVE  G[t] = IF t = {} THEN 0 ELSE AnyOf(t).amount + G[t \ {AnyOf(t)}]
    <2>1. CASE t = {}
      <3>1. CASE t = s
        BY <2>1, <3>1
      <3>2. CASE t # s
        BY <1>3, <2>1, <3>2 DEF IsSum
      <3> QED
        BY <3>1, <3>2
    <2>2. CASE t # {}
      <3> DEFINE y == AnyOf(t)
                 u == t \ {y}
      <3>1. y \in t /\ u \in SUBSET s /\ u \in SUBSET t /\ u # t /\ u # s
        BY <2>2 DEF AnyOf
      <3>2. G[u] = F(u)[u]
        BY <3>1
      <3>3. CASE t = s
        BY <2>2, <3>1, <3>2, <3>3
      <3>4. CASE t # s
        <4>1. IsSum(F(t), t) /\ IsSum(F(u), u) /\ IsFiniteSet(t)
          BY <1>2, <1>3, <3>1, <3>4, FS_Subset
        <4>2. F(t)[u] = F(u)[u]
          BY <3>1, <4>1, SumsAgree
        <4>3. F(t)[t] = y.amount + F(t)[u]
          BY <2>2, <4>1 DEF IsSum
        <4> QED
          BY <2>2, <3>2, <3>4, <4>2, <4>3
      <3> QED
        BY <3>3, <3>4
    <2> QED
      BY <2>1, <2>2
  <1> HIDE DEF V
  <1>5. IsSum(G, s)
    <2> DEFINE R(t) == IF t = {} THEN 0 ELSE AnyOf(t).amount + G[t \ {AnyOf(t)}]
    <2>1. \A t \in SUBSET s : V(t) = R(t)
      BY <1>4
    <2>2. G = [t \in SUBSET s |-> R(t)]
      <3> HIDE DEF R
      <3> QED BY <2>1
    <2> HIDE DEF G
    <2> QED
      BY <2>2 DEF IsSum
  <1> QED
    BY <1>1, <1>5

(* EntrySum is such a function's value.                                    *)
LEMMA EntrySumIs ==
  ASSUME NEW S, IsFiniteSet(S)
  PROVE  \E g : IsSum(g, S) /\ EntrySum(S) = g[S]
  <1> DEFINE g == CHOOSE f : IsSum(f, S)
  <1>1. IsSum(g, S)
    BY SumExists
  <1>2. EntrySum(S) = g[S]
    BY Zenon DEF EntrySum, MapThenSumSet, MapThenFoldSet, IsSum, AnyOf
  <1> QED
    BY <1>1, <1>2

(* The empty set has sum zero; otherwise some element comes off.           *)
LEMMA EntrySumStep ==
  ASSUME NEW S, IsFiniteSet(S)
  PROVE  EntrySum(S) = IF S = {} THEN 0
                       ELSE AnyOf(S).amount + EntrySum(S \ {AnyOf(S)})
  <1> DEFINE R == S \ {AnyOf(S)}
  <1>1. PICK g : IsSum(g, S) /\ EntrySum(S) = g[S]
    BY EntrySumIs
  <1>2. R \in SUBSET S /\ IsFiniteSet(R)
    BY FS_Subset
  <1>3. PICK h : IsSum(h, R) /\ EntrySum(R) = h[R]
    BY <1>2, EntrySumIs
  <1>4. g[R] = h[R]
    BY <1>1, <1>2, <1>3, SumsAgree
  <1>5. g[S] = IF S = {} THEN 0 ELSE AnyOf(S).amount + g[R]
    BY <1>1 DEF IsSum
  <1> QED
    BY <1>1, <1>3, <1>4, <1>5

(* Integers add up to an integer.                                          *)
LEMMA EntrySumType ==
  ASSUME NEW S, IsFiniteSet(S), \A e \in S : e.amount \in Int
  PROVE  EntrySum(S) \in Int
  <1> DEFINE B == {s \in SUBSET S : EntrySum(s) \notin Int}
  <1> SUFFICES ASSUME B # {} PROVE FALSE
    OBVIOUS
  <1>1. PICK s \in B : \A t \in SUBSET s : t # s => t \notin B
    <2>1. B \in SUBSET SUBSET S
      OBVIOUS
    <2> HIDE DEF B
    <2> QED
      BY <2>1, SmallestOf
  <1> DEFINE x == AnyOf(s)
  <1>2. s \subseteq S /\ IsFiniteSet(s)
    BY <1>1, FS_Subset
  <1>3. EntrySum(s) = IF s = {} THEN 0 ELSE x.amount + EntrySum(s \ {x})
    BY <1>2, EntrySumStep
  <1>4. s # {} /\ x \in s
    BY <1>1, <1>3 DEF AnyOf
  <1>5. EntrySum(s \ {x}) \in Int
    BY <1>1, <1>2, <1>4
  <1> QED
    BY <1>1, <1>2, <1>3, <1>4, <1>5

(* Whichever element is taken out, the sum is its amount and the rest.     *)
LEMMA EntrySumRemove ==
  ASSUME NEW S, IsFiniteSet(S), \A e \in S : e.amount \in Int, NEW x \in S
  PROVE  EntrySum(S) = x.amount + EntrySum(S \ {x})
  <1> DEFINE Off(s) == \A y \in s : EntrySum(s) = y.amount + EntrySum(s \ {y})
             B == {s \in SUBSET S : ~Off(s)}
  <1> SUFFICES ASSUME B # {} PROVE FALSE
    OBVIOUS
  <1>1. PICK s \in B : \A t \in SUBSET s : t # s => t \notin B
    <2>1. B \in SUBSET SUBSET S
      OBVIOUS
    <2> HIDE DEF B
    <2> QED
      BY <2>1, SmallestOf
  <1>2. s \subseteq S /\ IsFiniteSet(s)
    BY <1>1, FS_Subset
  <1>3. PICK y \in s : EntrySum(s) # y.amount + EntrySum(s \ {y})
    BY <1>1
  <1> DEFINE p == AnyOf(s)
             u == (s \ {p}) \ {y}
  <1>4. p \in s /\ EntrySum(s) = p.amount + EntrySum(s \ {p})
    BY <1>2, EntrySumStep DEF AnyOf
  <1>5. p # y
    BY <1>3, <1>4
  <1>6. Off(s \ {p}) /\ Off(s \ {y})
    BY <1>1, <1>2, <1>4
  <1>7. /\ EntrySum(s \ {p}) = y.amount + EntrySum((s \ {p}) \ {y})
        /\ EntrySum(s \ {y}) = p.amount + EntrySum((s \ {y}) \ {p})
    BY <1>4, <1>5, <1>6
  <1>8. (s \ {y}) \ {p} = u
    OBVIOUS
  <1>9. EntrySum(u) \in Int /\ p.amount \in Int /\ y.amount \in Int
    BY <1>2, <1>4, FS_Subset, EntrySumType
  <1>10. \A a, b, c \in Int : a + (b + c) = b + (a + c)
    OBVIOUS
  <1>11. EntrySum(s) = p.amount + (y.amount + EntrySum(u))
    BY Zenon, <1>4, <1>7
  <1>12. y.amount + EntrySum(s \ {y}) = y.amount + (p.amount + EntrySum(u))
    BY Zenon, <1>7, <1>8
  <1> QED
    BY Zenon, <1>3, <1>9, <1>10, <1>11, <1>12

(* The entries are finitely many, and the balances are their sums.         *)
BooksAgree == IsFiniteSet(entries) /\ BalanceIsLedgerSum

(* At first there are none.                                                *)
LEMMA InitBooks == Init => BooksAgree
  <1> SUFFICES ASSUME Init PROVE BooksAgree
    OBVIOUS
  <1>1. IsFiniteSet(entries) /\ \A a \in Account : EntriesOf(a) = {}
    <2>1. entries = {}
      BY DEF Init
    <2> QED
      BY <2>1, FS_EmptySet DEF EntriesOf
  <1>2. EntrySum({}) = 0
    BY FS_EmptySet, EntrySumStep
  <1>3. \A a \in Account : InitBalance[a] \in Int
    BY LedgerAssumption
  <1>4. \A a \in Account : balance[a] = InitBalance[a] + EntrySum(EntriesOf(a))
    <2>1. balance = InitBalance
      BY DEF Init
    <2>2. \A a \in Account : EntrySum(EntriesOf(a)) = 0
      BY Zenon, <1>1, <1>2
    <2>3. \A a \in Account : InitBalance[a] = InitBalance[a] + 0
      BY <1>3
    <2> QED
      BY Zenon, <2>1, <2>2, <2>3
  <1> QED
    BY <1>1, <1>4 DEF BooksAgree, BalanceIsLedgerSum

(* A commit posts the difference it makes to the two balances: entries     *)
(* that were not there before, one to each account.                        *)
LEMMA CommitBooks ==
  ASSUME CanonicalIds, IInv, BooksAgree, NEW w \in Worker, Commit(w)
  PROVE  BooksAgree'
  <1> DEFINE e == AuthorizedEvent(w)
             d == Debit(e)
             c == Credit(e)
  <1>1. /\ e \in Event
        /\ e.source # e.destination
        /\ balance' = [balance EXCEPT ![e.source]      = @ - e.amount,
                                      ![e.destination] = @ + e.amount]
        /\ staged[w].txns = {e.txn}
        /\ entries' = entries \cup {d, c}
    BY CommitEffect DEF IInv
  <1> HIDE DEF e
  <1>2. /\ d.account = e.source /\ d.amount = -e.amount /\ d.txn = e.txn
        /\ c.account = e.destination /\ c.amount = e.amount /\ c.txn = e.txn
        /\ e.source \in Account /\ e.destination \in Account /\ e.amount \in Int
    BY <1>1 DEF Debit, Credit, Event
  <1> HIDE DEF d, c
  <1>3. d \notin entries /\ c \notin entries
    <2>1. e.txn \notin txns
      BY <1>1 DEF IInv, ClaimedOnce
    <2>2. \A x \in entries : x.txn \in txns
      BY DEF IInv, DoubleEntry, Debit, Credit
    <2> QED
      BY <1>2, <2>1, <2>2
  <1>4. IsFiniteSet(entries')
    <2>1. IsFiniteSet(entries \cup {d})
      BY FS_AddElement DEF BooksAgree
    <2>2. IsFiniteSet((entries \cup {d}) \cup {c})
      BY <2>1, FS_AddElement
    <2>3. entries' = (entries \cup {d}) \cup {c}
      BY <1>1
    <2> QED
      BY <2>2, <2>3
  <1>5. \A a \in Account : EntriesOf(a)' =
            IF a = e.source THEN EntriesOf(a) \cup {d}
            ELSE IF a = e.destination THEN EntriesOf(a) \cup {c} ELSE EntriesOf(a)
    BY <1>1, <1>2 DEF EntriesOf
  <1>6. ASSUME NEW a \in Account, NEW x \in entries', x \notin entries, x.amount \in Int,
               EntriesOf(a)' = EntriesOf(a) \cup {x}
        PROVE  EntrySum(EntriesOf(a)') = x.amount + EntrySum(EntriesOf(a))
    <2>1. IsFiniteSet(EntriesOf(a)')
      BY <1>4, FS_Subset DEF EntriesOf
    <2>2. \A y \in EntriesOf(a)' : y.amount \in Int
      BY <1>6 DEF EntriesOf, IInv, TypeOK, Entry
    <2>3. x \in EntriesOf(a)' /\ EntriesOf(a)' \ {x} = EntriesOf(a)
      BY <1>6 DEF EntriesOf
    <2> QED
      BY <2>1, <2>2, <2>3, EntrySumRemove
  <1>7. ASSUME NEW a \in Account
        PROVE  balance'[a] = InitBalance[a] + EntrySum(EntriesOf(a)')
    <2>1. balance[a] = InitBalance[a] + EntrySum(EntriesOf(a))
      BY DEF BooksAgree, BalanceIsLedgerSum
    <2>2. EntrySum(EntriesOf(a)) \in Int /\ InitBalance[a] \in Int /\ balance \in [Account -> Int]
      <3>1. IsFiniteSet(EntriesOf(a))
        BY FS_Subset DEF BooksAgree, EntriesOf
      <3>2. \A y \in EntriesOf(a) : y.amount \in Int
        BY DEF EntriesOf, IInv, TypeOK, Entry
      <3> QED
        BY <3>1, <3>2, EntrySumType, LedgerAssumption DEF IInv, TypeOK
    <2>3. CASE a = e.source
      <3>1. EntrySum(EntriesOf(a)') = d.amount + EntrySum(EntriesOf(a))
        BY <1>1, <1>2, <1>3, <1>5, <1>6, <2>3
      <3>2. balance'[a] = balance[a] - e.amount
        BY <1>1, <1>2, <2>2, <2>3
      <3> QED
        BY <1>2, <2>1, <2>2, <3>1, <3>2
    <2>4. CASE a = e.destination
      <3>1. EntrySum(EntriesOf(a)') = c.amount + EntrySum(EntriesOf(a))
        BY <1>1, <1>2, <1>3, <1>5, <1>6, <2>4
      <3>2. balance'[a] = balance[a] + e.amount
        BY <1>1, <1>2, <2>2, <2>4
      <3> QED
        BY <1>2, <2>1, <2>2, <3>1, <3>2
    <2>5. CASE a \notin {e.source, e.destination}
      <3>1. EntriesOf(a)' = EntriesOf(a)
        BY <1>5, <2>5
      <3>2. balance'[a] = balance[a]
        BY <1>1, <2>2, <2>5
      <3> QED
        BY <2>1, <3>1, <3>2
    <2> QED
      BY <2>3, <2>4, <2>5
  <1> QED
    BY <1>4, <1>7 DEF BooksAgree, BalanceIsLedgerSum

(* No other step touches a balance or an entry.                            *)
LEMMA NextBooks ==
  ASSUME CanonicalIds, IInv, BooksAgree, [Next]_vars
  PROVE  BooksAgree'
  <1>1. ASSUME UNCHANGED <<balance, entries>>
        PROVE  BooksAgree'
    BY <1>1 DEF BooksAgree, BalanceIsLedgerSum, EntriesOf
  <1>2. ASSUME NEW w \in Worker, WorkerStep(w), ~Commit(w)
        PROVE  UNCHANGED <<balance, entries>>
    BY <1>2, OnlyCommitPublishes DEF tables, IInv
  <1>3. CASE Crash
    BY <1>1, <1>3 DEF Crash, tables
  <1>4. CASE UNCHANGED vars
    BY <1>1, <1>4 DEF vars
  <1> QED
    BY <1>1, <1>2, <1>3, <1>4, CommitBooks DEF Next, WorkerStep

(* The balance column never drifts from the ledger, however many transfers *)
(* were posted, interleaved, failed or were cut off by a crash: each       *)
(* balance is what the account had and the sum of its entries.             *)
THEOREM BalancesFollowTheLedger ==
  ASSUME CanonicalIds
  PROVE  Spec => []BalanceIsLedgerSum
  <1>1. IInv /\ BooksAgree /\ [Next]_vars => BooksAgree'
    BY NextBooks
  <1>2. Spec => []IInv
    BY Invariance
  <1>3. BooksAgree => BalanceIsLedgerSum
    BY DEF BooksAgree
  <1> QED
    BY <1>1, <1>2, <1>3, InitBooks, PTL DEF Spec

(***************************************************************************)
(* Refinement: the abstract ledger of module Transfers.                    *)
(***************************************************************************)

(* The tables of a fresh ledger are those of the abstract one.             *)
LEMMA InitRefines == Init => T!Init
  BY DEF Init, T!Init

(* A commit is the abstract transfer; every other step is a stutter.       *)
LEMMA NextRefines ==
  ASSUME CanonicalIds, IInv, [Next]_vars
  PROVE  [T!Next]_(T!vars)
  <1> USE DEF T!vars
  <1>1. ASSUME NEW w \in Worker, Commit(w)
        PROVE  T!Next
    <2> DEFINE e == AuthorizedEvent(w)
    <2>1. /\ e \in Event
          /\ e.source # e.destination
          /\ e.currency = CurrencyOf[e.source]
          /\ e.currency = CurrencyOf[e.destination]
          /\ e.amount <= balance[e.source]
          /\ balance[e.destination] + e.amount <= MaxBalance
          /\ balance' = [balance EXCEPT ![e.source]      = @ - e.amount,
                                        ![e.destination] = @ + e.amount]
          /\ staged[w].txns = {e.txn}
          /\ events' = events \cup {e}
      BY <1>1, CommitEffect DEF IInv
    <2>2. e.amount \in {r.amount : r \in Request} \cap Nat
      BY <2>1, RequestType DEF IInv, AuthorizedEvent, Event
    <2> HIDE DEF e
    <2>3. \A p \in events : p.txn # e.txn
      BY <2>1 DEF IInv, ClaimedOnce, DoubleEntry
    <2>4. e \in T!Transfer
      BY <2>1, <2>2 DEF Event, T!Transfer
    <2>5. T!Post(e)
      BY <2>1, <2>3 DEF T!Post
    <2> QED
      BY <2>4, <2>5 DEF T!Next
  <1>2. ASSUME NEW w \in Worker, WorkerStep(w), ~Commit(w)
        PROVE  UNCHANGED <<balance, events>>
    BY <1>2, OnlyCommitPublishes DEF tables, IInv
  <1>3. CASE Crash
    BY <1>3 DEF Crash, tables
  <1>4. CASE UNCHANGED vars
    BY <1>4 DEF vars
  <1> QED
    BY <1>1, <1>2, <1>3, <1>4 DEF Next, WorkerStep

(* The statements of concurrent workers, their failures and the crashes of *)
(* the process implement atomic transfers: each commit is one step of the  *)
(* abstract ledger, and nothing else is visible in balances or outbox.     *)
THEOREM LedgerImplementsTransfers ==
  ASSUME CanonicalIds
  PROVE  Spec => ImplementsTransfers
  <1>1. IInv /\ [Next]_vars => [T!Next]_(T!vars)
    BY NextRefines
  <1>2. Spec => []IInv
    BY Invariance
  <1> QED
    BY <1>1, <1>2, InitRefines, PTL DEF Spec, ImplementsTransfers, T!Spec
===============================================================================
