-------------------------------- MODULE Ledger --------------------------------
(***************************************************************************)
(* The issuing ledger: AuthorizePayment (usecase/issuing_usecase.go) run   *)
(* by concurrent HTTP workers through MariaDBRepository                    *)
(* (infrastructure/persistence/ledger/repository.go) against the tables of *)
(* infrastructure/persistence/migrations.  One action per SQL statement,   *)
(* so that transactions interleave between statements.                     *)
(*                                                                         *)
(* The database is modelled as the code relies on it (InnoDB):             *)
(*   - an account row has its last committed value (balance) and the value *)
(*     written in place by the transaction that locked it (row);           *)
(*   - SELECT ... FOR UPDATE and UPDATE take the exclusive row lock and    *)
(*     hold it until the transaction ends;                                 *)
(*   - inserted rows stay with their transaction (staged) until COMMIT,    *)
(*     and an INSERT of a primary key that another open transaction has    *)
(*     inserted waits for that transaction;                                *)
(*   - COMMIT publishes everything in one step, ROLLBACK undoes it; both   *)
(*     release the locks.                                                  *)
(* Any statement may fail (lost connection, cancelled request context,     *)
(* deadlock victim, lock-wait timeout) and the process may stop at any     *)
(* point; the transaction is then rolled back by a step of its own, which  *)
(* keeps the row locks until it happens.                                   *)
(*                                                                         *)
(* Not modelled: account type, status and timestamps (no decision reads    *)
(* them, the status of a suspended account included), the event's JSON     *)
(* text, tracing.                                                          *)
(***************************************************************************)
EXTENDS Integers, FiniteSetsExt

CONSTANTS
    Worker,       \* goroutines that run AuthorizePayment
    None,         \* no worker
    TxnId,        \* transaction identifiers
    AccountId,    \* account identifiers as requests spell them
    Account,      \* rows of the accounts table
    NoRow,        \* what an identifier of no account finds
    RowOf,        \* the row that WHERE id = ? finds under the column's collation
    LexRank,      \* rank of each spelling in the byte order of sort.Strings
    Currency,     \* currency codes
    AnyCurrency,  \* the empty currency field of a request
    CurrencyOf,   \* the currency column of each account
    InitBalance,  \* the balance column when the service starts
    MaxBalance,   \* the largest value DECIMAL(36,18) holds
    Request       \* the authorization requests that clients send

ASSUME LedgerAssumption ==
    /\ None \notin Worker
    /\ NoRow \notin Account
    /\ RowOf \in [AccountId -> Account \cup {NoRow}]
    /\ LexRank \in [AccountId -> Nat]
    /\ \A a, b \in AccountId : LexRank[a] = LexRank[b] => a = b
    /\ CurrencyOf \in [Account -> Currency]
    /\ MaxBalance \in Nat
    /\ InitBalance \in [Account -> 0..MaxBalance]
    /\ Request # {}
    /\ Request \subseteq [txn         : TxnId,
                          source      : AccountId,
                          destination : AccountId,
                          amount      : Int,
                          currency    : Currency \cup {AnyCurrency}]

(* No two spellings find the same row.  The schema does not give it: its   *)
(* VARCHAR keys use the server's case-insensitive collation.  Properties   *)
(* that need it say so.                                                    *)
CanonicalIds ==
    \A a, b \in AccountId : RowOf[a] = RowOf[b] /\ RowOf[a] # NoRow => a = b

VARIABLES
    balance,   \* committed accounts.balance
    txns,      \* committed ledger_transactions, by primary key
    entries,   \* committed ledger_entries
    events,    \* committed outbox_events
    row,       \* accounts.balance as written in place
    rowLock,   \* the worker whose transaction holds the row lock, or None
    staged,    \* the rows each open transaction has inserted
    pc,        \* the next statement of each worker
    req,       \* the request each worker serves or served last
    seen,      \* the balances the worker read, by the identifier it asked for
    outcome    \* what the last AuthorizePayment of the worker returned

tables == <<balance, txns, entries, events>>
locks  == <<row, rowLock>>
call   == <<pc, req, seen, outcome>>
vars   == <<balance, txns, entries, events, row, rowLock, staged,
            pc, req, seen, outcome>>

Entry == [txn : TxnId, account : Account, amount : Int]

Event == [txn         : TxnId,
          source      : Account,
          destination : Account,
          amount      : Nat \ {0},
          currency    : Currency]

(* The statements of the transaction, in the order the code issues them.   *)
Statement == {"lockFirst", "lockSecond", "insertTxn", "updateSource",
              "updateDestination", "insertDebit", "insertCredit",
              "insertEvent", "commit"}

Outcome == {"none", "ok", "notFound", "insufficient", "invalid", "error"}

NothingStaged == [txns |-> {}, entries |-> {}, events |-> {}]

Init ==
    /\ balance = InitBalance
    /\ txns = {}
    /\ entries = {}
    /\ events = {}
    /\ row = InitBalance
    /\ rowLock = [a \in Account |-> None]
    /\ staged = [w \in Worker |-> NothingStaged]
    /\ pc = [w \in Worker |-> "idle"]
    /\ req = [w \in Worker |-> CHOOSE r \in Request : TRUE]
    /\ seen = [w \in Worker |-> [a \in AccountId |-> 0]]
    /\ outcome = [w \in Worker |-> "none"]

-------------------------------------------------------------------------------
(* Variant: the sign of the amount is not checked.                         *)
ValidAnyAmount(r) == r.source # r.destination

(* validateAuthorizeRequest.  Identifiers of a modelled request are never  *)
(* empty.                                                                  *)
Valid(r) == r.source # r.destination /\ r.amount > 0

(* Variant: the accounts are locked in the order the request names them.   *)
FirstAsGiven(r) == r.source

(* lockOrder after sort.Strings: the order of the two SELECT ... FOR UPDATE. *)
First(r) == IF LexRank[r.source] <= LexRank[r.destination]
            THEN r.source ELSE r.destination
Second(r) == IF First(r) = r.source THEN r.destination ELSE r.source

SourceRow(w)      == RowOf[req[w].source]
DestinationRow(w) == RowOf[req[w].destination]

(* Variant: the source balance is not compared with the amount.            *)
FundsNotChecked(w) == TRUE

(* The guards between the reads and the first write.                       *)
FundsSuffice(w) == seen[w][req[w].source] >= req[w].amount

(* Variant: the two accounts' currencies are not compared.                 *)
SourceCurrencyAgrees(w) ==
    req[w].currency \in {AnyCurrency, CurrencyOf[SourceRow(w)]}

CurrenciesAgree(w) ==
    /\ CurrencyOf[SourceRow(w)] = CurrencyOf[DestinationRow(w)]
    /\ req[w].currency \in {AnyCurrency, CurrencyOf[SourceRow(w)]}

(* newSourceBalance and newDestinationBalance, from the balances read.     *)
NewSourceBalance(w)      == seen[w][req[w].source] - req[w].amount
NewDestinationBalance(w) == seen[w][req[w].destination] + req[w].amount

-------------------------------------------------------------------------------
(* AuthorizePayment up to its first statement: a valid request opens a     *)
(* transaction.  (A BeginTx that fails is a Fail of the first statement:   *)
(* neither leaves anything to undo.)                                       *)
Begin(w, r) ==
    /\ pc[w] = "idle"
    /\ Valid(r)
    /\ pc' = [pc EXCEPT ![w] = "lockFirst"]
    /\ req' = [req EXCEPT ![w] = r]
    /\ outcome' = [outcome EXCEPT ![w] = "none"]
    /\ UNCHANGED <<tables, locks, staged, seen>>

(* A request that validation refuses never reaches the database.           *)
Refuse(w, r) ==
    /\ pc[w] = "idle"
    /\ ~Valid(r)
    /\ req' = [req EXCEPT ![w] = r]
    /\ outcome' = [outcome EXCEPT ![w] = "invalid"]
    /\ UNCHANGED <<tables, locks, staged, pc, seen>>

(* The callback returns an error: what is left is tx.Rollback.             *)
Abort(w, why) ==
    /\ pc' = [pc EXCEPT ![w] = "rollback"]
    /\ outcome' = [outcome EXCEPT ![w] = why]
    /\ UNCHANGED <<tables, locks, staged, req, seen>>

Free(w, a) == rowLock[a] \in {None, w}

(* Variant: a plain SELECT, which reads the committed row without a lock.  *)
GetAccountUnlocked(w, id, next) ==
    \/ /\ RowOf[id] = NoRow
       /\ Abort(w, "notFound")
    \/ /\ RowOf[id] # NoRow
       /\ seen' = [seen EXCEPT ![w][id] = balance[RowOf[id]]]
       /\ pc' = [pc EXCEPT ![w] = next]
       /\ UNCHANGED <<tables, locks, staged, req, outcome>>

(* GetAccountForUpdate: wait for the row, lock it and read it; an          *)
(* identifier of no account is ErrAccountNotFound.                         *)
GetAccountForUpdate(w, id, next) ==
    \/ /\ RowOf[id] = NoRow
       /\ Abort(w, "notFound")
    \/ /\ RowOf[id] # NoRow
       /\ Free(w, RowOf[id])
       /\ rowLock' = [rowLock EXCEPT ![RowOf[id]] = w]
       /\ seen' = [seen EXCEPT ![w][id] = row[RowOf[id]]]
       /\ pc' = [pc EXCEPT ![w] = next]
       /\ UNCHANGED <<tables, row, staged, req, outcome>>

LockFirst(w) ==
    /\ pc[w] = "lockFirst"
    /\ GetAccountForUpdate(w, First(req[w]), "lockSecond")

LockSecond(w) ==
    /\ pc[w] = "lockSecond"
    /\ GetAccountForUpdate(w, Second(req[w]), "insertTxn")

(* ErrInsufficientFunds, then the two currency checks: nothing has been    *)
(* written yet.                                                            *)
RejectFunds(w) ==
    /\ pc[w] = "insertTxn"
    /\ ~FundsSuffice(w)
    /\ Abort(w, "insufficient")

RejectCurrency(w) ==
    /\ pc[w] = "insertTxn"
    /\ FundsSuffice(w)
    /\ ~CurrenciesAgree(w)
    /\ Abort(w, "invalid")

TxnClaimed(w) == \E v \in Worker \ {w} : req[w].txn \in staged[v].txns

(* Variant: a ledger_transactions table without its unique keys.           *)
CreateLedgerTransactionNoKey(w) ==
    /\ pc[w] = "insertTxn"
    /\ FundsSuffice(w)
    /\ CurrenciesAgree(w)
    /\ staged' = [staged EXCEPT ![w].txns = @ \cup {req[w].txn}]
    /\ pc' = [pc EXCEPT ![w] = "updateSource"]
    /\ UNCHANGED <<tables, locks, req, seen, outcome>>

(* The INSERT of a transaction identifier waits while another open         *)
(* transaction has inserted it and fails once it is committed.             *)
CreateLedgerTransaction(w) ==
    /\ pc[w] = "insertTxn"
    /\ FundsSuffice(w)
    /\ CurrenciesAgree(w)
    /\ ~TxnClaimed(w)
    /\ \/ /\ req[w].txn \in txns
          /\ Abort(w, "error")
       \/ /\ req[w].txn \notin txns
          /\ staged' = [staged EXCEPT ![w].txns = @ \cup {req[w].txn}]
          /\ pc' = [pc EXCEPT ![w] = "updateSource"]
          /\ UNCHANGED <<tables, locks, req, seen, outcome>>

(* UpdateAccountBalance: a value outside DECIMAL(36,18) is an error;       *)
(* otherwise the row changes in place, under its lock.                     *)
UpdateAccountBalance(w, a, value, next) ==
    \/ /\ value > MaxBalance
       /\ Abort(w, "error")
    \/ /\ value <= MaxBalance
       /\ Free(w, a)
       /\ rowLock' = [rowLock EXCEPT ![a] = w]
       /\ row' = [row EXCEPT ![a] = value]
       /\ pc' = [pc EXCEPT ![w] = next]
       /\ UNCHANGED <<tables, staged, req, seen, outcome>>

UpdateSource(w) ==
    /\ pc[w] = "updateSource"
    /\ UpdateAccountBalance(w, SourceRow(w), NewSourceBalance(w),
                            "updateDestination")

UpdateDestination(w) ==
    /\ pc[w] = "updateDestination"
    /\ UpdateAccountBalance(w, DestinationRow(w), NewDestinationBalance(w),
                            "insertDebit")

(* debitEntry, creditEntry and the TransactionAuthorized event.            *)
DebitEntry(w) ==
    [txn |-> req[w].txn, account |-> SourceRow(w), amount |-> -req[w].amount]

CreditEntry(w) ==
    [txn |-> req[w].txn, account |-> DestinationRow(w), amount |-> req[w].amount]

AuthorizedEvent(w) ==
    [txn         |-> req[w].txn,
     source      |-> SourceRow(w),
     destination |-> DestinationRow(w),
     amount      |-> req[w].amount,
     currency    |-> CurrencyOf[SourceRow(w)]]

CreateLedgerEntry(w, entry, next) ==
    /\ staged' = [staged EXCEPT ![w].entries = @ \cup {entry}]
    /\ pc' = [pc EXCEPT ![w] = next]
    /\ UNCHANGED <<tables, locks, req, seen, outcome>>

InsertDebit(w) ==
    /\ pc[w] = "insertDebit"
    /\ CreateLedgerEntry(w, DebitEntry(w), "insertCredit")

InsertCredit(w) ==
    /\ pc[w] = "insertCredit"
    /\ CreateLedgerEntry(w, CreditEntry(w), "insertEvent")

(* Variant: an error of the outbox INSERT is ignored.                      *)
CreateOutboxEventIgnoringError(w) ==
    /\ pc[w] = "insertEvent"
    /\ staged' \in {staged,
                   [staged EXCEPT ![w].events = @ \cup {AuthorizedEvent(w)}]}
    /\ pc' = [pc EXCEPT ![w] = "commit"]
    /\ UNCHANGED <<tables, locks, req, seen, outcome>>

CreateOutboxEvent(w) ==
    /\ pc[w] = "insertEvent"
    /\ staged' = [staged EXCEPT ![w].events = @ \cup {AuthorizedEvent(w)}]
    /\ pc' = [pc EXCEPT ![w] = "commit"]
    /\ UNCHANGED <<tables, locks, req, seen, outcome>>

-------------------------------------------------------------------------------
Unlocked(w) == [a \in Account |-> IF rowLock[a] = w THEN None ELSE rowLock[a]]

(* The worker's transaction ends: locks released, its rows and its map of  *)
(* accounts gone, AuthorizePayment returns.                                *)
EndTransaction(w) ==
    /\ rowLock' = Unlocked(w)
    /\ staged' = [staged EXCEPT ![w] = NothingStaged]
    /\ seen' = [seen EXCEPT ![w] = [a \in AccountId |-> 0]]
    /\ pc' = [pc EXCEPT ![w] = "idle"]
    /\ UNCHANGED req

(* tx.Commit: the database applies the transaction; its answer may be      *)
(* lost, and the caller then sees an error for a transfer that is posted.  *)
Commit(w) ==
    /\ pc[w] = "commit"
    /\ balance' = [a \in Account |-> IF rowLock[a] = w THEN row[a] ELSE balance[a]]
    /\ txns' = txns \cup staged[w].txns
    /\ entries' = entries \cup staged[w].entries
    /\ events' = events \cup staged[w].events
    /\ \E answer \in {"ok", "error"} : outcome' = [outcome EXCEPT ![w] = answer]
    /\ UNCHANGED row
    /\ EndTransaction(w)

(* Variant: the written rows stay as they are.                             *)
RollbackWithoutUndo(w) ==
    /\ pc[w] = "rollback"
    /\ UNCHANGED row
    /\ UNCHANGED <<tables, outcome>>
    /\ EndTransaction(w)

(* tx.Rollback, or the server undoing the transaction of a lost session.   *)
Rollback(w) ==
    /\ pc[w] = "rollback"
    /\ row' = [a \in Account |-> IF rowLock[a] = w THEN balance[a] ELSE row[a]]
    /\ UNCHANGED <<tables, outcome>>
    /\ EndTransaction(w)

(* A statement, or the commit before it is applied, fails.                 *)
Fail(w) ==
    /\ pc[w] \in Statement
    /\ Abort(w, "error")

(* The process stops (main exits at once on SIGTERM, or is killed): no     *)
(* call returns, and every open transaction is left to the server.         *)
Crash ==
    /\ \E w \in Worker : pc[w] \in Statement
    /\ pc' = [w \in Worker |-> IF pc[w] = "idle" THEN "idle" ELSE "rollback"]
    /\ outcome' = [w \in Worker |-> "none"]
    /\ UNCHANGED <<tables, locks, staged, req, seen>>

-------------------------------------------------------------------------------
Accept(w) == \E r \in Request : Begin(w, r) \/ Refuse(w, r)

Step(w) ==
    \/ LockFirst(w)
    \/ LockSecond(w)
    \/ RejectFunds(w)
    \/ RejectCurrency(w)
    \/ CreateLedgerTransaction(w)
    \/ UpdateSource(w)
    \/ UpdateDestination(w)
    \/ InsertDebit(w)
    \/ InsertCredit(w)
    \/ CreateOutboxEvent(w)
    \/ Commit(w)
    \/ Rollback(w)

Next ==
    \/ \E w \in Worker : Accept(w) \/ Step(w) \/ Fail(w)
    \/ Crash

Spec == Init /\ [][Next]_vars

(* A worker keeps executing its statements.  A statement that waits for a  *)
(* lock is granted it if the lock becomes free again and again (InnoDB     *)
(* queues waiters); no lock-wait timeout is needed, so Fail is not fair.   *)
Fairness == \A w \in Worker : SF_vars(Step(w))

FairSpec == Spec /\ Fairness

-------------------------------------------------------------------------------
(* Type correctness: what each table, lock and local variable may hold.    *)
TypeOK ==
    /\ balance \in [Account -> Int]
    /\ txns \subseteq TxnId
    /\ entries \subseteq Entry
    /\ events \subseteq Event
    /\ row \in [Account -> Int]
    /\ rowLock \in [Account -> Worker \cup {None}]
    /\ staged \in [Worker -> [txns    : SUBSET TxnId,
                              entries : SUBSET Entry,
                              events  : SUBSET Event]]
    /\ pc \in [Worker -> Statement \cup {"idle", "rollback"}]
    /\ req \in [Worker -> Request]
    /\ seen \in [Worker -> [AccountId -> Int]]
    /\ outcome \in [Worker -> Outcome]

(* No committed balance is negative or larger than its column: the funds   *)
(* check of AuthorizePayment reads balances that other transactions are    *)
(* changing, and writes an absolute value computed from them.              *)
NoOverdraft == \A a \in Account : balance[a] \in 0..MaxBalance

(* From the moment both accounts are locked until the transaction ends,    *)
(* the balances the callback read are the committed ones, whatever other   *)
(* workers, failures and rollbacks do: the absolute values it writes lose  *)
(* no other transfer ("preventing concurrent authorizations from racing on *)
(* the same balance", repository.go:80).                                   *)
BothLocked == Statement \ {"lockFirst", "lockSecond"}

NoLostUpdate ==
    \A w \in Worker : pc[w] \in BothLocked =>
        /\ seen[w][req[w].source] = balance[SourceRow(w)]
        /\ seen[w][req[w].destination] = balance[DestinationRow(w)]

(* Committed rows of the four tables tell one story: every transaction     *)
(* header has exactly one event, exactly one debit and one credit of the   *)
(* event's amount on two different accounts, and there is no other entry.  *)
Debit(e)  == [txn |-> e.txn, account |-> e.source, amount |-> -e.amount]
Credit(e) == [txn |-> e.txn, account |-> e.destination, amount |-> e.amount]

DoubleEntry ==
    /\ txns = {e.txn : e \in events}
    /\ \A e, f \in events : e.txn = f.txn => e = f
    /\ entries = {Debit(e) : e \in events} \cup {Credit(e) : e \in events}
    /\ \A e \in events : e.source # e.destination

(* Every balance is what the account started with plus its ledger entries: *)
(* the balance column, which is overwritten, never drifts from the ledger, *)
(* which is only appended to.                                              *)
EntrySum(S) == MapThenSumSet(LAMBDA e : e.amount, S)

EntriesOf(a) == {e \in entries : e.account = a}

BalanceIsLedgerSum ==
    \A a \in Account : balance[a] = InitBalance[a] + EntrySum(EntriesOf(a))

(* A call that returned nil has posted exactly the transfer it was asked   *)
(* for, under its own identifier.                                          *)
OkMeansPosted ==
    \A w \in Worker : outcome[w] = "ok" => AuthorizedEvent(w) \in events

(* Who waits for whom: for a row lock, or for an uncommitted identifier.   *)
RowWanted(w) ==
    CASE pc[w] = "lockFirst"         -> RowOf[First(req[w])]
      [] pc[w] = "lockSecond"        -> RowOf[Second(req[w])]
      [] pc[w] = "updateSource"      -> SourceRow(w)
      [] pc[w] = "updateDestination" -> DestinationRow(w)
      [] OTHER                       -> NoRow

Waits(w, v) ==
    /\ v # w
    /\ \/ RowWanted(w) # NoRow /\ rowLock[RowWanted(w)] = v
       \/ pc[w] = "insertTxn" /\ req[w].txn \in staged[v].txns

(* No set of workers waits only for its own members: "avoiding the         *)
(* circular wait that causes database deadlocks" (issuing_usecase.go:99).  *)
NoCircularWait ==
    \A S \in (SUBSET Worker) \ {{}} : \E w \in S : \A v \in S : ~Waits(w, v)

(* Every accepted authorization returns, whatever the others do, without   *)
(* any lock wait having to time out.                                       *)
CallsReturn == \A w \in Worker : pc[w] # "idle" ~> pc[w] = "idle"

(* The abstract ledger: the outbox is the history of posted transfers.     *)
T == INSTANCE Transfers
     WITH posted <- events, Amount <- {r.amount : r \in Request} \cap Nat

(* Statements, failures and crashes implement atomic, funded, at-most-once *)
(* transfers.                                                              *)
ImplementsTransfers == T!Spec
===============================================================================
