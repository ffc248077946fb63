--------------------------- MODULE LedgerInvariant ---------------------------
(***************************************************************************)
(* The inductive invariant behind the safety properties of Ledger: what is *)
(* true of the locks, the rows written in place and the inserted rows of a *)
(* worker at each of its statements.  NoOverdraft, DoubleEntry and         *)
(* NoLostUpdate are not inductive alone: that a commit publishes a correct *)
(* transfer depends on everything its transaction did before.              *)
(***************************************************************************)
EXTENDS Ledger

(* The statements that follow the checks, and those after both updates.    *)
Checked == BothLocked \ {"insertTxn"}
Updated == Checked \ {"updateSource", "updateDestination"}

FirstRow(w) == RowOf[First(req[w])]

(* Which rows a worker holds the lock of; a transaction being rolled back  *)
(* may hold any.                                                           *)
LocksOf(w) ==
    /\ pc[w] \in {"idle", "lockFirst"} =>
           \A a \in Account : rowLock[a] # w
    /\ pc[w] = "lockSecond" =>
           /\ FirstRow(w) # NoRow
           /\ \A a \in Account : rowLock[a] = w <=> a = FirstRow(w)
    /\ pc[w] \in BothLocked =>
           /\ SourceRow(w) # NoRow
           /\ DestinationRow(w) # NoRow
           /\ \A a \in Account :
                  rowLock[a] = w <=> a \in {SourceRow(w), DestinationRow(w)}

(* The rows a worker has locked differ from the committed ones by exactly  *)
(* the updates it has executed.                                            *)
RowsOf(w) ==
    /\ pc[w] = "lockSecond" => row[FirstRow(w)] = balance[FirstRow(w)]
    /\ pc[w] \in {"insertTxn", "updateSource"} =>
           row[SourceRow(w)] = balance[SourceRow(w)]
    /\ pc[w] \in {"insertTxn", "updateSource", "updateDestination"} =>
           row[DestinationRow(w)] = balance[DestinationRow(w)]
    /\ pc[w] \in Updated \cup {"updateDestination"} =>
           row[SourceRow(w)] = NewSourceBalance(w)
    /\ pc[w] \in Updated =>
           row[DestinationRow(w)] = NewDestinationBalance(w)

(* The balances read are the committed ones, from the first lock on.       *)
ReadsOf(w) ==
    /\ pc[w] = "lockSecond" => seen[w][First(req[w])] = balance[FirstRow(w)]
    /\ pc[w] \in BothLocked =>
           /\ seen[w][req[w].source] = balance[SourceRow(w)]
           /\ seen[w][req[w].destination] = balance[DestinationRow(w)]

(* What the guards passed so far guarantee.                                *)
GuardsOf(w) ==
    /\ pc[w] \in Statement => Valid(req[w])
    /\ pc[w] \in Checked => FundsSuffice(w) /\ CurrenciesAgree(w)
    /\ pc[w] \in Updated => NewDestinationBalance(w) <= MaxBalance

(* The rows an open transaction has inserted.                              *)
StagedOf(w) ==
    /\ pc[w] \in {"idle", "lockFirst", "lockSecond", "insertTxn"} =>
           staged[w] = NothingStaged
    /\ pc[w] \in Checked => staged[w].txns = {req[w].txn}
    /\ pc[w] \in {"updateSource", "updateDestination", "insertDebit"} =>
           staged[w].entries = {}
    /\ pc[w] = "insertCredit" => staged[w].entries = {DebitEntry(w)}
    /\ pc[w] \in {"insertEvent", "commit"} =>
           staged[w].entries = {DebitEntry(w), CreditEntry(w)}
    /\ pc[w] \in Checked \ {"commit"} => staged[w].events = {}
    /\ pc[w] = "commit" => staged[w].events = {AuthorizedEvent(w)}

WorkerInv(w) ==
    /\ LocksOf(w)
    /\ RowsOf(w)
    /\ ReadsOf(w)
    /\ GuardsOf(w)
    /\ StagedOf(w)
    /\ outcome[w] = "ok" => AuthorizedEvent(w) \in events

(* A row nobody has locked is the committed one.                           *)
UnlockedRows == \A a \in Account : rowLock[a] = None => row[a] = balance[a]

(* A transaction identifier belongs to one open transaction or to a        *)
(* committed one.                                                          *)
ClaimedOnce ==
    \A w \in Worker :
        /\ staged[w].txns \cap txns = {}
        /\ \A v \in Worker \ {w} : staged[w].txns \cap staged[v].txns = {}

(* The inductive invariant: every step of every worker preserves it, and   *)
(* it implies the safety properties of Ledger.                             *)
IInv ==
    /\ TypeOK
    /\ \A w \in Worker : WorkerInv(w)
    /\ UnlockedRows
    /\ ClaimedOnce
    /\ NoOverdraft
    /\ DoubleEntry
==============================================================================
