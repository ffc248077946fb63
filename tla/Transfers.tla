------------------------------ MODULE Transfers ------------------------------
(***************************************************************************)
(* What the issuing ledger promises, with nothing about statements, locks, *)
(* failures or crashes: a transfer of one currency between two different   *)
(* accounts happens in one step or not at all, at most once for each       *)
(* transaction identifier, and only when the source can pay for it and the *)
(* destination's column can hold the result.                               *)
(*                                                                         *)
(* Module Ledger is shown to implement this one, by TLC on small instances *)
(* and by the proofs of LedgerProofs for all of them.                      *)
(***************************************************************************)
EXTENDS Integers

CONSTANTS
    TxnId,        \* transaction identifiers
    Account,      \* rows of the accounts table
    Currency,     \* currency codes
    CurrencyOf,   \* the currency column of each account
    InitBalance,  \* the balance of each account when the service starts
    MaxBalance,   \* the largest value the balance column holds
    Amount        \* the amounts that may be transferred

VARIABLES
    balance,      \* the balance of each account
    posted        \* the transfers made so far

vars == <<balance, posted>>

Transfer == [txn         : TxnId,
             source      : Account,
             destination : Account,
             amount      : Amount \ {0},
             currency    : Currency]

Init ==
    /\ balance = InitBalance
    /\ posted = {}

(* One authorized payment, as AuthorizePayment's transaction makes it.     *)
Post(t) ==
    /\ \A p \in posted : p.txn # t.txn
    /\ t.source # t.destination
    /\ t.currency = CurrencyOf[t.source]
    /\ t.currency = CurrencyOf[t.destination]
    /\ t.amount <= balance[t.source]
    /\ balance[t.destination] + t.amount <= MaxBalance
    /\ balance' = [balance EXCEPT ![t.source]      = @ - t.amount,
                                  ![t.destination] = @ + t.amount]
    /\ posted' = posted \cup {t}

Next == \E t \in Transfer : Post(t)

Spec == Init /\ [][Next]_vars

==============================================================================
