------------------------------- MODULE MCLedger -------------------------------
(* Ledger on a few accounts that are rich, poor, empty and of another      *)
(* currency, with a column narrow enough to overflow.                      *)
EXTENDS LedgerInvariant

MCAccount == {"a", "b", "c", "d", "idr"}
MCAccountId == MCAccount \cup {"nobody"}
MCRowOf == [i \in MCAccountId |-> IF i \in MCAccount THEN i ELSE NoRow]
MCLexRank == [i \in MCAccountId |->
    CASE i = "a" -> 1 [] i = "b" -> 2 [] i = "c" -> 3
      [] i = "d" -> 4 [] i = "idr" -> 5 [] i = "nobody" -> 6]
MCCurrency == {"USD", "IDR"}
MCCurrencyOf == [a \in MCAccount |-> IF a = "idr" THEN "IDR" ELSE "USD"]
MCInitBalance == [a \in MCAccount |->
    CASE a = "a" -> 2 [] a = "b" -> 1 [] a = "c" -> 0
      [] a = "d" -> 1 [] a = "idr" -> 1]
MCMaxBalance == 2

Ask(t, s, d, m, c) ==
    [txn |-> t, source |-> s, destination |-> d, amount |-> m, currency |-> c]

(* Opposite transfers, an overdraft race, a reused identifier, an overflow *)
(* and one request for every refusal.                                      *)
MCRequest == {
    Ask("t1", "a", "b", 1, "USD"),
    Ask("t2", "b", "a", 1, AnyCurrency),
    Ask("t2", "d", "c", 1, "USD"),
    Ask("t3", "a", "nobody", 1, "USD"),
    Ask("t3", "a", "idr", 1, AnyCurrency),
    Ask("t3", "c", "b", 1, "IDR"),
    Ask("t3", "a", "a", 1, "USD"),
    Ask("t3", "a", "c", 2, "USD"),
    Ask("t3", "a", "c", -1, "USD") }
MCTxnId == {"t1", "t2", "t3"}

(* Opposite transfers, and another one with the identifier of the first.   *)
MCOpposite == {
    Ask("t1", "a", "b", 1, "USD"),
    Ask("t2", "b", "a", 1, "USD"),
    Ask("t1", "d", "b", 1, "USD") }

(* Two spellings of each of two accounts: the byte order puts the capitals *)
(* first, the collation does not tell the spellings apart.                 *)
MCSpelling == {"A", "B", "a", "b"}
MCCollatedRowOf == [i \in MCSpelling |-> IF i \in {"A", "a"} THEN "a" ELSE "b"]
MCByteRank == [i \in MCSpelling |->
    CASE i = "A" -> 1 [] i = "B" -> 2 [] i = "a" -> 3 [] i = "b" -> 4]
MCMixedSpellings == {
    Ask("t1", "A", "b", 1, "USD"),
    Ask("t2", "a", "B", 1, "USD") }
===============================================================================
