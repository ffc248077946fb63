------------------------------- MODULE MCHandler -------------------------------
(* AuthorizeHandler with three requests under one key, of which two name   *)
(* different transactions and one does not decode, a request that reuses a *)
(* transaction under another key, and one without a key.                   *)
EXTENDS AuthorizeHandler

Ask(k, t, d) == [key |-> k, txn |-> t, decodes |-> d]

MCRequest == {
    Ask("k1", "t1", TRUE),
    Ask("k1", "t2", TRUE),
    Ask("k1", "t1", FALSE),
    Ask("k2", "t1", TRUE),
    Ask(NoKey, "t1", TRUE) }
MCKey == {"k1", "k2"}
MCResult == {"t1", "t2"}

===============================================================================
