-------------------------------- MODULE MCRelay --------------------------------
(* OutboxRelay with its history, and with rows that do not fit one batch.  *)
EXTENDS RelayHistory

MCEvent == 1..3
MCCreatedAt == [e \in MCEvent |-> e]
===============================================================================
