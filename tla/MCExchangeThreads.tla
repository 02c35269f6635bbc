-------------------------- MODULE MCExchangeThreads --------------------------
(* Instances of ExchangeThreads for TLC.                                   *)
EXTENDS MCExchange, ExchangeThreads
=============================================================================
