-------------------------- MODULE MCDNSCorrelation --------------------------
(* An instance of the DNS correlation of a window for TLC.                   *)
EXTENDS DNSExchange, TLC

ExchangeSymmetry ==
    Permutations(Directions) \cup Permutations(TransactionIds) \cup Permutations(Contents)
=============================================================================
