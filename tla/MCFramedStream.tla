----------------------------- MODULE MCFramedStream -----------------------------
(* An instance of the framed stream for TLC, with headers of two bytes.      *)
EXTENDS FramedStream

MCDNSFormat == [header |-> 2, size |-> 2, limit |-> 3]
MCRecordFormat == [header |-> 2, size |-> 1, limit |-> 1]
MCMessageFormat == [header |-> 2, size |-> 1, limit |-> 1]
=============================================================================
