------------------------------ MODULE MCTCPStream ------------------------------
(* An instance of the TCP stream observation for TLC.                        *)
EXTENDS TCPStream
=============================================================================
