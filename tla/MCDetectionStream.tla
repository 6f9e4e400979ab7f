--------------------------- MODULE MCDetectionStream ---------------------------
(* An instance of the detection stream for TLC.                              *)
EXTENDS DetectionDelivery
=============================================================================
