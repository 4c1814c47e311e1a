--------------------------- MODULE MCSerialAdapter ---------------------------
(* Instances of SerialAdapter for TLC. *)
EXTENDS SerialAdapter
=============================================================================
