------------------------------ MODULE MCTransfer ------------------------------
(* A small transfer for TLC: two files are there and a third, infected,   *)
(* may be added; its constants are in MCTransfer.cfg.                      *)
EXTENDS Transfer
=============================================================================
