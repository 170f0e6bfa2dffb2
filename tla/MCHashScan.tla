----------------------------- MODULE MCHashScan -----------------------------
(* HashScan with two files, one of which changes.                          *)
EXTENDS HashScan, TLC

CONSTANTS f1, f2
=============================================================================
