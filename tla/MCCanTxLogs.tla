---------------------------- MODULE MCCanTxLogs ----------------------------
(* Instance of CanTxLogs for TLC: a log of three slots wraps several times *)
(* with two frames.                                                        *)
EXTENDS CanTxLogs
=============================================================================
