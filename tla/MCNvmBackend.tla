---------------------------- MODULE MCNvmBackend ----------------------------
(* Instances of NvmBackend for TLC.  One bit per byte is enough to tell an *)
(* erased byte from a programmed one; the profiles differ in their units   *)
(* (MCNvmFlash.cfg, MCNvmEeprom.cfg), and MCNvmReadFault.cfg lets the      *)
(* first open or read of the image fail.                                   *)
EXTENDS NvmBackend
=============================================================================
