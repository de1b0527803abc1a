---------------------------- MODULE MCAdbWatcher ----------------------------
(* Instances of AdbWatcher. *)
EXTENDS AdbWatcher
CONSTANTS d1, d2
=============================================================================
