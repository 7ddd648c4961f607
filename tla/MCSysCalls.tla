----------------------------- MODULE MCSysCalls -----------------------------
(* Instances of SysCalls for TLC.                                          *)
EXTENDS SysCalls

=============================================================================
