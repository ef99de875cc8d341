-------------------------- MODULE MCDesktopSession --------------------------
(* Small instances of DesktopSession for TLC. *)
EXTENDS DesktopSession

CONSTANTS alpha, beta
=============================================================================
