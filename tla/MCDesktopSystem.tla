-------------------------- MODULE MCDesktopSystem --------------------------
(* Small instances of DesktopSystem for TLC.                               *)
EXTENDS DesktopSystem, TLC
=============================================================================
