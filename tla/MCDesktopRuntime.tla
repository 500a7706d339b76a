-------------------------- MODULE MCDesktopRuntime --------------------------
(* Instances of DesktopRuntime.  A command of the window may be any; three  *)
(* of them are a session, what replaces it and what runs beside that.       *)
EXTENDS DesktopRuntime
=============================================================================
