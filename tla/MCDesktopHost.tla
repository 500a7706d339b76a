--------------------------- MODULE MCDesktopHost ---------------------------
(***************************************************************************)
(* Small instances of DesktopHost: three submissions are enough for a Turn   *)
(* that follows one that failed, was cancelled or panicked, and two        *)
(* requests for a stale decision on the first while the second is pending. *)
(***************************************************************************)
EXTENDS DesktopHost
=============================================================================
