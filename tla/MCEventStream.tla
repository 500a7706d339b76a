---------------------------- MODULE MCEventStream ----------------------------
(***************************************************************************)
(* Small instances of EventStream.  The code asks for a capacity of 16 at  *)
(* least; two places are enough for a queue of controls only, of           *)
(* controls around an evictable snapshot, and for a marker that waits      *)
(* behind other envelopes.                                                 *)
(***************************************************************************)
EXTENDS EventStream
=============================================================================
