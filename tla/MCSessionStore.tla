--------------------------- MODULE MCSessionStore ---------------------------
(* Small instances of SessionStore, by the storage faults they admit: two   *)
(* sessions are a parent and its fork, three items an item in front of and  *)
(* one behind the place of a fault.                                         *)
EXTENDS SessionStore

AllFaults == FaultKinds
=============================================================================
