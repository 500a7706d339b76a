----------------------------- MODULE ToolRounds -----------------------------
(***************************************************************************)
(* What the loop promises the log, whatever happens inside a Turn: a round *)
(* records its calls, then answers each of them exactly once, and control  *)
(* goes back to the caller only when no call is left open.  The promise    *)
(* ends when an append fails or the process dies.                          *)
(***************************************************************************)
CONSTANT Calls

VARIABLES
    running,  \* a Turn is in progress
    phase,    \* "idle", "calls": recording, "results": answering, "broken"
    pending   \* the calls recorded and not answered

vars == <<running, phase, pending>>

Init == ~ running /\ phase = "idle" /\ pending = {}

Begin == ~ running /\ phase = "idle" /\ running' = TRUE /\ UNCHANGED <<phase, pending>>

Record(call) ==
    /\ running /\ phase \in {"idle", "calls"} /\ call \notin pending
    /\ phase' = "calls" /\ pending' = pending \union {call}
    /\ UNCHANGED running

(* The answer that closes a round may also be the last thing a Turn does.  *)
Close(call) ==
    /\ running /\ call \in pending
    /\ pending' = pending \ {call}
    /\ phase' = IF pending' = {} THEN "idle" ELSE "results"
    /\ running' \in {TRUE, pending' # {}}

End == running /\ pending = {} /\ running' = FALSE /\ UNCHANGED <<phase, pending>>

Break == phase' = "broken" /\ pending' = {} /\ running' = FALSE

Next == Begin \/ End \/ Break \/ \E call \in Calls : Record(call) \/ Close(call)

Spec == Init /\ [][Next]_vars
=============================================================================
