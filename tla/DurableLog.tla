----------------------------- MODULE DurableLog -----------------------------
(***************************************************************************)
(* What a session log promises its one writer: what was appended stays, in *)
(* order, and whoever opens the log sees all of it and nothing else, until *)
(* the storage damages it.                                                 *)
(***************************************************************************)
EXTENDS Sequences

CONSTANTS Values, Damaged

VARIABLES
    log,   \* the durable sequence, or Damaged
    view,  \* what the writer holds in memory, << >> when there is none
    open   \* there is a writer

vars == <<log, view, open>>

Init == log = << >> /\ view = << >> /\ open = FALSE

Open == log # Damaged /\ open' = TRUE /\ view' = log /\ UNCHANGED log

Close == open /\ open' = FALSE /\ view' = << >> /\ UNCHANGED log

(* The writer may die before it learns that the value is in the log.       *)
AppendValue(value) ==
    /\ open /\ log' = Append(log, value)
    /\ open' \in BOOLEAN /\ view' = IF open' THEN log' ELSE << >>

(* A log may also start out as the copy of a part of another one.          *)
Seed ==
    /\ log = << >> /\ ~ open /\ log' \in Seq(Values)
    /\ open' \in BOOLEAN /\ view' = IF open' THEN log' ELSE << >>

Damage == log' = Damaged /\ open' = FALSE /\ view' = << >>

Next == Open \/ Close \/ (\E value \in Values : AppendValue(value)) \/ Seed \/ Damage

Spec == Init /\ [][Next]_vars
=============================================================================
