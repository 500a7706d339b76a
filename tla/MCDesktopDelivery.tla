------------------------- MODULE MCDesktopDelivery -------------------------
(***************************************************************************)
(* Instances of DesktopDelivery: a Turn of one assistant call with a tool  *)
(* round, and one of a streamed answer only; an EventBuffer of two places, *)
(* so that snapshots are evicted and controls refused, or with room for    *)
(* the whole Turn.                                                         *)
(***************************************************************************)
EXTENDS DesktopDelivery

CONSTANTS c1, t1

ToolTurn == <<<<"draft", c1>>, <<"assistant", c1>>,
              <<"tool_call", t1>>, <<"tool_result", t1>>>>
TextTurn == <<<<"draft", c1>>, <<"draft", c1>>, <<"assistant", c1>>>>
=============================================================================
