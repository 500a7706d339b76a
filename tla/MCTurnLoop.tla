----------------------------- MODULE MCTurnLoop -----------------------------
(* Small instances of TurnLoop: an allowed tool, one that asks and one the  *)
(* registry does not know; responses with one or two calls.                 *)
EXTENDS TurnLoop, TLC

MCPermission == "read" :> "allow" @@ "bash" :> "ask"

c(id, name) == [id |-> id, name |-> name]

\* a response with one call, and one with two of which the second asks
ShortRounds == {<<c("c1", "bash")>>, <<c("c1", "gone")>>}

TwoCalls == {<<c("c1", "read"), c("c2", "bash")>>}

MixedRounds == ShortRounds \union TwoCalls
=============================================================================
