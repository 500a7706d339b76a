---------------------------- MODULE MCCodingTools ----------------------------
(* Two files, every text of up to three lines in the first one; an edit, a  *)
(* write and a command that meet in it, and calls that are refused.         *)
EXTENDS CodingTools

MCFiles == <<"a", "b">>

Texts == UNION {[1 .. n -> {"x", "y", "nul"}] : n \in 0 .. 3}

MCInitialFiles ==
    {[a |-> a, b |-> b] : a \in Texts \union {Absent}, b \in {Absent, <<"x", "y">>}}

Replace(old, new) == [old_string |-> old, new_string |-> new]

MCEditInputs ==
    {[path |-> "a", edits |-> <<Replace(<<"x">>, <<"y", "y">>), Replace(<<"y">>, << >>)>>],
     [path |-> "dir", edits |-> <<Replace(<<"x">>, << >>)>>],
     [path |-> "a", edits |-> << >>]}

MCWriteInputs ==
    {[path |-> path, content |-> <<"x">>] : path \in {"a", "b", "dir", "out"}}

MCBashInputs ==
    {[path |-> "a", content |-> <<"x", "y">>, code |-> code, timeout |-> timeout] :
        code \in {0, 1}, timeout \in BOOLEAN}
=============================================================================
