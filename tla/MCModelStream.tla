--------------------------- MODULE MCModelStream ---------------------------
(* One setup for each wire family, one of Responses items that have a      *)
(* call_id beside their id, and longer messages of tool uses only.         *)
EXTENDS ModelStream

Setup(name, frames, only_tools) ==
    [family |-> name, reasoning |-> name = "responses", call_ids |-> FALSE,
     frames |-> frames, only_tools |-> only_tools]

MCSetups ==
    {Setup("chat", 4, FALSE), Setup("responses", 4, FALSE),
     Setup("anthropic", 4, FALSE), Setup("google", 4, FALSE),
     Setup("anthropic", 5, TRUE),
     Setup("responses", 5, TRUE),
     [Setup("responses", 3, FALSE) EXCEPT !.reasoning = FALSE, !.call_ids = TRUE]}
============================================================================
