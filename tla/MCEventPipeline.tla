-------------------------- MODULE MCEventPipeline --------------------------
(* Each hook alone through a Turn with a model call that is answered, fails *)
(* or uses a tool; both together through the first events of one.           *)
EXTENDS EventPipeline

MCConfigurations ==
    {[policy |-> "off", progress |-> TRUE, events |-> 7],
     [policy |-> "errors", progress |-> FALSE, events |-> 8],
     [policy |-> "normal", progress |-> FALSE, events |-> 5],
     [policy |-> "debug", progress |-> FALSE, events |-> 5],
     [policy |-> "normal", progress |-> TRUE, events |-> 3]}
=============================================================================
