---------------------------- MODULE MCMaterialize ----------------------------
(* `materialize`, the definition of a well-formed log, the requests encoded *)
(* from it and the pages read of it, on every item sequence up to a length, *)
(* those no run of the program would write too: SessionStore::load accepts  *)
(* them.                                                                    *)
EXTENDS WireRequests, SessionQuery

CONSTANT MaxLength

VARIABLE log

(* A user message opens a Turn; everything else belongs to the last one.    *)
Alphabet ==
    LET turn == IF log = << >> THEN 0 ELSE log[Len(log)].turn IN
    {PlainItem("user", next_turn(log))}
    \union {PlainItem(kind, turn) : kind \in {"assistant", "checkpoint", "compaction"}}
    \union {CallItem(turn, call) : call \in Call}
    \union {ResultItem(turn, call, "succeeded") : call \in Call}

Init == log = << >>

Grow == Len(log) < MaxLength /\ \E item \in Alphabet : log' = Append(log, item)

Full == Len(log) = MaxLength /\ UNCHANGED log

Next == Grow \/ Full

Spec == Init /\ [][Next]_log

(* The phase machine of context/materialize.rs accepts exactly the logs     *)
(* whose rounds are well formed and closed, and its pending map holds       *)
(* exactly the calls left open.                                             *)
AgreesWithDefinition ==
    LET m == materialize(log) IN
    /\ (m.phase = "error") = ~ WellFormed(log)
    /\ m.phase # "error" =>
         /\ (m.phase = "idle") = (OpenCalls(log) = {})
         /\ m.pending = {[id |-> log[i].id, name |-> log[i].name] : i \in OpenCalls(log)}

(* The blocks an assistant item may hold, and the configurations compared.  *)
Blocks == {<<"text">>, <<"thinking", "text">>, <<"thinking">>, <<"text", "thinking", "text">>}

Configs == {c \in LlmCallConfig : c.thinking_level \in {"high", None}}

(* What a model service needs of the request that compile and the four      *)
(* encode_request functions make of a log that materializes: the request is *)
(* refused only for what the caller left out; every text is sent, once and  *)
(* in its place, and so is the thinking where the family takes it back; and *)
(* the tool uses of a message are answered, each once, by what directly     *)
(* follows it. A functionResponse of the Google family has no identity, so  *)
(* there the k-th answers the k-th call if the log has the results in the   *)
(* order of the calls, as the tool loop writes them.                        *)
EveryToolUseAnsweredOnWire ==
    Materializes(log) =>
      \A blocks \in Blocks, family \in Families, system \in BOOLEAN, config \in Configs :
        LET messages == Conversation(log, blocks)
            request  == compile(config, system, messages, <<"read">>)
            body     == encode_request(family, request, TRUE)
        IN  /\ body.ok = (config.model /\ config.max_tokens > 0 /\ messages # << >>)
            /\ body.ok =>
                 /\ Said(body, "text") = ConversationSaid(system, messages, "text")
                 /\ Said(body, "thinking") =
                      IF family \in {"openai_chat", "anthropic_messages"}
                      THEN ConversationSaid(system, messages, "thinking") ELSE << >>
                 /\ (family # "google_generative_ai" \/ ResultsInCallOrder(messages)) =>
                      CallsPaired(family, body)

(* A reader of the history (query.rs turn_page) that follows oldest_turn    *)
(* backwards obtains every item of the log as it was when the first page    *)
(* was read, each once and in order, though items were appended before it   *)
(* read the others: no page repeats or splits a Turn, none holds more Turns *)
(* than asked for, and has_older tells exactly whether to go on. Paging     *)
(* looks at the Turn of an item only: logs without tool items stand for     *)
(* the others.                                                              *)
PagesPartitionLog ==
    (\A n \in 1 .. Len(log) : log[n].kind \in {"user", "assistant", "checkpoint"}) =>
    \A length \in 0 .. Len(log), limit \in 1 .. 2 :
        LET early == SubSeq(log, 1, length)
            page  == Pages(early, log, limit)
        IN  /\ Read(page) = early
            /\ \A n \in DOMAIN page :
                 LET turns == TurnsOf(page[n].items) IN
                 /\ Cardinality(turns) <= limit
                 /\ page[n].has_older => Cardinality(turns) = limit
                 /\ \A k \in 1 .. n-1 : turns \intersect TurnsOf(page[k].items) = {}
=============================================================================
