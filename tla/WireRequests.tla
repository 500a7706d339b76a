---------------------------- MODULE WireRequests ----------------------------
(***************************************************************************)
(* From the messages of `materialize` to the body of a model request:      *)
(* `model_input::compile` and `encode_request` of the four adapter         *)
(* families (llm/normalize).                                               *)
(*                                                                         *)
(* A block keeps its kind and what it is about: a text or thinking block   *)
(* is a fragment named by its place in the conversation, a tool use or a   *)
(* tool result is its call identity. Joining texts joins their fragments.  *)
(* MessageContent::Text is a single text block. Tool inputs, schemas and   *)
(* the JSON around the parts are left out.                                 *)
(***************************************************************************)
EXTENDS SessionItems, SequencesExt

Families == {"openai_chat", "openai_responses", "anthropic_messages",
             "google_generative_ai"}

-----------------------------------------------------------------------------
(* llm/protocol and model_input.                                           *)

ThinkingLevels == {"off", "low", "medium", "high", None}

ContentBlock(kind, what) == [kind |-> kind, what |-> what]

(* The blocks of the n-th message of `materialize`, `blocks` being the     *)
(* kinds of block that the item of an assistant message holds.             *)
MessageContent(message, n, blocks) ==
    CASE message.ids = << >> /\ message.role = "user" -> <<ContentBlock("text", <<n, 1>>)>>
      [] message.ids = << >> /\ message.role = "assistant" ->
            [k \in 1 .. Len(blocks) |-> ContentBlock(blocks[k], <<n, k>>)]
      [] message.role = "assistant" /\ message.ids # << >> ->
            [k \in 1 .. Len(message.ids) |-> ContentBlock("tool_use", message.ids[k])]
      [] message.role = "user" /\ message.ids # << >> ->
            [k \in 1 .. Len(message.ids) |-> ContentBlock("tool_result", message.ids[k])]

Conversation(items, blocks) ==
    LET out == materialize(items).out
    IN  [n \in 1 .. Len(out) |->
            [role |-> out[n].role, content |-> MessageContent(out[n], n, blocks)]]

(* SystemPrompt and LlmCallConfig are resolved before the Turn.            *)
LlmCallConfig == [model : BOOLEAN, max_tokens : {0, 4096},
                  thinking_level : ThinkingLevels, previous_response_id : BOOLEAN]

compile(config, system, messages, registry) ==
    [model |-> config.model, system |-> system, messages |-> messages,
     tools |-> registry, max_tokens |-> config.max_tokens,
     thinking_level |-> config.thinking_level,
     previous_response_id |-> config.previous_response_id]

(* `model` and `system` say whether the text is there at all.              *)
validate_request(request) ==
    request.model /\ request.messages # << >> /\ request.max_tokens > 0

-----------------------------------------------------------------------------
(* What the encoders produce: messages of a role with parts. An encoder    *)
(* that meets a block the role may not hold, or a system message, fails    *)
(* the request.                                                            *)
Wire(role, parts) == [role |-> role, parts |-> parts]

Body(messages, request, thinking, previous) ==
    [ok |-> TRUE, messages |-> messages, tools |-> request.tools,
     max_tokens |-> request.max_tokens, thinking |-> thinking, previous |-> previous]

RequestFailed == [ok |-> FALSE]

HasOnly(blocks, kinds) == \A k \in 1 .. Len(blocks) : blocks[k].kind \in kinds

invalid_block(message) ==
    CASE message.role = "user" -> ~ HasOnly(message.content, {"text", "tool_result"})
      [] message.role = "assistant" ->
            ~ HasOnly(message.content, {"text", "thinking", "tool_use"})
      [] OTHER -> TRUE

OfKind(blocks, kind) == Kept(blocks, {k \in 1 .. Len(blocks) : blocks[k].kind = kind})

NotThinking(blocks) == Kept(blocks, {k \in 1 .. Len(blocks) : blocks[k].kind # "thinking"})

Whats(blocks) == [k \in 1 .. Len(blocks) |-> blocks[k].what]

(* A text of joined fragments, left out when it is empty.                  *)
Joined(kind, blocks) ==
    IF blocks = << >> THEN << >> ELSE <<ContentBlock(kind, Whats(blocks))>>

Renamed(blocks, kind) == [k \in 1 .. Len(blocks) |-> ContentBlock(kind, blocks[k].what)]

(* Runs of text are joined and written when a tool result, or the end of   *)
(* the message, comes: flush_user_text.                                    *)
flush_user_text(acc) == acc.items \o Joined("text", acc.text_parts)

UserItems(blocks) ==
    LET Step(acc, block) ==
          IF block.kind = "text"
          THEN [acc EXCEPT !.text_parts = Append(@, block)]
          ELSE [text_parts |-> << >>,
                items |-> Append(flush_user_text(acc), ContentBlock("result", block.what))]
        after[n \in 0 .. Len(blocks)] ==
          IF n = 0 THEN [text_parts |-> << >>, items |-> << >>]
          ELSE Step(after[n-1], blocks[n])
    IN  flush_user_text(after[Len(blocks)])

-----------------------------------------------------------------------------
(* OpenAI Chat Completions: every item of a user message is a message, a   *)
(* tool result one of role "tool"; the blocks of an assistant message are  *)
(* gathered in its three fields.                                           *)
chat_user_message(message) ==
    LET items == UserItems(message.content)
    IN  [k \in 1 .. Len(items) |->
            Wire(IF items[k].kind = "result" THEN "tool" ELSE "user", <<items[k]>>)]

(* Mutant: only the first tool call of a message is kept.                  *)
chat_assistant_message_single(message) ==
    LET calls == Renamed(OfKind(message.content, "tool_use"), "call")
    IN  <<Wire("assistant", Joined("text", OfKind(message.content, "text"))
                            \o Joined("thinking", OfKind(message.content, "thinking"))
                            \o (IF calls = << >> THEN << >> ELSE <<calls[1]>>))>>

chat_assistant_message(message) ==
    <<Wire("assistant", Joined("text", OfKind(message.content, "text"))
                        \o Joined("thinking", OfKind(message.content, "thinking"))
                        \o Renamed(OfKind(message.content, "tool_use"), "call"))>>

chat_message(message) ==
    IF message.role = "user" THEN chat_user_message(message) ELSE chat_assistant_message(message)

chat_messages(messages) ==
    FlattenSeq([n \in 1 .. Len(messages) |-> chat_message(messages[n])])

encode_thinking_extensions(request, extension) ==
    extension /\ request.thinking_level \in {"low", "medium", "high"}

chat_request(request, extension) ==
    Body((IF request.system THEN <<Wire("system", <<ContentBlock("text", <<"system">>)>>)>>
                            ELSE << >>) \o chat_messages(request.messages),
         request, encode_thinking_extensions(request, extension), FALSE)

-----------------------------------------------------------------------------
(* OpenAI Responses: one input item per message. A user message of a       *)
(* single item is that item; several are nested in one user message. The   *)
(* text of an assistant message comes before its calls and its thinking is *)
(* dropped.                                                                *)
responses_user_message(message) ==
    LET items == UserItems(message.content)
    IN  IF Len(items) = 1
        THEN Wire(IF items[1].kind = "result" THEN "function_call_output" ELSE "user", items)
        ELSE Wire("user", items)

responses_assistant_message(message) ==
    Wire("assistant", Joined("text", OfKind(message.content, "text"))
                      \o Renamed(OfKind(message.content, "tool_use"), "call"))

responses_message(message) ==
    IF message.role = "user" THEN responses_user_message(message)
    ELSE responses_assistant_message(message)

encode_input(request) ==
    (IF request.system THEN <<Wire("developer", <<ContentBlock("text", <<"system">>)>>)>>
                       ELSE << >>)
    \o [n \in 1 .. Len(request.messages) |-> responses_message(request.messages[n])]

responses_request(request, previous_id_enabled) ==
    Body(encode_input(request), request, FALSE,
         previous_id_enabled /\ request.previous_response_id)

-----------------------------------------------------------------------------
(* Anthropic Messages: every block is a block. The hand-off policy of this *)
(* family strips nothing.                                                  *)
sanitize_messages_for_handoff(messages, strip_thinking) ==
    IF ~ strip_thinking THEN messages
    ELSE LET stripped == [n \in 1 .. Len(messages) |->
                             [messages[n] EXCEPT !.content = NotThinking(@)]]
         IN  Kept(stripped, {n \in DOMAIN stripped : stripped[n].content # << >>})

anthropic_content(blocks) ==
    [k \in 1 .. Len(blocks) |->
        CASE blocks[k].kind = "text"        -> ContentBlock("text", <<blocks[k].what>>)
          [] blocks[k].kind = "thinking"    -> ContentBlock("thinking", <<blocks[k].what>>)
          [] blocks[k].kind = "tool_use"    -> ContentBlock("call", blocks[k].what)
          [] blocks[k].kind = "tool_result" -> ContentBlock("result", blocks[k].what)]

anthropic_messages(messages) ==
    [n \in 1 .. Len(messages) |->
        Wire(messages[n].role, anthropic_content(messages[n].content))]

(* The budget in tokens; 0 leaves thinking out.                            *)
encode_thinking(level) ==
    CASE level = "low" -> 1024 [] level = "medium" -> 4096 [] level = "high" -> 8192
      [] level \in {"off", None} -> 0

(* The system prompt is a field of its own, the only text outside the      *)
(* messages: it is shown here as a message before them.                    *)
anthropic_request(request) ==
    Body((IF request.system THEN <<Wire("system", <<ContentBlock("text", <<"system">>)>>)>>
                            ELSE << >>)
         \o anthropic_messages(sanitize_messages_for_handoff(request.messages, FALSE)),
         request, encode_thinking(request.thinking_level), FALSE)

-----------------------------------------------------------------------------
(* Google Generative AI: thinking is dropped, and a message left without   *)
(* parts with it. A functionResponse carries neither the call identity nor *)
(* a name, so a response answers the call in its place: `what` is here the *)
(* text of the result, never an identity the service sees.                 *)
google_user_parts(blocks) ==
    [k \in 1 .. Len(blocks) |->
        IF blocks[k].kind = "text" THEN ContentBlock("text", <<blocks[k].what>>)
        ELSE ContentBlock("result", blocks[k].what)]

google_assistant_parts(blocks) ==
    LET kept == NotThinking(blocks)
    IN  [k \in 1 .. Len(kept) |->
            IF kept[k].kind = "text" THEN ContentBlock("text", <<kept[k].what>>)
            ELSE ContentBlock("call", kept[k].what)]

google_message(message) ==
    IF message.role = "user" THEN Wire("user", google_user_parts(message.content))
    ELSE Wire("model", google_assistant_parts(message.content))

encode_contents(messages) ==
    LET contents == [n \in 1 .. Len(messages) |-> google_message(messages[n])]
    IN  Kept(contents, {n \in DOMAIN contents : contents[n].parts # << >>})

google_request(request) ==
    Body((IF request.system THEN <<Wire("user", <<ContentBlock("text", <<"system">>)>>)>>
                            ELSE << >>) \o encode_contents(request.messages),
         request, FALSE, FALSE)

-----------------------------------------------------------------------------
(* `option` is the one option an adapter takes: the thinking extension of  *)
(* Chat, previous_id_enabled of Responses.                                 *)
encode_request(family, request, option) ==
    IF ~ validate_request(request)
       \/ \E n \in 1 .. Len(request.messages) : invalid_block(request.messages[n])
    THEN RequestFailed
    ELSE CASE family = "openai_chat"          -> chat_request(request, option)
           [] family = "openai_responses"     -> responses_request(request, option)
           [] family = "anthropic_messages"   -> anthropic_request(request)
           [] family = "google_generative_ai" -> google_request(request)

-----------------------------------------------------------------------------
(* Reading a body back, as a service would.                                *)

PartsOf(body) ==
    FlattenSeq([n \in 1 .. Len(body.messages) |-> body.messages[n].parts])

Said(body, kind) == FlattenSeq(Whats(OfKind(PartsOf(body), kind)))

Ids(wire, kind) == Whats(OfKind(wire.parts, kind))

(* The results that come first: those of the first message or, in Chat, of *)
(* the run of "tool" messages.                                             *)
FirstResults(messages) ==
    LET run  == {k \in 0 .. Len(messages) : \A j \in 1 .. k : messages[j].role = "tool"}
        last == CHOOSE k \in run : \A j \in run : j <= k
    IN  IF messages = << >> THEN << >>
        ELSE IF messages[1].role = "tool"
        THEN FlattenSeq([k \in 1 .. last |-> Ids(messages[k], "result")])
        ELSE Ids(messages[1], "result")

(* The results that directly follow the n-th message.                      *)
ResultsAfter(body, n) == FirstResults(SubSeq(body.messages, n + 1, Len(body.messages)))

SameIds(a, b) == Len(a) = Len(b) /\ ToSet(a) = ToSet(b)

(* Every message with calls is followed by the results of exactly these    *)
(* calls, and there is no result besides. In the Google family the k-th    *)
(* result must be the answer to the k-th call.                             *)
CallsPaired(family, body) ==
    LET n_calls == Len(OfKind(PartsOf(body), "call"))
    IN  /\ \A n \in 1 .. Len(body.messages) :
             LET calls   == Ids(body.messages[n], "call")
                 results == ResultsAfter(body, n)
             IN  calls # << >> =>
                   /\ SameIds(calls, results)
                   /\ family = "google_generative_ai" => calls = results
        /\ Len(OfKind(PartsOf(body), "result")) = n_calls

(* The tool loop appends the results of a round in the order of its calls. *)
ResultsInCallOrder(messages) ==
    \A n \in 2 .. Len(messages) :
        OfKind(messages[n].content, "tool_result") # << >> =>
            Whats(OfKind(messages[n].content, "tool_result"))
              = Whats(OfKind(messages[n-1].content, "tool_use"))

(* What was said in the conversation, the system prompt first.             *)
ConversationSaid(system, messages, kind) ==
    (IF system /\ kind = "text" THEN <<"system">> ELSE << >>)
    \o FlattenSeq([n \in 1 .. Len(messages) |-> Whats(OfKind(messages[n].content, kind))])
=============================================================================
