---------------------------- MODULE ModelStream ----------------------------
(***************************************************************************)
(* One model call, from the connection to the response                     *)
(* (agent-core/src/llm: adapter, normalize/*/stream.rs, response_builder): *)
(*                                                                         *)
(*   server -> run_stream, a spawned task -> channel -> run_model_call     *)
(*             (StreamDecoder of the family)    (ModelResponseBuilder)     *)
(*                                                                         *)
(* Four wire families have a StreamDecoder each, which turns a frame into  *)
(* ModelStreamEvents; one ModelResponseBuilder folds them.  The frames of  *)
(* one call are kept in `wire`: a piece of text is its position there.  A  *)
(* tool use is a number, its index on the wire; its arguments are only     *)
(* known to be empty, partial, whole or broken JSON.  ByteLineBuffer cuts  *)
(* frames at line ends wherever the chunks of the body end, so chunks do   *)
(* not appear.  Usage and the response id are left out.                    *)
(***************************************************************************)
EXTENDS Integers, Sequences, FiniteSets, SequencesExt

CONSTANTS
    Setups,   \* family, whether Responses decodes reasoning, whether its items have
              \* a call_id beside their id; bounds on the frames of the call
    Tools,    \* the tool uses of one message
    Places    \* places in the channel between the task and the call

ASSUME SetupsAreKnown ==
    Setups \subseteq [family : {"chat", "responses", "anthropic", "google"},
                      reasoning : BOOLEAN, call_ids : BOOLEAN,
                      frames : Nat, only_tools : BOOLEAN]
ASSUME ToolsAreNumbered == Tools \subseteq Nat /\ IsFiniteSet(Tools)
ASSUME PlacesIsPositive == Places \in Nat \ {0}

VARIABLES
    setup,     \* what this call is set up with
    wire,      \* the frames read so far
    decoder,   \* the StreamDecoder: calls, ended (message_end_emitted), stop, reasoned
    connection, \* what became of the request and its connection
    task,      \* where run_stream is
    emitted,   \* events decoded from the last frame and not yet sent
    channel,   \* events on their way, an error only as the last one
    call,      \* run_model_call: "folding", "returned" or "dropped"
    builder,   \* the ModelResponseBuilder
    result     \* what the call returned

vars == <<setup, wire, decoder, connection, task, emitted, channel, call, builder, result>>

-----------------------------------------------------------------------------
(* Events, and the JSON of tool arguments.                                 *)

Part(kind, block, at) == [event |-> kind, block |-> block, at |-> at]
ToolUse(event, id) == [event |-> event, id |-> id, input |-> "null"]
ToolUseFinished(id, input) == [event |-> "tool_finished", id |-> id, input |-> input]
Finished(stop) == [event |-> "finished", stop |-> stop]
Error(kind) == [event |-> "error", kind |-> kind]

(* arguments.push_str: a piece is the last one or is followed by more.     *)
Joined(args, piece) ==
    CASE args \in {"empty", "partial"} /\ piece = "last" -> "whole"
      [] args \in {"empty", "partial"} /\ piece = "more" -> "partial"
      [] OTHER -> "broken"

(* parse_tool_input: nothing is null, anything but whole JSON an error.    *)
ParsesInput(args) == args \in {"empty", "whole"}
parse_tool_input(args) == IF args = "empty" THEN "null" ELSE "whole"

(* How an entry of the decoder's map is keyed, and the id of its tool use. *)
Id(t) == <<t, "call">>
ItemId(t) == IF setup.call_ids THEN <<t, "item">> ELSE Id(t)

NewCall == [id |-> FALSE, name |-> FALSE, args |-> "empty", started |-> FALSE]
Entry(calls, key) == IF key \in DOMAIN calls THEN calls[key] ELSE NewCall
Put(calls, key, entry) ==
    [k \in DOMAIN calls \union {key} |-> IF k = key THEN entry ELSE calls[k]]

(* The values of a BTreeMap of calls, in the order of their indices.       *)
InOrder(keys) == SetToSortSeq(keys, LAMBDA a, b : a[1] < b[1])

(* What decoding a frame gives: the decoder afterwards and the events, or  *)
(* an error, which always is unrecoverable.                                *)
Decoded(d, events) == [ok |-> TRUE, decoder |-> d, events |-> events]
Refused == [ok |-> FALSE, decoder |-> decoder, events |-> << >>]

(* ToolUseFinished for the calls of `keys`, then Finished; nothing of it   *)
(* when the arguments of one of them do not parse.                         *)
Ended(keys, stop) ==
    IF \E k \in keys : ~ ParsesInput(decoder.calls[k].args) THEN Refused
    ELSE Decoded([decoder EXCEPT !.ended = TRUE],
                 [i \in 1 .. Cardinality(keys) |->
                     LET k == InOrder(keys)[i]
                     IN  ToolUseFinished(k, parse_tool_input(decoder.calls[k].args))]
                 \o <<Finished(stop)>>)

-----------------------------------------------------------------------------
(* Anthropic Messages.  A frame is a record of its kind, a tool and an     *)
(* argument.                                                               *)

Frame(kinds, tools, args) == [kind : kinds, tool : tools, arg : args]
Plain(kinds) == Frame(kinds, {0}, {"-"})

(* A frame that cannot be read.  Frames that are read and say nothing      *)
(* (comments, pings, [DONE], unknown types) change nothing: left out.      *)
CommonFrames == Plain({"garbage"})

AnthropicFrames ==
    CommonFrames \union Plain({"thinking", "error", "message_stop"})
    \union Frame({"text"}, {0, 1}, {"-"})
    \union Frame({"block_start"}, Tools, {"named", "nameless"})
    \union Frame({"input_json"}, Tools, {"more", "last"})
    \union Frame({"message_delta"}, {0}, {"stop", "length"})

(* handle_content_block_delta: the JSON of a tool use is only passed on    *)
(* when its block has been started.                                        *)
handle_content_block_delta(f, at) ==
    IF f.kind \in {"text", "thinking"} THEN Decoded(decoder, <<Part(f.kind, f.tool, at)>>)
    ELSE LET entry == Entry(decoder.calls, Id(f.tool))
             grown == [entry EXCEPT !.args = Joined(@, f.arg)]
         IN  Decoded([decoder EXCEPT !.calls = Put(@, Id(f.tool), grown)],
                     IF entry.started THEN <<ToolUse("tool_part", Id(f.tool))>> ELSE << >>)

map_stop_reason(reason) ==
    CASE reason = "tools" -> "tool_use" [] reason = "length" -> "max_tokens" [] OTHER -> "end_turn"

AnthropicDecode(f, at) ==
    CASE f.kind = "block_start" ->
           LET named == f.arg = "named"
               entry == [NewCall EXCEPT !.id = named, !.name = named, !.started = named]
           IN  Decoded([decoder EXCEPT !.calls = Put(@, Id(f.tool), entry)],
                       IF named THEN <<ToolUse("tool_started", Id(f.tool))>> ELSE << >>)
      [] f.kind \in {"text", "thinking", "input_json"} -> handle_content_block_delta(f, at)
      [] f.kind = "message_delta" ->
           Decoded([decoder EXCEPT !.stop = map_stop_reason(f.arg)], << >>)
      [] f.kind = "message_stop" ->
           \* a started call without arguments is not finished
           Ended({k \in DOMAIN decoder.calls :
                    decoder.calls[k].started /\ decoder.calls[k].args # "empty"},
                 decoder.stop)
      [] f.kind = "error" -> Refused
      [] OTHER -> Decoded(decoder, << >>)

-----------------------------------------------------------------------------
(* OpenAI Chat Completions.  The id, the name and the arguments of a call  *)
(* come in any pieces.                                                     *)

ChatFrames ==
    CommonFrames \union Plain({"text", "thinking", "both"})
    \union Frame({"tool"}, Tools, {"id", "name", "id+name", "more", "last"})
    \union Frame({"finish"}, {0}, {"stop", "tools", "length"})

(* split_assistant_text: text beside reasoning is another block.           *)
split_assistant_text(f, at) ==
    CASE f.kind = "text" -> <<Part("text", 0, at)>>
      [] f.kind = "thinking" -> <<Part("thinking", 0, at)>>
      [] f.kind = "both" -> <<Part("thinking", 0, at), Part("text", 1, at)>>

(* A call is started once its id and its name are known; the arguments     *)
(* that came before are passed on then.                                    *)
apply_tool_delta(f) ==
    LET old == Entry(decoder.calls, Id(f.tool))
        id == old.id \/ f.arg \in {"id", "id+name"}
        name == old.name \/ f.arg \in {"name", "id+name"}
        piece == f.arg \in {"more", "last"}
        args == IF piece THEN Joined(old.args, f.arg) ELSE old.args
        new == [id |-> id, name |-> name, args |-> args, started |-> id /\ name]
        part == <<ToolUse("tool_part", Id(f.tool))>>
    IN  Decoded([decoder EXCEPT !.calls = Put(@, Id(f.tool), new)],
                CASE old.started /\ piece -> part
                  [] new.started /\ ~ old.started ->
                       <<ToolUse("tool_started", Id(f.tool))>>
                       \o (IF args # "empty" THEN part ELSE << >>)
                  [] OTHER -> << >>)

(* Mutant: only the reason "tool_calls" finishes the tool uses.            *)
ChatFinish_tool_calls_only(reason) ==
    Ended(IF reason = "tools"
          THEN {k \in DOMAIN decoder.calls : decoder.calls[k].started} ELSE {},
          map_stop_reason(reason))

(* finish: only the reasons "tool_calls" and "stop" finish the tool uses.  *)
ChatFinish(reason) ==
    Ended(IF reason \in {"stop", "tools"}
          THEN {k \in DOMAIN decoder.calls : decoder.calls[k].started} ELSE {},
          map_stop_reason(reason))

ChatDecode(f, at) ==
    CASE f.kind = "tool" -> apply_tool_delta(f)
      [] f.kind = "finish" -> ChatFinish(f.arg)
      [] f.kind \in {"text", "thinking", "both"} ->
           Decoded(decoder, split_assistant_text(f, at))
      [] OTHER -> Decoded(decoder, << >>)

-----------------------------------------------------------------------------
(* OpenAI Responses.  A call is kept under its call_id, or its id when it  *)
(* has none; what follows about it names its id.                           *)

ResponsesFrames ==
    CommonFrames \union Plain({"text", "thinking", "failed"})
    \union Frame({"added"}, Tools, {"named"})
    \union Frame({"args_delta"}, Tools, {"more", "last"})
    \union Frame({"args_done"}, Tools, {"kept", "whole", "whole+name"})
    \union Plain({"completed"})

(* ResponsesDecodeConfig: reasoning is decoded where the profile names its *)
(* event.                                                                  *)
decode_config_from_wire == setup.reasoning

(* An item without a name, like `completed` without a response, says       *)
(* nothing.                                                                *)
handle_output_item_added(f) ==
    Decoded([decoder EXCEPT !.calls =
                Put(@, Id(f.tool), [id |-> TRUE, name |-> TRUE, args |-> "empty", started |-> TRUE])],
            <<ToolUse("tool_started", Id(f.tool))>>)

handle_function_arguments_delta(f) ==
    LET key == ItemId(f.tool)
        entry == IF key \in DOMAIN decoder.calls THEN decoder.calls[key]
                 ELSE [NewCall EXCEPT !.id = TRUE]
    IN  Decoded([decoder EXCEPT !.calls = Put(@, key, [entry EXCEPT !.args = Joined(@, f.arg)])],
                IF entry.started THEN <<ToolUse("tool_part", key)>> ELSE << >>)

(* The arguments given at the end replace those that were collected.       *)
handle_function_arguments_done(f) ==
    LET key == ItemId(f.tool)
        old == decoder.calls[key]
        entry == [old EXCEPT !.args = IF f.arg = "kept" THEN @ ELSE "whole",
                             !.name = @ \/ f.arg = "whole+name",
                             !.started = @ \/ old.name \/ f.arg = "whole+name"]
    IN  IF key \notin DOMAIN decoder.calls THEN Decoded(decoder, << >>)
        ELSE IF ~ ParsesInput(entry.args) THEN Refused
        ELSE Decoded([decoder EXCEPT !.calls = Put(@, key, entry)],
                     IF entry.name THEN <<ToolUseFinished(key, parse_tool_input(entry.args))>>
                     ELSE << >>)

ResponsesDecode(f, at) ==
    CASE f.kind = "text" ->
           Decoded(decoder, <<Part("text", IF decoder.reasoned THEN 1 ELSE 0, at)>>)
      [] f.kind = "thinking" /\ decode_config_from_wire ->
           Decoded([decoder EXCEPT !.reasoned = TRUE], <<Part("thinking", 0, at)>>)
      [] f.kind = "added" -> handle_output_item_added(f)
      [] f.kind = "args_delta" -> handle_function_arguments_delta(f)
      [] f.kind = "args_done" -> handle_function_arguments_done(f)
      [] f.kind = "completed" -> Ended({}, "end_turn")
      [] f.kind = "failed" -> Refused
      [] OTHER -> Decoded(decoder, << >>)

-----------------------------------------------------------------------------
(* Google Generative AI.  A call comes whole; its id is made of its name,  *)
(* so a tool stands for a function here and may come twice.                *)

GoogleFrames ==
    CommonFrames \union Plain({"text"}) \union Frame({"call"}, Tools, {"-"})
    \union Frame({"finish"}, {0}, {"stop", "length", "safety"})

GoogleDecode(f, at) ==
    CASE f.kind = "text" -> Decoded(decoder, <<Part("text", 0, at)>>)
      [] f.kind = "call" ->
           Decoded(decoder, <<ToolUse("tool_started", Id(f.tool)),
                              ToolUseFinished(Id(f.tool), "whole")>>)
      [] f.kind = "finish" /\ f.arg # "safety" -> Ended({}, map_stop_reason(f.arg))
      [] OTHER -> Decoded(decoder, << >>)

ToolFrames == {"block_start", "input_json", "message_stop", "added", "args_done", "completed"}

(* What the server may send.  Bounds: the second tool use is spoken of     *)
(* after the first, and little is said after the end or to a call that has *)
(* gone.                                                                   *)
Said(frames) ==
    IF decoder.ended \/ call # "folding" THEN Plain({"text", "garbage"})
    ELSE {f \in frames :
            /\ setup.only_tools => f.kind \in ToolFrames /\ f.arg \notin {"nameless", "more"}
            /\ \A t \in Tools : t < f.tool /\ f.kind # "text" =>
                \E i \in 1 .. Len(wire) : wire[i].tool = t}

(* decode_sse_payload, where `decoded` is what the StreamDecoder makes of  *)
(* the frame; after the end of the message it makes nothing of it.         *)
decode_sse_payload(f, decoded) ==
    CASE f.kind = "garbage" -> Refused
      [] f.kind # "garbage" /\ decoder.ended -> Decoded(decoder, << >>)
      [] OTHER -> decoded

-----------------------------------------------------------------------------
(* ModelResponseBuilder.                                                   *)

Block(kind, parts) == [kind |-> kind, parts |-> parts]
ToolBlock(id, input) == [kind |-> "tool", id |-> id, input |-> input]
NoPart == [kind |-> "none", block |-> 0]

NewBuilder ==
    [content |-> << >>, open |-> NoPart, parts |-> << >>, tools |-> << >>,
     stop |-> "none", finished |-> FALSE]

flush_open_part(b) ==
    [b EXCEPT !.content = IF b.parts = << >> THEN @ ELSE Append(@, Block(b.open.kind, b.parts)),
              !.open = NoPart, !.parts = << >>]

(* ensure_text_part and ensure_thinking_part, then the piece is added.     *)
PartAdded(b, e) ==
    LET part == [kind |-> e.event, block |-> e.block]
        c == IF b.open = part THEN b ELSE [flush_open_part(b) EXCEPT !.open = part]
    IN  [c EXCEPT !.parts = Append(@, e.at)]

(* Mutant: finished tool uses are taken out in the order they finished.    *)
flush_finished_tools_any(b) ==
    LET done == SelectSeq(b.tools, LAMBDA t : t.input # "none") IN
    [b EXCEPT !.content = @ \o [i \in 1 .. Len(done) |-> ToolBlock(done[i].id, done[i].input)],
              !.tools = SelectSeq(b.tools, LAMBDA t : t.input = "none")]

(* Finished tool uses leave the queue from its front, in start order.      *)
flush_finished_tools(b) ==
    LET n == SelectInSeq(b.tools, LAMBDA t : t.input = "none")
        k == IF n = 0 THEN Len(b.tools) ELSE n - 1
    IN  [b EXCEPT !.content = @ \o [i \in 1 .. k |-> ToolBlock(b.tools[i].id, b.tools[i].input)],
                  !.tools = SubSeq(@, k + 1, Len(@))]

OpenTool(b, id) == SelectInSeq(b.tools, LAMBDA t : t.id = id)

(* What `apply` refuses: anything after the end, a tool use started while  *)
(* one with its id is open, a part or an end of one that is not open, and  *)
(* an end of the message with tool uses open.                              *)
Accepts(b, e) ==
    /\ ~ b.finished
    /\ e.event = "tool_started" => OpenTool(b, e.id) = 0
    /\ e.event \in {"tool_part", "tool_finished"} =>
         OpenTool(b, e.id) # 0 /\ b.tools[OpenTool(b, e.id)].input = "none"
    /\ e.event = "finished" => b.tools = << >>

Applied(b, e) ==
    CASE e.event \in {"text", "thinking"} -> PartAdded(b, e)
      [] e.event = "tool_started" ->
           [flush_open_part(b) EXCEPT !.tools = Append(@, [id |-> e.id, input |-> "none"])]
      [] e.event = "tool_part" -> b
      [] e.event = "tool_finished" ->
           flush_finished_tools([b EXCEPT !.tools[OpenTool(b, e.id)].input = e.input])
      [] e.event = "finished" ->
           [flush_open_part(b) EXCEPT !.stop = e.stop, !.finished = TRUE]

-----------------------------------------------------------------------------
(* The task.                                                               *)

NewDecoder == [calls |-> << >>, ended |-> FALSE, stop |-> "end_turn", reasoned |-> FALSE]

(* build_provider, with the family of the profile; a call of a provider    *)
(* starts the task.                                                        *)
Init ==
    /\ setup \in Setups
    /\ wire = << >> /\ decoder = NewDecoder /\ connection = "none"
    /\ task = "posting" /\ emitted = << >> /\ channel = << >>
    /\ call = "folding" /\ builder = NewBuilder /\ result = "none"

Fails(kind) == task' = kind

(* encode_request may refuse the request, before anything is sent.         *)
encode_request_fails ==
    /\ task = "posting" /\ Fails("unrecoverable")
    /\ connection' = "unsent"
    /\ UNCHANGED <<setup, wire, decoder, emitted, channel, call, builder, result>>

(* classify_http_status: 408, 429 and everything but the other 4xx may be  *)
(* tried again.                                                            *)
classify_http_status(answer) == IF answer = "rejected" THEN "unrecoverable" ELSE "recoverable"

(* The request is sent and answered.                                       *)
post(answer) ==
    /\ task = "posting"
    /\ connection' = answer
    /\ IF answer = "open" THEN task' = "reading"
       ELSE Fails(IF answer = "unreachable" THEN "recoverable" ELSE classify_http_status(answer))
    /\ UNCHANGED <<setup, wire, decoder, emitted, channel, call, builder, result>>

(* next_line gives a frame and it is decoded.                              *)
next_line(f, decoded) ==
    LET d == decode_sse_payload(f, decoded) IN
    /\ task = "reading" /\ Len(wire) < setup.frames
    /\ wire' = Append(wire, f)
    /\ decoder' = d.decoder /\ emitted' = d.events
    /\ task' = CASE ~ d.ok -> "unrecoverable"
                 [] d.ok /\ d.events = << >> -> "reading"
                 [] OTHER -> "sending"
    /\ UNCHANGED <<setup, connection, channel, call, builder, result>>

(* The loop of run_stream in each adapter.                                 *)
Here == Len(wire) + 1
anthropic_messages ==
    setup.family = "anthropic" /\ \E f \in Said(AnthropicFrames) : next_line(f, AnthropicDecode(f, Here))
openai_chat ==
    setup.family = "chat" /\ \E f \in Said(ChatFrames) : next_line(f, ChatDecode(f, Here))
openai_responses ==
    setup.family = "responses" /\ \E f \in Said(ResponsesFrames) : next_line(f, ResponsesDecode(f, Here))
google_generative_ai ==
    setup.family = "google" /\ \E f \in Said(GoogleFrames) : next_line(f, GoogleDecode(f, Here))

(* Reading the next chunk gives an error or the end of the body, which is  *)
(* fine only after the end of the message.                                 *)
read_end(how) ==
    /\ task = "reading"
    /\ connection' = how
    /\ task' = IF how = "closed" /\ decoder.ended THEN "done" ELSE "recoverable"
    /\ UNCHANGED <<setup, wire, decoder, emitted, channel, call, builder, result>>

Failing == task \in {"recoverable", "unrecoverable"}

(* tx.send: waits for a place.  The error is sent last.                    *)
send ==
    /\ task = "sending" \/ Failing
    /\ call = "folding" /\ Len(channel) < Places
    /\ channel' = Append(channel, IF Failing THEN Error(task) ELSE Head(emitted))
    /\ emitted' = IF Failing THEN emitted ELSE Tail(emitted)
    /\ task' = CASE Failing -> "done"
                 [] ~ Failing /\ Len(emitted) = 1 -> "reading"
                 [] OTHER -> "sending"
    /\ UNCHANGED <<setup, wire, decoder, connection, call, builder, result>>

(* Mutant: an event that nobody takes any more is waited for.              *)
send_closed_unnoticed ==
    /\ Failing /\ call # "folding" /\ task' = "done"
    /\ UNCHANGED <<setup, wire, decoder, connection, emitted, channel, call, builder, result>>

(* The receiver is gone: that is how a cancelled call ends its task.       *)
send_closed ==
    /\ task = "sending" \/ Failing
    /\ call # "folding" /\ task' = "done"
    /\ UNCHANGED <<setup, wire, decoder, connection, emitted, channel, call, builder, result>>

-----------------------------------------------------------------------------
(* run_model_call_with_updates.                                            *)

Returned(with) == call' = "returned" /\ result' = with /\ channel' = << >>

(* An error of the stream, or of the builder, is the result of the call.   *)
next_event ==
    /\ call = "folding" /\ channel # << >>
    /\ LET e == Head(channel) IN
       CASE e.event = "error" -> Returned(e.kind) /\ UNCHANGED builder
         [] e.event # "error" /\ ~ Accepts(builder, e) ->
              Returned("unrecoverable") /\ UNCHANGED builder
         [] OTHER -> /\ builder' = Applied(builder, e)
                     /\ channel' = Tail(channel) /\ UNCHANGED <<call, result>>
    /\ UNCHANGED <<setup, wire, decoder, connection, task, emitted>>

(* The stream has ended: ModelResponseBuilder::finish.                     *)
finish ==
    /\ call = "folding" /\ channel = << >> /\ task = "done"
    /\ Returned(IF builder.finished THEN "response" ELSE "unrecoverable")
    /\ UNCHANGED <<setup, wire, decoder, connection, task, emitted, builder>>

(* The call is cancelled: its future, and the stream in it, are dropped.   *)
drop ==
    /\ call = "folding" /\ call' = "dropped" /\ channel' = << >>
    /\ UNCHANGED <<setup, wire, decoder, connection, task, emitted, builder, result>>

Next ==
    \/ encode_request_fails
    \/ \E answer \in {"open", "unreachable", "busy", "rejected"} : post(answer)
    \/ anthropic_messages \/ openai_chat \/ openai_responses \/ google_generative_ai
    \/ \E how \in {"cut", "closed"} : read_end(how)
    \/ send \/ send_closed
    \/ next_event \/ finish \/ drop

Spec == Init /\ [][Next]_vars

(* The task and the call are run by the runtime.  Nothing is assumed of    *)
(* the server: there is no timeout, and an open connection may be silent.  *)
FairSpec ==
    /\ Spec
    /\ WF_vars(send) /\ WF_vars(send_closed)
    /\ WF_vars(next_event) /\ WF_vars(finish)

-----------------------------------------------------------------------------
(* What the server has said.                                               *)

Ends(f) ==
    CASE setup.family = "anthropic" -> f.kind = "message_stop"
      [] setup.family = "responses" -> f.kind = "completed"
      [] OTHER -> f.kind = "finish" /\ f.arg # "safety"

(* The frames of the message, without its end and what follows it.         *)
EndAt == SelectInSeq(wire, Ends)
Message == IF EndAt = 0 THEN wire ELSE SubSeq(wire, 1, EndAt - 1)

(* Text and reasoning of the message, piece by piece.                      *)
Pieces ==
    FlattenSeq([i \in 1 .. Len(Message) |->
        LET kind == Message[i].kind IN
        (IF kind \in {"thinking", "both"} /\ (setup.family = "responses" => setup.reasoning)
         THEN <<<<"thinking", i>>>> ELSE << >>)
        \o (IF kind \in {"text", "both"} THEN <<<<"text", i>>>> ELSE << >>)])

PiecesOf(content) ==
    FlattenSeq([i \in 1 .. Len(content) |->
        IF content[i].kind = "tool" THEN << >>
        ELSE [j \in 1 .. Len(content[i].parts) |-> <<content[i].kind, content[i].parts[j]>>]])

ToolKinds == {"block_start", "input_json", "tool", "added", "args_delta", "args_done", "call"}
FramesOf(t) == SelectSeq(Message, LAMBDA f : f.kind \in ToolKinds /\ f.tool = t)

(* The frame at which the family knows of a tool use.                      *)
Announces(i) ==
    LET f == Message[i]
        Known(n, what) == \E k \in 1 .. n : Message[k].kind = "tool" /\ Message[k].tool = f.tool
                                          /\ Message[k].arg \in {what, "id+name"}
        Both(n) == Known(n, "id") /\ Known(n, "name")
    IN  \/ f.kind \in {"block_start", "added"} /\ f.arg = "named"
        \/ f.kind = "call"
        \/ f.kind = "tool" /\ Both(i) /\ ~ Both(i - 1)

Announced == LET at == SetToSortSeq({i \in 1 .. Len(Message) : Announces(i)}, <)
             IN  [k \in 1 .. Len(at) |-> Message[at[k]].tool]

(* Arguments of a tool use; its announcement starts them anew, except in   *)
(* Chat Completions.                                                       *)
HasArguments(t) ==
    LET fs == FramesOf(t) IN
    \E i \in 1 .. Len(fs) :
       /\ fs[i].arg \in {"more", "last", "whole", "whole+name"}
       /\ \A j \in i .. Len(fs) : fs[j].kind \notin {"added", "block_start"}

StopOf ==
    CASE setup.family = "anthropic" ->
           LET said == SelectSeq(Message, LAMBDA f : f.kind = "message_delta")
           IN  IF said = << >> THEN "end_turn" ELSE map_stop_reason(Last(said).arg)
      [] setup.family = "responses" -> "end_turn"
      [] OTHER -> map_stop_reason(wire[EndAt].arg)

(* A response is the message the server ended, whole: every piece of text  *)
(* and reasoning once and in order, every tool use that was announced once *)
(* and in order, no argument of one lost, and the reason it stopped for.   *)
(* It goes through a decoder, a channel and a builder, each of which could *)
(* lose, double or swap pieces, and a body that ends early must not pass   *)
(* for one (run_stream, ModelResponseBuilder).                             *)
FaithfulResponse ==
    result = "response" =>
      LET tools == SelectSeq(builder.content, LAMBDA b : b.kind = "tool") IN
      /\ EndAt # 0 /\ builder.stop = StopOf
      /\ PiecesOf(builder.content) = Pieces
      /\ [k \in 1 .. Len(tools) |-> tools[k].id] = [k \in 1 .. Len(Announced) |-> Id(Announced[k])]
      /\ \A k \in 1 .. Len(tools) :
            tools[k].input = "null" =>
              \/ ~ HasArguments(Announced[k])
              \/ \E j \in 1 .. Len(tools) : j # k /\ Announced[j] = Announced[k]

(* Pieces of JSON that make a whole, or none at all.                       *)
Close(pieces) ==
    \A i \in 1 .. Len(pieces) : pieces[i].arg = IF i = Len(pieces) THEN "last" ELSE "more"

(* A tool use as its protocol wants it.                                    *)
WellFormed(t) ==
    LET fs == FramesOf(t) IN
    fs = << >> \/
    CASE setup.family = "google" -> TRUE
      [] setup.family = "anthropic" ->
           /\ fs[1].kind = "block_start" /\ fs[1].arg = "named"
           /\ Len(fs) > 1 /\ Close(Tail(fs))
           /\ \A i \in 2 .. Len(fs) : fs[i].kind = "input_json"
      [] setup.family = "chat" ->
           /\ \E k \in 1 .. Len(Announced) : Announced[k] = t
           /\ EndAt # 0 => wire[EndAt].arg \in {"stop", "tools"}
           /\ Close(SelectSeq(fs, LAMBDA f : f.arg \in {"more", "last"}))
      [] setup.family = "responses" ->
           LET middle == SubSeq(fs, 2, Len(fs) - 1) IN
           /\ ~ setup.call_ids
           /\ fs[1].kind = "added" /\ fs[1].arg = "named"
           /\ Len(fs) > 1 /\ Last(fs).kind = "args_done"
           /\ \A i \in 1 .. Len(middle) : middle[i].kind = "args_delta"
           /\ Last(fs).arg = "kept" => Close(middle)

(* A call fails for a reason: it may be tried again only when the request  *)
(* or its answer did not come through, and it is given up only when the    *)
(* request was refused or the message was not what its protocol wants.  So *)
(* a well formed message that comes through is a response, whatever the    *)
(* order of the task's, the channel's and the builder's steps: the loop    *)
(* repeats a call that failed for the first reason and ends the Turn for   *)
(* the second (run_stream, classify_http_status, apply).                   *)
FailuresHaveCauses ==
    /\ result = "recoverable" =>
         connection \in {"unreachable", "busy", "cut"} \/ (connection = "closed" /\ EndAt = 0)
    /\ result = "unrecoverable" =>
         \/ connection \in {"unsent", "rejected"}
         \/ \E i \in 1 .. Len(wire) : wire[i].kind \in {"garbage", "error", "failed"}
         \/ \E t \in Tools : ~ WellFormed(t)

(* The task never waits for ever for a place in the channel, also not when *)
(* the call failed or was dropped, and a call returns once its task has    *)
(* ended: so a call ends with its connection, and a cancelled one leaves   *)
(* no task behind that has something to say (run_stream).                  *)
CallEnds ==
    /\ (task \notin {"posting", "reading"}) ~> (task \in {"reading", "done"})
    /\ (task = "done") ~> (call # "folding")
============================================================================
