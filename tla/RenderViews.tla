---------------------------- MODULE RenderViews ----------------------------
(***************************************************************************)
(* The frontend's projection of the host (projection/renderState.ts): a    *)
(* RenderState is a record, reduceEvent and replaceSnapshot are operators  *)
(* on it.  Kept are the parts that events and snapshots both write:        *)
(* assistant messages by their call, drafts, tools, the run state and the  *)
(* delivery cursor.  Left out: texts, notices, approvals, announcements,   *)
(* and the epoch (one generation is modelled here).                        *)
(*                                                                         *)
(* A session item is <<"assistant", c>>, <<"tool_call", t>> or             *)
(* <<"tool_result", t>>; the payloads are those of EventBuffers, where a   *)
(* closing payload is an AssistantFinalized (the fold does nothing with    *)
(* the end of a failed call).                                              *)
(***************************************************************************)
EXTENDS Integers, Sequences, SequencesExt

CONSTANTS ToolIds   \* tool_use_ids

EmptyView ==
    [messages |-> <<>>, assistantDrafts |-> {}, finalizedCalls |-> {},
     tools |-> [t \in ToolIds |-> "none"], run |-> "idle",
     lastSeq |-> 0, resyncRequired |-> FALSE]

RequestResync(v) == [state |-> [v EXCEPT !.resyncRequired = TRUE], result |-> "resync_required"]
Applied(v) == [state |-> v, result |-> "applied"]
Ignored(v) == [state |-> v, result |-> "ignored"]

(* The body of reduceEvent, after acceptEventIdentity let the event in.    *)
Fold(v, p) ==
    CASE p.kind = "resync" ->
           RequestResync(v)
      [] p.kind = "state" ->
           Applied([v EXCEPT !.run = p.body])
      [] p.kind = "snapshot" ->
           IF p.call \in v.finalizedCalls THEN Ignored(v)
           ELSE Applied([v EXCEPT !.assistantDrafts = @ \cup {p.call}])
      [] p.kind = "closing" ->
           IF p.call \in v.finalizedCalls THEN Ignored(v)
           ELSE Applied([v EXCEPT !.assistantDrafts = @ \ {p.call},
                                  !.messages = Append(@, p.call),
                                  !.finalizedCalls = @ \cup {p.call}])
      [] p.kind = "control" /\ p.body[1] = "tool_call" ->
           Applied([v EXCEPT !.tools[p.body[2]] = "called", !.run = "running"])
      [] p.kind = "control" /\ p.body[1] = "tool_result" ->
           IF v.tools[p.body[2]] = "none" THEN RequestResync(v)
           ELSE Applied([v EXCEPT !.tools[p.body[2]] = "done"])
      [] p.kind = "control" /\ p.body[1] = "turn_completed" ->
           Applied([v EXCEPT !.run = "idle"])

(* reduceEvent of an envelope of the current epoch, acceptEventIdentity    *)
(* included: an old number is ignored, a gap asks for a resync and leaves  *)
(* the cursor, the next number moves it.                                   *)
Reduce(v, e) ==
    IF e.seq <= v.lastSeq THEN Ignored(v)
    ELSE IF e.seq # v.lastSeq + 1 THEN RequestResync(v)
    ELSE Fold([v EXCEPT !.lastSeq = e.seq], e.payload)

MessagesOf(log) ==
    LET IsAssistant(i) == i[1] = "assistant"
        kept == SelectSeq(log, IsAssistant)
    IN  [n \in DOMAIN kept |-> kept[n][2]]

ToolsOf(log) ==
    [t \in ToolIds |->
        CASE Contains(log, <<"tool_result", t>>) -> "done"
          [] Contains(log, <<"tool_call", t>>)   -> "called"
          [] OTHER                               -> "none"]

(* Mutant: drafts all survive.                                             *)
ReplaceSnapshot_all_drafts(v, s) ==
    [messages |-> MessagesOf(s.session), tools |-> ToolsOf(s.session),
     assistantDrafts |-> v.assistantDrafts,
     finalizedCalls |-> {}, run |-> s.state,
     lastSeq |-> s.last_delivered_seq, resyncRequired |-> FALSE]

(* replaceSnapshot: the host's facts replace the view's; of the drafts,    *)
(* those of calls the host still counts as active survive; the calls known *)
(* to be finalized are forgotten.                                          *)
ReplaceSnapshot(v, s) ==
    [messages |-> MessagesOf(s.session), tools |-> ToolsOf(s.session),
     assistantDrafts |-> v.assistantDrafts \cap s.active_assistant_calls,
     finalizedCalls |-> {}, run |-> s.state,
     lastSeq |-> s.last_delivered_seq, resyncRequired |-> FALSE]

IsTerminal(e) == e.payload.kind = "control" /\ e.payload.body[1] = "turn_completed"

(* The replay loop of establishSnapshot: the buffered envelopes are folded *)
(* in order up to the first that asks for a resync; a terminal event that  *)
(* was applied asks for another snapshot.                                  *)
Replay(v, events) ==
    LET after[n \in 0 .. Len(events)] ==
          IF n = 0 THEN [state |-> v, gap |-> FALSE, refresh |-> FALSE]
          ELSE LET before == after[n - 1]
                   out    == Reduce(before.state, events[n])
               IN  IF before.gap THEN before
                   ELSE [state |-> out.state,
                         gap |-> out.result = "resync_required",
                         refresh |-> \/ before.refresh
                                     \/ out.result = "applied" /\ IsTerminal(events[n])]
    IN  after[Len(events)]
=============================================================================
