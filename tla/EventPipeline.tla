--------------------------- MODULE EventPipeline ---------------------------
(***************************************************************************)
(* What happens to the events of a Turn beside the session log:            *)
(* EventDispatcher::emit (agent-core/src/event) calls two hooks, each of   *)
(* which tries to put something into a bounded queue and never waits:      *)
(*                                                                         *)
(*   emit -> DeriveAgentEventHook -> queue -> log worker -> BufWriter -> file *)
(*        -> ProgressHook         -> queue -> progress worker -> observer    *)
(*                                                                         *)
(* The workers (agent/src/log, agent/src/progress.rs) are tasks of their   *)
(* own.  A flush asks a worker to finish what was queued before: the log's *)
(* travels over a second channel, the progress flush in the queue itself.  *)
(* Either hook is optional.  Agent::reload flushes the log and drops the   *)
(* Agent; dropping it closes all channels.                                 *)
(*                                                                         *)
(* An event is its kind, the model call it belongs to, and whether it is   *)
(* fine; records and progress events are positions in `script`, the events *)
(* emitted so far.  Payloads, previews and truncation are left out.        *)
(***************************************************************************)
EXTENDS Integers, Sequences, FiniteSets, SequencesExt

CONSTANTS
    Configurations,  \* policy (DiagnosticPersistence), whether there is a progress
                     \* observer, and the bound on the events emitted with them
    LogPlaces,       \* AGENT_EVENT_LOG_QUEUE_CAPACITY
    ProgressPlaces,  \* PROGRESS_QUEUE_CAPACITY
    MaxFaults        \* bound: failed writes, and workers that die

ASSUME PlacesArePositive == {LogPlaces, ProgressPlaces} \subseteq Nat \ {0}
ASSUME ConfigurationsAreKnown ==
    Configurations \subseteq [policy : {"off", "errors", "normal", "debug"},
                              progress : BOOLEAN, events : Nat]
ASSUME FaultsAreNatural == MaxFaults \in Nat

VARIABLES
    config,    \* the configuration of the Agent
    script,    \* the events emitted, in order
    prev,      \* kind of the last event of this Turn
    calls,     \* number of model calls started
    agent,     \* "up" until the Agent is dropped
    log,       \* queue, status and worker of the event log
    written,   \* what the BufWriter was given: pieces of lines
    durable,   \* how many of them are known to be in the file
    progress,  \* queue, status and worker of the progress events
    seen,      \* what the observer was notified of
    flush,     \* the flush in progress, of either worker
    faults

vars == <<config, script, prev, calls, agent, log, written, durable, progress, seen, flush, faults>>

None == 0
policy == config.policy
Event(kind, call, ok) == [kind |-> kind, call |-> call, ok |-> ok]

(* One of the flushes of the Agent: which, and what had been accepted.     *)
NoFlush == [of |-> "none", state |-> "none", covers |-> {}]

Init ==
    /\ config \in Configurations
    /\ script = << >> /\ prev = "turn_ended" /\ calls = 0 /\ agent = "up"
    /\ log \in [state : IF policy = "off" THEN {"running"} ELSE {"running", "stopped"},
                dropped : {0}, lost : {{}}, accepted : {{}}, queue : {<< >>},
                command : {FALSE}, next_seq : {0}, pc : {"ready"}]
    /\ written = << >> /\ durable = 0
    /\ progress = [state |-> "running", dropped |-> 0, resync |-> FALSE, accepted |-> {},
                   queue |-> << >>, pending |-> None, held |-> None, active |-> None,
                   pc |-> "ready"]
    /\ seen = << >> /\ flush = NoFlush /\ faults = 0

(* A log that could not be opened: AgentEventLogHandle::failed.            *)
LogFailed == log.state = "stopped" /\ log.pc = "ready"

-----------------------------------------------------------------------------
(* The hooks.                                                              *)

(* derive_agent_event gives a record of every kind of event but an update  *)
(* in which there is nothing yet (message_update_mapping).                 *)
message_update_mapping(ev) == ev.ok
derive_agent_event(ev) == ev.kind = "update" => message_update_mapping(ev)

is_error_record(ev) == ev.kind \in {"llm_ended", "tool_result"} /\ ~ ev.ok

should_persist(ev) ==
    CASE policy = "off" -> FALSE
      [] policy = "errors" -> is_error_record(ev)
      [] policy = "normal" -> ev.kind # "update"
      [] policy = "debug" -> TRUE

(* QueuedAgentEventRecorder::append.  A log that is stopped takes nothing  *)
(* and says nothing; a full queue drops the record and counts it.          *)
Recorded(ev) == derive_agent_event(ev) /\ should_persist(ev) /\ log.state # "stopped"

LogAfter(ev, i) ==
    CASE ~ Recorded(ev) -> log
      [] Recorded(ev) /\ log.pc = "dead" -> [log EXCEPT !.state = "stopped"]
      [] Recorded(ev) /\ log.pc # "dead" /\ Len(log.queue) < LogPlaces ->
           [log EXCEPT !.queue = Append(@, i), !.accepted = @ \union {i}]
      [] OTHER -> [log EXCEPT !.state = "degraded", !.dropped = @ + 1]

(* derive_progress: the call a later update must belong to, and whether    *)
(* the event makes progress at all.                                        *)
ActiveAfter(ev) ==
    CASE ev.kind = "llm_started" -> ev.call
      [] ev.kind = "llm_ended" /\ ev.call = progress.active -> None
      [] OTHER -> progress.active

MakesProgress(ev) ==
    /\ config.progress /\ ev.kind # "user_prompt"
    /\ ev.kind = "update" => ev.call = progress.active

(* ProgressHook::enqueue.                                                  *)
ProgressAfter(ev, i) ==
    LET p == [progress EXCEPT !.active = ActiveAfter(ev)] IN
    CASE ~ MakesProgress(ev) -> p
      [] MakesProgress(ev) /\ progress.pc = "dead" ->
           [p EXCEPT !.state = "stopped", !.resync = TRUE]
      [] MakesProgress(ev) /\ progress.pc # "dead" /\ Len(p.queue) < ProgressPlaces ->
           [p EXCEPT !.queue = Append(@, i), !.accepted = @ \union {i}]
      [] OTHER -> [p EXCEPT !.state = "degraded", !.dropped = @ + 1, !.resync = TRUE]

(* Errors of a hook are contained.                                         *)
HooksRun(ev, i) == log' = LogAfter(ev, i) /\ progress' = ProgressAfter(ev, i)

(* The order in which AgentLoop::turn emits: what may follow `prev`.       *)
Following ==
    CASE prev = "turn_ended" -> {Event("turn_started", None, TRUE)}
      [] prev = "turn_started" -> {Event("user_prompt", None, TRUE)}
      [] prev \in {"user_prompt", "tool_result", "llm_failed"} ->
           {Event("llm_started", calls + 1, TRUE)}
      [] prev \in {"llm_started", "update"} ->
           {Event(kind, calls, ok) : kind \in {"update", "llm_ended"}, ok \in BOOLEAN}
      [] prev = "llm_ended" -> {Event("final", calls, TRUE)}
      [] prev = "final" -> {Event(kind, None, TRUE) : kind \in {"turn_ended", "tool_use"}}
      [] prev = "tool_use" -> {Event("tool_result", None, ok) : ok \in BOOLEAN}

(* EventDispatcher::emit, for an event whose commit, if any, succeeded.    *)
(* The Turn owns the Agent, so no flush is being awaited.                  *)
emit(ev) ==
    /\ agent = "up" /\ flush.of = "none" /\ Len(script) < config.events
    /\ script' = Append(script, ev)
    /\ prev' = IF ev.kind = "llm_ended" /\ ~ ev.ok THEN "llm_failed" ELSE ev.kind
    /\ calls' = IF ev.kind = "llm_started" THEN ev.call ELSE calls
    /\ HooksRun(ev, Len(script) + 1)
    /\ UNCHANGED <<config, agent, written, durable, seen, flush, faults>>

(* A commit that fails returns before the hooks and ends the Turn; so does *)
(* a cancellation between two events, or an error with no attempt left.    *)
turn_breaks ==
    /\ agent = "up" /\ flush.of = "none" /\ prev \notin {"turn_ended", "llm_started", "update"}
    /\ prev' = "turn_ended"
    /\ UNCHANGED <<config, script, calls, agent, log, written, durable, progress, seen, flush, faults>>

-----------------------------------------------------------------------------
(* FileAgentEventRecorder.  writeln! hands the line and its newline to a   *)
(* BufWriter, which keeps what it could not write: a failed append leaves  *)
(* nothing, a part of the line, or the line without its newline behind,    *)
(* and never takes its number.                                             *)

Piece(i, whole, ends) == [rec |-> i, seq |-> log.next_seq, whole |-> whole, ends |-> ends]

(* Mutant: the number is taken before the line is written.                 *)
append_fails_numbered(i, left) ==
    /\ faults < MaxFaults /\ faults' = faults + 1
    /\ written' = written \o left
    /\ log' = [log EXCEPT !.queue = Tail(@), !.lost = @ \union {i}, !.next_seq = @ + 1]

append_ok(i) ==
    /\ written' = Append(written, Piece(i, TRUE, TRUE))
    /\ log' = [log EXCEPT !.queue = Tail(@), !.next_seq = @ + 1]
    /\ UNCHANGED faults

append_fails(i, left) ==
    /\ faults < MaxFaults /\ faults' = faults + 1
    /\ written' = written \o left
    /\ log' = [log EXCEPT !.queue = Tail(@), !.lost = @ \union {i}, !.state = "degraded"]

append(i) ==
    \/ append_ok(i)
    \/ \E left \in {<< >>, <<Piece(i, FALSE, FALSE)>>, <<Piece(i, TRUE, FALSE)>>} :
         append_fails(i, left)

-----------------------------------------------------------------------------
(* run_worker of the log.  Commands come first; a flush, and the end of    *)
(* the commands, drain the queue record by record.                         *)

LogAlive == log.pc # "dead" /\ ~ LogFailed /\ policy # "off"

log_takes ==
    /\ LogAlive /\ log.queue # << >>
    /\ log.pc = "ready" => ~ log.command /\ agent = "up"
    /\ append(Head(log.queue))
    /\ UNCHANGED <<config, script, prev, calls, agent, durable, progress, seen, flush>>

(* Mutant: a flush writes out the buffer and leaves the queue alone.       *)
log_flushes_buffer_only ==
    /\ LogAlive /\ log.pc = "draining" /\ UNCHANGED written
    /\ durable' = Len(written)
    /\ log' = [log EXCEPT !.pc = "ready"]
    /\ flush' = IF flush.of = "log" THEN [flush EXCEPT !.state = "ok"] ELSE flush
    /\ UNCHANGED <<config, script, prev, calls, agent, progress, seen, faults>>

log_command ==
    /\ LogAlive /\ log.pc = "ready" /\ log.command
    /\ log' = [log EXCEPT !.command = FALSE, !.pc = "draining"]
    /\ UNCHANGED <<config, script, prev, calls, agent, written, durable, progress, seen, flush, faults>>

log_flushes ==
    /\ LogAlive /\ log.pc = "draining" /\ log.queue = << >> /\ UNCHANGED written
    /\ \/ /\ durable' = Len(written) /\ UNCHANGED faults
          /\ log' = [log EXCEPT !.pc = "ready"]
          /\ flush' = IF flush.of = "log" THEN [flush EXCEPT !.state = "ok"] ELSE flush
       \/ /\ faults < MaxFaults /\ faults' = faults + 1 /\ UNCHANGED durable
          /\ log' = [log EXCEPT !.pc = "ready", !.state = "degraded"]
          /\ flush' = IF flush.of = "log" THEN [flush EXCEPT !.state = "failed"] ELSE flush
    /\ UNCHANGED <<config, script, prev, calls, agent, progress, seen>>

log_closed ==
    /\ LogAlive /\ log.pc = "ready" /\ ~ log.command /\ agent = "down"
    /\ log' = [log EXCEPT !.pc = "closing"]
    /\ UNCHANGED <<config, script, prev, calls, agent, written, durable, progress, seen, flush, faults>>

(* Mutant: the end of the commands does not drain the queue.               *)
log_ends_undrained ==
    /\ LogAlive /\ log.pc = "closing"
    /\ \/ durable' = Len(written) /\ UNCHANGED faults
       \/ faults < MaxFaults /\ faults' = faults + 1 /\ UNCHANGED durable
    /\ log' = [log EXCEPT !.pc = "dead", !.state = "stopped", !.queue = << >>]
    /\ UNCHANGED <<config, script, prev, calls, agent, written, progress, seen, flush>>

(* The flush at the end may fail too; the state is Stopped either way.     *)
log_ends ==
    /\ LogAlive /\ log.pc = "closing" /\ log.queue = << >>
    /\ \/ durable' = Len(written) /\ UNCHANGED faults
       \/ faults < MaxFaults /\ faults' = faults + 1 /\ UNCHANGED durable
    /\ log' = [log EXCEPT !.pc = "dead", !.state = "stopped"]
    /\ UNCHANGED <<config, script, prev, calls, agent, written, progress, seen, flush>>

(* The task panics or its runtime is shut down: what is queued is gone.    *)
log_dies ==
    /\ LogAlive /\ faults < MaxFaults /\ faults' = faults + 1
    /\ log' = [log EXCEPT !.pc = "dead", !.lost = @ \union ToSet(log.queue),
                          !.queue = << >>, !.command = FALSE]
    /\ UNCHANGED <<config, script, prev, calls, agent, written, durable, progress, seen, flush>>

-----------------------------------------------------------------------------
(* run_worker of the progress events.  A snapshot is held while the next   *)
(* command is a snapshot of the same call; another command becomes         *)
(* `pending`.  A flush is a command in the queue, here 0.                  *)

Flush == 0
IsSnapshot(c) == c # Flush /\ script[c].kind = "update"
SameCall(c, d) == IsSnapshot(c) /\ script[c].call = script[d].call

ProgressAlive == progress.pc # "dead" /\ config.progress

(* notify_observer; an observer that fails degrades the status.            *)
Notified(i, p) ==
    /\ seen' = Append(seen, i)
    /\ \/ progress' = p /\ UNCHANGED faults
       \/ /\ faults < MaxFaults /\ faults' = faults + 1
          /\ progress' = [p EXCEPT !.state = IF @ = "stopped" THEN @ ELSE "degraded"]

Handled(c, p) ==
    IF IsSnapshot(c)
    THEN progress' = [p EXCEPT !.held = c] /\ UNCHANGED <<seen, flush, faults>>
    ELSE Notified(c, p) /\ UNCHANGED flush

Acked(p) ==
    /\ progress' = p /\ UNCHANGED <<seen, faults>>
    /\ flush' = IF flush.of = "progress" THEN [flush EXCEPT !.state = "ok"] ELSE flush

(* The next command is the one put aside, or the first of the queue.       *)
progress_takes ==
    /\ ProgressAlive /\ progress.held = None /\ progress.pc = "ready"
    /\ progress.queue # << >>
    /\ LET c == Head(progress.queue)
           p == [progress EXCEPT !.queue = Tail(@)]
       IN  IF c = Flush THEN Acked(p) ELSE Handled(c, p)
    /\ UNCHANGED <<config, script, prev, calls, agent, log, written, durable>>

progress_takes_pending ==
    /\ ProgressAlive /\ progress.pc = "pending"
    /\ LET c == progress.pending
           p == [progress EXCEPT !.pending = None, !.pc = "ready"]
       IN  IF c = Flush THEN Acked(p) ELSE Handled(c, p)
    /\ UNCHANGED <<config, script, prev, calls, agent, log, written, durable>>

progress_coalesces ==
    /\ ProgressAlive /\ progress.held # None
    /\ IF progress.queue = << >>
         THEN Notified(progress.held, [progress EXCEPT !.held = None])
         ELSE LET c == Head(progress.queue)
                  p == [progress EXCEPT !.queue = Tail(@)]
              IN  IF SameCall(c, progress.held)
                  THEN progress' = [p EXCEPT !.held = c] /\ UNCHANGED <<seen, faults>>
                  ELSE Notified(progress.held,
                                [p EXCEPT !.held = None, !.pending = c, !.pc = "pending"])
    /\ UNCHANGED <<config, script, prev, calls, agent, log, written, durable, flush>>

progress_ends ==
    /\ ProgressAlive /\ agent = "down" /\ progress.pc = "ready"
    /\ progress.queue = << >> /\ progress.held = None
    /\ progress' = [progress EXCEPT !.pc = "dead", !.state = "stopped", !.resync = TRUE]
    /\ UNCHANGED <<config, script, prev, calls, agent, log, written, durable, seen, flush, faults>>

(* The observer panics on the worker's task.                               *)
progress_dies ==
    /\ ProgressAlive /\ faults < MaxFaults /\ faults' = faults + 1
    /\ progress' = [progress EXCEPT !.pc = "dead", !.queue = << >>, !.held = None, !.pending = None]
    /\ UNCHANGED <<config, script, prev, calls, agent, log, written, durable, seen, flush>>

-----------------------------------------------------------------------------
(* The Agent.                                                              *)

(* flush_agent_event_log; the failed log has no worker to ask.             *)
flush_agent_event_log ==
    /\ agent = "up" /\ flush.of = "none" /\ policy # "off" /\ prev = "turn_ended"
    /\ IF LogFailed \/ log.pc = "dead"
         THEN /\ flush' = [of |-> "log", state |-> "failed", covers |-> {}]
              /\ log' = [log EXCEPT !.state = "stopped"]
         ELSE /\ flush' = [of |-> "log", state |-> "sent", covers |-> log.accepted]
              /\ log' = [log EXCEPT !.command = TRUE]
    /\ UNCHANGED <<config, script, prev, calls, agent, written, durable, progress, seen, faults>>

(* flush_progress waits for a place in the queue like any sender.          *)
flush_progress ==
    /\ agent = "up" /\ flush.of = "none" /\ prev = "turn_ended" /\ config.progress
    /\ IF progress.pc = "dead"
         THEN /\ flush' = [of |-> "progress", state |-> "failed", covers |-> {}]
              /\ progress' = [progress EXCEPT !.state = "stopped", !.resync = TRUE]
         ELSE /\ Len(progress.queue) < ProgressPlaces
              /\ flush' = [of |-> "progress", state |-> "sent", covers |-> progress.accepted]
              /\ progress' = [progress EXCEPT !.queue = Append(@, Flush)]
    /\ UNCHANGED <<config, script, prev, calls, agent, log, written, durable, seen, faults>>

(* The worker is gone: the acknowledgement never comes, and that is known. *)
flush_unanswered ==
    /\ flush.state = "sent"
    /\ \/ /\ flush.of = "log" /\ log.pc = "dead"
          /\ log' = [log EXCEPT !.state = "stopped"] /\ UNCHANGED progress
       \/ /\ flush.of = "progress" /\ progress.pc = "dead"
          /\ progress' = [progress EXCEPT !.state = "stopped", !.resync = TRUE] /\ UNCHANGED log
    /\ flush' = [flush EXCEPT !.state = "failed"]
    /\ UNCHANGED <<config, script, prev, calls, agent, written, durable, seen, faults>>

flush_returns ==
    /\ flush.state \in {"ok", "failed"} /\ flush' = NoFlush
    /\ UNCHANGED <<config, script, prev, calls, agent, log, written, durable, progress, seen, faults>>

(* reload goes on only after a log flush that worked; its last step drops  *)
(* the old loop and handles.  The new ones start as these did.             *)
reload ==
    /\ agent = "up" /\ agent' = "down"
    /\ \/ flush.of = "log" /\ flush.state = "ok"
       \/ flush.of = "none" /\ policy = "off"
    /\ flush' = NoFlush
    /\ UNCHANGED <<config, script, prev, calls, log, written, durable, progress, seen, faults>>

(* The host drops the Agent, a flush and the Turn in progress with it.     *)
drop_agent ==
    /\ agent = "up" /\ agent' = "down" /\ flush' = NoFlush
    /\ UNCHANGED <<config, script, prev, calls, log, written, durable, progress, seen, faults>>

take_resync_required ==
    /\ agent = "up" /\ progress.resync
    /\ progress' = [progress EXCEPT !.resync = FALSE]
    /\ UNCHANGED <<config, script, prev, calls, agent, log, written, durable, seen, flush, faults>>

-----------------------------------------------------------------------------
LogWorker == log_takes \/ log_command \/ log_flushes \/ log_closed \/ log_ends
ProgressWorker == progress_takes \/ progress_takes_pending \/ progress_coalesces \/ progress_ends

Next ==
    \/ \E ev \in Following : emit(ev)
    \/ turn_breaks \/ flush_agent_event_log \/ flush_progress \/ flush_unanswered
    \/ flush_returns \/ reload \/ drop_agent \/ take_resync_required
    \/ LogWorker \/ log_dies \/ ProgressWorker \/ progress_dies

Spec == Init /\ [][Next]_vars

(* The runtime polls a worker that has something to do, and a caller whose *)
(* acknowledgement can no longer come.                                     *)
FairSpec ==
    Spec /\ WF_vars(LogWorker) /\ WF_vars(ProgressWorker) /\ WF_vars(flush_unanswered)

-----------------------------------------------------------------------------
(* A piece is read back as a record when it is a whole line of its own.    *)
Readable(k) ==
    /\ written[k].whole
    /\ k > 1 => written[k-1].ends
    /\ k < Len(written) => written[k].ends

Written(n) == {written[k].rec : k \in 1 .. n}

(* The observer knows of event i: it was notified of it, or of a newer     *)
(* snapshot of the same call.                                              *)
Known(i) ==
    \E k \in 1 .. Len(seen) :
      seen[k] = i \/ (seen[k] > i /\ IsSnapshot(i) /\ SameCall(seen[k], i))

Kinds == {"turn_started", "user_prompt", "llm_started", "update", "llm_ended", "final",
          "tool_use", "tool_result", "turn_ended"}
States == {"running", "degraded", "stopped"}
Events == [kind : Kinds, call : Nat, ok : BOOLEAN]
Positions == 1 .. Len(script)
Pieces == [rec : Positions, seq : Nat, whole : BOOLEAN, ends : BOOLEAN]
Logs == [state : States, dropped : Nat, lost : SUBSET Positions, accepted : SUBSET Positions,
         queue : Seq(Positions), command : BOOLEAN, next_seq : Nat,
         pc : {"ready", "draining", "closing", "dead"}]
Progresses ==
    [state : States, dropped : Nat, resync : BOOLEAN, accepted : SUBSET Positions,
     queue : Seq(Positions \union {Flush}), pending : Positions \union {None, Flush},
     held : Positions \union {None}, active : Nat, pc : {"ready", "pending", "dead"}]
Flushes == [of : {"none", "log", "progress"}, state : {"none", "sent", "ok", "failed"},
            covers : SUBSET Positions]

(* The types; no queue exceeds its places, and neither a number nor a      *)
(* place in the file is ahead of what was written.                         *)
TypeOK ==
    /\ config \in Configurations /\ script \in Seq(Events) /\ Len(script) <= config.events
    /\ prev \in Kinds \union {"llm_failed"} /\ calls \in Nat /\ agent \in {"up", "down"}
    /\ log \in Logs /\ Len(log.queue) <= LogPlaces /\ log.next_seq <= Len(written)
    /\ written \in Seq(Pieces) /\ durable \in 0 .. Len(written)
    /\ progress \in Progresses /\ Len(progress.queue) <= ProgressPlaces
    /\ seen \in Seq(Positions) /\ flush \in Flushes /\ faults \in 0 .. MaxFaults

(* When a flush reports success, what was accepted before it was sent is   *)
(* where it belongs. Log: every record is in the file, except those whose  *)
(* own append failed, although the flush comes over another channel than   *)
(* the records. Progress: the observer knows of every event, in order;     *)
(* coalescing and the command it puts aside lose nothing.                  *)
FlushMeansDone ==
    /\ flush.of = "log" /\ flush.state = "ok" =>
         flush.covers \ log.lost \subseteq Written(durable)
    /\ flush.of = "progress" /\ flush.state = "ok" => \A i \in flush.covers : Known(i)
    /\ \A j, k \in 1 .. Len(seen) : j < k => seen[j] < seen[k]

(* What can be read back from the file is in the order of emission, under  *)
(* numbers that only grow, although a failed write leaves bytes behind and *)
(* its number is used again; while the log calls itself running, every     *)
(* record taken from the queue can be read, numbered without a gap. And an *)
(* event that makes progress and did not get into the progress queue shows *)
(* in its status, also when the hook of the log failed on it.              *)
LossesAreTold ==
    /\ \A j, k \in 1 .. Len(written) :
         j < k /\ Readable(j) /\ Readable(k) =>
           written[j].seq < written[k].seq /\ written[j].rec < written[k].rec
    /\ log.state = "running" /\ log.pc # "dead" =>
         /\ \A k \in 1 .. Len(written) : Readable(k) /\ written[k].seq = k - 1
         /\ log.accepted = Written(Len(written)) \union ToSet(log.queue)
    /\ (\E i \in 1 .. Len(script) :
           config.progress /\ script[i].kind # "user_prompt" /\ i \notin progress.accepted)
         => progress.state # "running"

(* An awaited flush is answered, by the worker or by its absence, and the  *)
(* workers of an Agent that was dropped hand over everything they had      *)
(* accepted and end, if nothing fails on the way.                          *)
WorkersFinish ==
    /\ flush.state = "sent" ~> flush.state # "sent"
    /\ agent = "down" ~>
         /\ ~ ProgressAlive /\ (log.pc = "dead" \/ ~ LogAlive)
         /\ faults = 0 => /\ \A i \in progress.accepted : Known(i)
                          /\ log.accepted \subseteq Written(durable)
=============================================================================
