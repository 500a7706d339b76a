-------------------------- MODULE DesktopDelivery --------------------------
(***************************************************************************)
(* How what one Turn does becomes what the window shows.  The Turn commits *)
(* items to the session log and tells the progress worker; the worker and  *)
(* the host actor publish to the EventBuffer; the forwarder carries        *)
(* envelopes over the wire, in order; the DesktopController folds them     *)
(* into its RenderState, and asks the host for a snapshot when an envelope *)
(* says that something is missing or that the Turn is over.                *)
(*                                                                         *)
(* Events and snapshot replies travel separately: a reply may overtake     *)
(* envelopes that were received from the buffer before it was computed,    *)
(* and envelopes may overtake the reply.  The actor computes a snapshot in *)
(* four critical sections, see EventStream.                                *)
(***************************************************************************)
EXTENDS EventBuffers, RenderViews

CONSTANTS
    Script,     \* what the Turn does: a sequence of <<"draft", call>> and of
                \* the items it commits
    WireCap,    \* bound: envelopes between the forwarder and the window
    BufferCap,  \* eventBufferCapacity of the controller
    MaxSeq      \* bound on sequence numbers: recv inserts no marker beyond

ASSUME BoundsAreNumbers == {WireCap, BufferCap, MaxSeq} \subseteq Nat

VARIABLES
    pos,        \* steps of Script the Turn has taken
    log,        \* the session item log
    pipe,       \* the progress worker's queue, and the payload it still has
    unsent,     \* ... to publish after the state it has just published
    turn,       \* the actor's side of the Turn: active, joined, reported, over
    state,      \* shared_state, written by actor and worker
    buf,        \* the EventBuffer
    wire,       \* forwarder -> window
    query,      \* the snapshot command: none, asked, loaded, status,
                \* acknowledged, state, replied
    draft,      \* the snapshot being computed, or the reply on its way
    view, connection, snapshotPending, bufferedEvents,  \* the controller
    lost        \* history: the EventBuffer refused or evicted a payload

host == <<pos, log, pipe, unsent, turn, state>>
window == <<view, connection, snapshotPending, bufferedEvents>>
vars == <<host, buf, lost, wire, query, draft, window>>

NoPayload == [kind |-> "none"]
NoSnapshot ==
    [session |-> <<>>, last_delivered_seq |-> 0, state |-> "idle",
     active_assistant_calls |-> {}]

(* A Turn was just accepted in a session whose baseline is established.    *)
Init ==
    /\ pos = 0 /\ log = <<>> /\ pipe = <<>> /\ unsent = NoPayload
    /\ turn = "active" /\ state = "thinking"
    /\ buf = Publish(EmptyBuffer, StateChanged("thinking"))
    /\ wire = <<>> /\ query = "none" /\ draft = NoSnapshot /\ lost = FALSE
    /\ view = EmptyView
    /\ connection = "ready" /\ snapshotPending = FALSE /\ bufferedEvents = <<>>

-----------------------------------------------------------------------------
(* The Turn: an item is committed before its event is enqueued, and no     *)
(* snapshot can tell the two instants apart from a worker that is slow.    *)
(* The worker's queue has room for the whole Turn; the events that open    *)
(* and close Turns and model calls are left out.                           *)

Published(p) ==
    /\ buf' = Publish(buf, p)
    /\ lost' = (lost \/ Evicts(buf, p) \/ Refuses(buf, p))

ProgressOf(step) ==
    CASE step[1] = "draft"     -> ResponseSnapshot(step[2], 0)
      [] step[1] = "assistant" -> CallClosed(step[2], "finalized")
      [] OTHER                 -> Control(step)

TurnStep ==
    /\ turn = "active" /\ pos < Len(Script)
    /\ LET step == Script[pos + 1]
       IN  /\ pos' = pos + 1
           /\ log' = IF step[1] = "draft" THEN log ELSE Append(log, step)
           /\ pipe' = Append(pipe, ProgressOf(step))
    /\ UNCHANGED <<unsent, turn, state, buf, lost, wire, query, draft, window>>

(* run_worker and on_progress: a tool call is preceded by its run state.   *)
WorkerTake ==
    /\ unsent = NoPayload /\ pipe # <<>>
    /\ LET p == Head(pipe)
           same(q) == IsSnapshot(q) /\ q.call = p.call
           run == IF IsSnapshot(p)
                    THEN {n \in 1 .. Len(pipe) : \A m \in 1 .. n : same(pipe[m])}
                    ELSE {1}
           taken == CHOOSE n \in run : \A m \in run : m <= n
           states == p.kind = "control" /\ p.body[1] = "tool_call"
       IN  /\ pipe' = SubSeq(pipe, taken + 1, Len(pipe))
           /\ unsent' = pipe[taken]
           /\ state' = IF states THEN "running" ELSE state
           /\ IF states THEN Published(StateChanged("running")) ELSE UNCHANGED <<buf, lost>>
    /\ UNCHANGED <<pos, log, turn, wire, query, draft, window>>

WorkerPublish ==
    /\ unsent # NoPayload
    /\ Published(unsent)
    /\ unsent' = NoPayload
    /\ UNCHANGED <<pos, log, pipe, turn, state, wire, query, draft, window>>

(* finish_turn: the actor joins the Turn between two commands, sets the    *)
(* state and publishes the outcome, then the state.                        *)
ActorFree == query \in {"none", "asked", "replied"}

FinishTurn ==
    /\ turn = "active" /\ pos = Len(Script) /\ ActorFree
    /\ turn' = "reported"
    /\ state' = "idle"
    /\ Published(Control(<<"turn_completed", 0>>))
    /\ UNCHANGED <<pos, log, pipe, unsent, wire, query, draft, window>>

FinishTurnState ==
    /\ turn = "reported"
    /\ turn' = "over"
    /\ Published(StateChanged("idle"))
    /\ UNCHANGED <<pos, log, pipe, unsent, state, wire, query, draft, window>>

-----------------------------------------------------------------------------
(* forward_events.                                                         *)

Forward ==
    /\ CanRecv(buf) /\ Len(wire) < WireCap
    /\ Marked(buf).next_seq <= MaxSeq + 1 \/ Marked(buf) = buf
    /\ wire' = Append(wire, Received(buf))
    /\ buf' = AfterRecv(buf)
    /\ UNCHANGED <<host, lost, query, draft, window>>

(* HostActor::snapshot, one critical section at a time.                    *)
SnapshotLoad ==
    /\ query = "asked" /\ turn \in {"active", "over"}
    /\ query' = "loaded"
    /\ draft' = [draft EXCEPT !.session = log]
    /\ UNCHANGED <<host, buf, lost, wire, window>>

SnapshotStatus ==
    /\ query = "loaded"
    /\ query' = "status"
    /\ draft' = [draft EXCEPT !.last_delivered_seq = buf.last_delivered_seq]
    /\ UNCHANGED <<host, buf, lost, wire, window>>

SnapshotAcknowledge ==
    /\ query = "status"
    /\ query' = "acknowledged"
    /\ buf' = Acknowledged(buf)
    /\ UNCHANGED <<host, lost, wire, draft, window>>

SnapshotState ==
    /\ query = "acknowledged"
    /\ query' = "state"
    /\ draft' = [draft EXCEPT !.state = state]
    /\ UNCHANGED <<host, buf, lost, wire, window>>

SnapshotReply ==
    /\ query = "state"
    /\ query' = "replied"
    /\ draft' = [draft EXCEPT !.active_assistant_calls = buf.active_assistant_calls]
    /\ UNCHANGED <<host, buf, lost, wire, window>>

-----------------------------------------------------------------------------
(* The DesktopController.                                                  *)

Disconnect ==
    /\ connection' = "disconnected"
    /\ snapshotPending' = FALSE
    /\ bufferedEvents' = <<>>

(* bufferEvent.                                                            *)
Overflows == Len(bufferedEvents) >= BufferCap
Buffer(e) == bufferedEvents' = Append(bufferedEvents, e)

BeginSnapshot == snapshotPending' = TRUE /\ query' = "asked"

(* receiveEnvelope.                                                        *)
ReceiveDisconnected ==
    /\ connection = "disconnected"
    /\ UNCHANGED <<query, window>>

ReceivePending(e) ==
    /\ connection = "ready" /\ snapshotPending
    /\ UNCHANGED <<query, view>>
    /\ IF Overflows THEN Disconnect
       ELSE Buffer(e) /\ UNCHANGED <<connection, snapshotPending>>

ReceiveTerminal(e) ==
    /\ connection = "ready" /\ ~snapshotPending /\ IsTerminal(e)
    /\ Buffer(e) /\ BeginSnapshot
    /\ UNCHANGED <<view, connection>>

ReceiveLive(e) ==
    /\ connection = "ready" /\ ~snapshotPending /\ ~IsTerminal(e)
    /\ LET out == Reduce(view, e)
       IN  /\ view' = out.state
           /\ IF out.result = "resync_required"
                THEN Buffer(e) /\ BeginSnapshot
                ELSE UNCHANGED <<bufferedEvents, snapshotPending, query>>
    /\ UNCHANGED connection

ReceiveEnvelope ==
    /\ wire # <<>>
    /\ wire' = Tail(wire)
    /\ LET e == Head(wire)
       IN  \/ ReceiveDisconnected
           \/ ReceivePending(e)
           \/ ReceiveTerminal(e)
           \/ ReceiveLive(e)
    /\ UNCHANGED <<host, buf, lost, draft>>

(* Mutant: the pending flag is not reset.                                  *)
EstablishSnapshot_still_pending ==
    /\ query = "replied"
    /\ LET out == Replay(ReplaceSnapshot(view, draft), bufferedEvents)
       IN  /\ view' = out.state
           /\ bufferedEvents' = <<>>
           /\ connection' = IF out.gap THEN "disconnected" ELSE connection
           /\ IF out.refresh /\ connection' = "ready"
                THEN BeginSnapshot
                ELSE UNCHANGED snapshotPending /\ query' = "none"
    /\ draft' = NoSnapshot
    /\ UNCHANGED <<host, buf, lost, wire>>

(* The rest of beginSnapshot once the reply is here.  A window that has    *)
(* disconnected in the meantime installs the reply all the same.           *)
EstablishSnapshot ==
    /\ query = "replied"
    /\ LET out == Replay(ReplaceSnapshot(view, draft), bufferedEvents)
       IN  /\ view' = out.state
           /\ bufferedEvents' = <<>>
           /\ connection' = IF out.gap THEN "disconnected" ELSE connection
           /\ IF out.refresh /\ connection' = "ready"
                THEN BeginSnapshot
                ELSE snapshotPending' = FALSE /\ query' = "none"
    /\ draft' = NoSnapshot
    /\ UNCHANGED <<host, buf, lost, wire>>

(* bridge.snapshot fails or is rejected (the log cannot be read).          *)
SnapshotFails ==
    /\ query = "asked" /\ turn \in {"active", "over"}
    /\ query' = "none"
    /\ IF connection = "ready" THEN Disconnect
       ELSE UNCHANGED <<connection, snapshotPending, bufferedEvents>>
    /\ UNCHANGED <<host, buf, lost, wire, draft, view>>

Progress ==
    \/ TurnStep \/ WorkerTake \/ WorkerPublish \/ FinishTurn \/ FinishTurnState
    \/ Forward
    \/ SnapshotLoad \/ SnapshotStatus \/ SnapshotAcknowledge \/ SnapshotState
    \/ SnapshotReply
    \/ ReceiveEnvelope \/ EstablishSnapshot

Next == Progress \/ SnapshotFails

Spec == Init /\ [][Next]_vars

(* As long as some task can go on, some task does: one scheduler polls     *)
(* them all.  That a snapshot fails is not promised.                       *)
FairSpec == Spec /\ WF_vars(Progress)

-----------------------------------------------------------------------------
(* Properties.                                                             *)

CallsOf == {Script[i][2] : i \in {j \in DOMAIN Script : Script[j][1] \in {"draft", "assistant"}}}

(* Types; the cursor of the window never runs ahead of the buffer's.       *)
TypeOK ==
    /\ pos \in 0 .. Len(Script) /\ Len(log) <= pos
    /\ turn \in {"active", "reported", "over"}
    /\ state \in {"thinking", "running", "idle"}
    /\ query \in {"none", "asked", "loaded", "status", "acknowledged", "state", "replied"}
    /\ connection \in {"ready", "disconnected"} /\ {snapshotPending, lost} \subseteq BOOLEAN
    /\ Len(buf.queue) <= Capacity /\ Len(wire) <= WireCap /\ Len(bufferedEvents) <= BufferCap
    /\ view.assistantDrafts \subseteq CallsOf /\ view.finalizedCalls \subseteq CallsOf
    /\ view.run \in {"thinking", "running", "idle"}
    /\ view.lastSeq <= buf.last_delivered_seq

Drained ==
    /\ pipe = <<>> /\ unsent = NoPayload /\ turn # "reported"
    /\ buf.queue = <<>> /\ ~buf.resync_required
    /\ wire = <<>> /\ ~snapshotPending

Shows(item) ==
    CASE item[1] = "assistant" -> Contains(view.messages, item[2])
      [] item[1] = "tool_call" -> view.tools[item[2]] # "none"
      [] OTHER                 -> view.tools[item[2]] = "done"

Known(item) ==
    IF item[1] = "assistant" THEN Contains(view.messages, item[2])
                             ELSE view.tools[item[2]] # "none"

(* Once a Turn is over and everything it caused has been delivered, no     *)
(* item of the session log is unknown to a window that is still connected, *)
(* whatever was dropped, evicted or overtaken on the way: a loss is made   *)
(* up for by the snapshot it leads to.                                     *)
ItemsKnownAfterTurn ==
    Drained /\ turn = "over" /\ connection = "ready"
      => \A i \in DOMAIN log : Known(log[i])

(* If the buffer had room for everything, the window then also shows the   *)
(* result of every tool and no draft, however far the worker was behind    *)
(* the snapshot that the end of the Turn led to.                           *)
CaughtUpAfterTurn ==
    Drained /\ turn = "over" /\ connection = "ready" /\ ~lost
      => /\ \A i \in DOMAIN log : Shows(log[i])
         /\ view.assistantDrafts = {}

(* UI-STATE.md 5.2: a finalized message is appended once.  Refuted         *)
(* (README, section 6): a snapshot forgets which calls are finalized, and  *)
(* an AssistantFinalized that was still queued when the snapshot had its   *)
(* message is folded again.                                                *)
MessagesOnce ==
    IsInjective(view.messages)

(* UI-INTERACTION.md 3.5: a Turn goes through Thinking and RunningTool     *)
(* before it completes.  Refuted (README, section 6): the progress worker  *)
(* may be behind when the actor has reported the outcome, and then sets    *)
(* RunningTool for good.                                                   *)
IdleAfterTurn ==
    turn = "over" => state = "idle"

(* UI-STATE.md 8: no unbounded loop of snapshots.  From some point on the  *)
(* window waits for none, and whatever it missed it has stopped asking.    *)
SnapshotsEnd ==
    <>[](~snapshotPending)
=============================================================================
