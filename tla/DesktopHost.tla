---------------------------- MODULE DesktopHost ----------------------------
(***************************************************************************)
(* The desktop host of one loaded session (src-tauri/src/runtime): the     *)
(* HostActor and its command loop, the ApprovalBroker it shares with the   *)
(* running Turn, the Turn task, and the progress worker that turns the     *)
(* Turn's events into run states.  Four threads of control write the run   *)
(* state that snapshots report: actor, broker (on the Turn's task for a    *)
(* request, on the actor's for a decision) and worker.                     *)
(*                                                                         *)
(* A Turn is reduced to what the host can tell apart: it has not begun, it *)
(* thinks, it waits for an approval, it runs a tool, it has ended.  The    *)
(* AgentLoop itself is the subject of TurnLoop.  Commands are taken from   *)
(* the mailbox one at a time; a command that is refused changes nothing    *)
(* and is left out.  Of the EventBuffer only the newest StateChanged and   *)
(* the reports of outcomes are kept, see EventStream.                      *)
(***************************************************************************)
EXTENDS Integers, Sequences, FiniteSets

CONSTANTS
    NoTurn, NoRequest,
    ProgressCap,  \* PROGRESS_QUEUE_CAPACITY
    MaxTurns,     \* bound: submissions
    MaxRequests   \* bound: approval requests in all

ASSUME BoundsAreNumbers ==
    {ProgressCap, MaxRequests} \subseteq Nat /\ MaxTurns \in Nat \ {0}
ASSUME NoNumbers == NoTurn \notin Nat /\ NoRequest \notin Nat

VARIABLES
    state,         \* HostActor.state
    shared_state,  \* DesktopRunState behind its own mutex
    announced,     \* what StateChanged or Stopped was published last
    next_turn,     \* HostActor.next_turn
    active,        \* the host's number of the active Turn, or NoTurn; in a
                   \* shutdown, the cancelled_turn of its report
    agent,         \* who owns the Agent: host, task, or lost
    cancelled,     \* the active Turn's CancellationToken
    task,          \* the Turn task: none, entry, thinking, asking, running,
                   \* or how it ended: ok, error, panicked
    waits_for,     \* the request whose answer the task awaits
    last_turn,     \* session: turn number of the last committed item, or -1
    running_turn,  \* the loop's number of the running Turn, or NoTurn
    progress,      \* run states on their way through the progress worker
    next_id, pending, resolved, current_turn,   \* ApprovalBroker
    answer,        \* request -> the decision that reached the Turn
    decided,       \* history: request -> what the user decided first
    outcomes,      \* history: turns whose end was published
    phase          \* of shutdown_internal: up, joining, flushing, down

broker == <<next_id, pending, resolved, current_turn, answer, decided>>
vars == <<state, shared_state, announced, next_turn, active, agent, cancelled,
          task, waits_for, last_turn, running_turn, progress, broker, outcomes, phase>>

Requests == 1 .. MaxRequests
Ended == {"ok", "error", "panicked"}

Idle              == [is |-> "idle", turn |-> NoTurn]
Thinking(t)       == [is |-> "thinking", turn |-> t]
RunningTool(t)    == [is |-> "running_tool", turn |-> t]
WaitingApproval(t) == [is |-> "waiting_approval", turn |-> t]
Cancelling(t)     == [is |-> "cancelling", turn |-> t]
Failed(t)         == [is |-> "failed", turn |-> t]
Stopping          == [is |-> "stopping", turn |-> NoTurn]
Stopped           == [is |-> "stopped", turn |-> NoTurn]

(* DesktopHost::start, on a new session or one with turns up to some turn. *)
Init ==
    /\ state = Idle /\ shared_state = Idle /\ announced = Idle
    /\ last_turn \in {-1, 0} /\ next_turn = last_turn + 1
    /\ active = NoTurn /\ agent = "host" /\ cancelled = FALSE
    /\ task = "none" /\ waits_for = NoRequest /\ running_turn = NoTurn
    /\ progress = <<>>
    /\ next_id = 1 /\ pending = [r \in {} |-> 0] /\ resolved = {} /\ current_turn = 0
    /\ answer = [r \in Requests |-> "none"] /\ decided = [r \in Requests |-> "none"]
    /\ outcomes = {} /\ phase = "up"

(* Publishing after the buffer is closed does nothing.                     *)
Announce(s) == announced' = IF phase = "down" THEN announced ELSE s

(* update_state, and the StateChanged that goes with it; the instant       *)
(* between the two is left out.                                            *)
update_state(s) == state' = s /\ shared_state' = s /\ Announce(s)

(* What the broker and the worker do: HostActor.state is not theirs.       *)
Share(s) == shared_state' = s /\ Announce(s) /\ UNCHANGED state

-----------------------------------------------------------------------------
(* HostActor::handle_command.                                              *)

MayStart == phase = "up" /\ active = NoTurn /\ state.is \in {"idle", "failed"}

start_turn ==
    /\ MayStart /\ next_turn < MaxTurns
    /\ next_turn' = next_turn + 1
    /\ current_turn' = next_turn
    /\ IF agent = "host"
         THEN /\ agent' = "task" /\ active' = next_turn
              /\ task' = "entry" /\ cancelled' = FALSE
              /\ update_state(Thinking(next_turn))
         ELSE UNCHANGED <<agent, active, task, cancelled, state, shared_state, announced>>
    /\ UNCHANGED <<waits_for, last_turn, running_turn, progress, next_id, pending,
                   resolved, answer, decided, outcomes, phase>>

cancel_turn ==
    /\ phase = "up" /\ active # NoTurn
    /\ cancelled' = TRUE
    /\ update_state(Cancelling(active))
    /\ UNCHANGED <<next_turn, active, agent, task, waits_for, last_turn, running_turn,
                   progress, broker, outcomes, phase>>

(* ApprovalBroker::resolve.  The decision reaches the Turn if the Turn     *)
(* still waits for it; the state is set and announced in any case.         *)
Receives(r) == task = "asking" /\ waits_for = r

resolve(r, decision) ==
    /\ phase = "up" /\ r \in DOMAIN pending
    /\ pending' = [q \in DOMAIN pending \ {r} |-> pending[q]]
    /\ resolved' = resolved \cup {r}
    /\ Share(IF decision = "approved" THEN RunningTool(pending[r])
                                      ELSE Thinking(pending[r]))
    /\ answer' = IF Receives(r) THEN [answer EXCEPT ![r] = decision] ELSE answer
    /\ decided' = [decided EXCEPT ![r] = IF @ = "none" THEN decision ELSE @]
    /\ UNCHANGED <<next_turn, active, agent, cancelled, task, waits_for, last_turn,
                   running_turn, progress, next_id, current_turn, outcomes, phase>>

approve(r) == resolve(r, "approved")
deny(r)    == resolve(r, "denied")

-----------------------------------------------------------------------------
(* The Turn task.                                                          *)

TaskFrame == UNCHANGED <<state, next_turn, active, agent, cancelled, outcomes, phase>>
NoStates  == UNCHANGED <<shared_state, announced>>

(* ProgressHook::enqueue: what does not fit is dropped.                    *)
Enqueued(s) == IF Len(progress) < ProgressCap THEN Append(progress, s) ELSE progress

End(how) == task' = how /\ running_turn' = NoTurn

(* The Turn is given up before its prompt is committed, because the log    *)
(* cannot be materialized or, after TurnStarted, because the commit fails. *)
turn_refused ==
    /\ task = "entry"
    /\ End("error")
    /\ progress' \in {progress, Enqueued(Thinking(last_turn + 1))}
    /\ TaskFrame /\ NoStates
    /\ UNCHANGED <<waits_for, last_turn, broker>>

(* TurnStarted, the prompt, LlmCallStarted.                                *)
turn_begins ==
    /\ task = "entry" /\ ~cancelled
    /\ task' = "thinking"
    /\ running_turn' = last_turn + 1 /\ last_turn' = last_turn + 1
    /\ progress' = Enqueued(Thinking(last_turn + 1))
    /\ TaskFrame /\ NoStates
    /\ UNCHANGED <<waits_for, broker>>

(* ToolCallRecorded, then execute_call: the tool runs at once, or the      *)
(* broker's request() registers the call and announces that it waits.      *)
tool_call_allowed ==
    /\ task = "thinking" /\ ~cancelled
    /\ task' = "running" /\ waits_for' = NoRequest
    /\ progress' = Enqueued(RunningTool(running_turn))
    /\ TaskFrame /\ NoStates
    /\ UNCHANGED <<last_turn, running_turn, broker>>

tool_call_asks ==
    /\ task = "thinking" /\ ~cancelled /\ next_id <= MaxRequests
    /\ task' = "asking" /\ waits_for' = next_id
    /\ progress' = Enqueued(RunningTool(running_turn))
    /\ next_id' = next_id + 1
    /\ pending' = [r \in DOMAIN pending \cup {next_id} |->
                     IF r = next_id THEN current_turn ELSE pending[r]]
    /\ shared_state' = WaitingApproval(current_turn)
    /\ Announce(WaitingApproval(current_turn))
    /\ TaskFrame
    /\ UNCHANGED <<last_turn, running_turn, resolved, current_turn, answer, decided>>

(* Mutant: any answer is taken for consent.                                *)
approval_arrives_unread ==
    /\ task = "asking" /\ ~cancelled /\ answer[waits_for] # "none"
    /\ task' = "running"
    /\ TaskFrame /\ NoStates
    /\ UNCHANGED <<waits_for, last_turn, running_turn, progress, broker>>

(* The select over cancellation and answer is biased to the former.        *)
approval_arrives ==
    /\ task = "asking" /\ ~cancelled /\ answer[waits_for] # "none"
    /\ task' = IF answer[waits_for] = "approved" THEN "running" ELSE "thinking"
    /\ TaskFrame /\ NoStates
    /\ UNCHANGED <<waits_for, last_turn, running_turn, progress, broker>>

tool_returns ==
    /\ task = "running"
    /\ task' = "thinking" /\ waits_for' = NoRequest
    /\ TaskFrame /\ NoStates
    /\ UNCHANGED <<last_turn, running_turn, progress, broker>>

(* Mutant: a wait for an approval does not see the token.                  *)
turn_cancelled_not_asking ==
    /\ task \in {"entry", "thinking", "running"} /\ cancelled
    /\ End("error") /\ waits_for' = NoRequest
    /\ TaskFrame /\ NoStates
    /\ UNCHANGED <<last_turn, progress, broker>>

(* Cancellation is seen at every await of the loop, in a wait for an       *)
(* approval and in a running tool; a pending request stays with the        *)
(* broker, without a receiver.                                             *)
turn_cancelled ==
    /\ task \in {"entry", "thinking", "asking", "running"} /\ cancelled
    /\ End("error") /\ waits_for' = NoRequest
    /\ TaskFrame /\ NoStates
    /\ UNCHANGED <<last_turn, progress, broker>>

turn_ends(how) ==
    /\ task \in {"thinking", "running"}
    /\ how = "ok" => task = "thinking"
    /\ End(how) /\ waits_for' = NoRequest
    /\ TaskFrame /\ NoStates
    /\ UNCHANGED <<last_turn, progress, broker>>

(* The progress worker and ProgressSink::on_progress.                      *)
on_progress ==
    /\ progress # <<>>
    /\ progress' = Tail(progress)
    /\ Share(Head(progress))
    /\ UNCHANGED <<next_turn, active, agent, cancelled, task, waits_for, last_turn,
                   running_turn, broker, outcomes, phase>>

-----------------------------------------------------------------------------
(* HostActor::finish_turn.                                                 *)

cancel_all ==
    /\ pending' = [r \in {} |-> 0]
    /\ resolved' = resolved \cup DOMAIN pending
    /\ UNCHANGED <<next_id, current_turn, answer, decided>>

(* Mutant: the Agent the task returned is dropped.                         *)
finish_turn_drops_agent ==
    /\ phase = "up" /\ active # NoTurn /\ task \in {"ok", "error"}
    /\ active' = NoTurn /\ task' = "none" /\ agent' = "lost"
    /\ cancel_all
    /\ update_state(IF task = "ok" THEN Idle ELSE Failed(active))
    /\ outcomes' = outcomes \cup {active}
    /\ UNCHANGED <<next_turn, cancelled, waits_for, last_turn, running_turn, progress, phase>>

finish_turn ==
    /\ phase = "up" /\ active # NoTurn /\ task \in {"ok", "error"}
    /\ active' = NoTurn /\ task' = "none" /\ agent' = "host"
    /\ cancel_all
    /\ update_state(IF task = "ok" THEN Idle ELSE Failed(active))
    /\ outcomes' = outcomes \cup {active}
    /\ UNCHANGED <<next_turn, cancelled, waits_for, last_turn, running_turn, progress, phase>>

(* The task panicked: the Agent is gone, and the broker is left alone.     *)
finish_panicked_turn ==
    /\ phase = "up" /\ active # NoTurn /\ task = "panicked"
    /\ active' = NoTurn /\ task' = "none" /\ agent' = "lost"
    /\ update_state(Failed(active))
    /\ outcomes' = outcomes \cup {active}
    /\ UNCHANGED <<next_turn, cancelled, waits_for, last_turn, running_turn, progress,
                   broker, phase>>

(* Mutant: the Turn is waited for and not cancelled.                       *)
shutdown_begins_uncancelled ==
    /\ phase = "up"
    /\ phase' = "joining"
    /\ update_state(Stopping)
    /\ UNCHANGED <<cancelled, next_turn, active, agent, task, waits_for, last_turn,
                   running_turn, progress, broker, outcomes>>

(* HostActor::shutdown_internal, at a Shutdown command or when the last    *)
(* handle is dropped: cancel, wait for the Turn, then cancel the pending   *)
(* approvals, then flush the worker if there is an Agent, then report the  *)
(* cancelled Turn with Stopped and close.                                  *)
shutdown_begins ==
    /\ phase = "up"
    /\ phase' = "joining"
    /\ update_state(Stopping)
    /\ cancelled' = IF active # NoTurn THEN TRUE ELSE cancelled
    /\ UNCHANGED <<next_turn, active, agent, task, waits_for, last_turn, running_turn,
                   progress, broker, outcomes>>

shutdown_joins ==
    /\ phase = "joining" /\ (active = NoTurn \/ task \in Ended)
    /\ phase' = "flushing"
    /\ agent' = IF active = NoTurn THEN agent
                ELSE IF task = "panicked" THEN "lost" ELSE "host"
    /\ cancel_all
    /\ task' = "none"
    /\ UNCHANGED <<state, shared_state, announced, next_turn, active, cancelled,
                   waits_for, last_turn, running_turn, progress, outcomes>>

shutdown_ends ==
    /\ phase = "flushing"
    /\ agent = "host" => progress = <<>>
    /\ phase' = "down"
    /\ update_state(Stopped)
    /\ active' = NoTurn
    /\ outcomes' = IF active = NoTurn THEN outcomes ELSE outcomes \cup {active}
    /\ UNCHANGED <<next_turn, agent, cancelled, task, waits_for, last_turn,
                   running_turn, progress, broker>>

Task ==
    \/ turn_refused \/ turn_begins \/ tool_call_allowed \/ tool_call_asks
    \/ approval_arrives \/ tool_returns \/ turn_cancelled
    \/ \E how \in Ended : turn_ends(how)

Actor ==
    \/ start_turn \/ cancel_turn
    \/ \E r \in Requests : approve(r) \/ deny(r)
    \/ finish_turn \/ finish_panicked_turn
    \/ shutdown_begins \/ shutdown_joins \/ shutdown_ends

Next == Task \/ Actor \/ on_progress

Spec == Init /\ [][Next]_vars

(* Tasks are polled: the worker drains its queue, the actor takes up an    *)
(* ended Turn and goes on with a shutdown, and a cancelled Turn gets to an *)
(* await.  That users answer, tools return or models stop talking is not   *)
(* assumed.                                                                *)
Fairness ==
    /\ WF_vars(on_progress)
    /\ WF_vars(turn_cancelled)
    /\ WF_vars(finish_turn \/ finish_panicked_turn)
    /\ WF_vars(shutdown_joins) /\ WF_vars(shutdown_ends)

FairSpec == Spec /\ Fairness

-----------------------------------------------------------------------------
(* Properties.                                                             *)

Turns == 0 .. MaxTurns
RunStates ==
    [is : {"idle", "thinking", "running_tool", "waiting_approval", "cancelling",
           "failed", "stopping", "stopped"},
     turn : Turns \cup {NoTurn}]
Decisions == {"none", "approved", "denied"}

(* Types, and the owner of the Agent: the task has it while a Turn is      *)
(* active and its end has not been taken up, nobody else.                  *)
TypeOK ==
    /\ {state, shared_state, announced} \subseteq RunStates
    /\ next_turn \in Turns /\ active \in Turns \cup {NoTurn}
    /\ last_turn \in -1 .. MaxTurns /\ running_turn \in Turns \cup {NoTurn}
    /\ task \in {"none", "entry", "thinking", "asking", "running"} \cup Ended
    /\ agent \in {"host", "task", "lost"} /\ (agent = "task" <=> task # "none")
    /\ waits_for \in Requests \cup {NoRequest}
    /\ cancelled \in BOOLEAN /\ progress \in Seq(RunStates)
    /\ next_id \in 1 .. MaxRequests + 1 /\ resolved \subseteq Requests
    /\ answer \in [Requests -> Decisions] /\ decided \in [Requests -> Decisions]
    /\ outcomes \subseteq Turns /\ phase \in {"up", "joining", "flushing", "down"}

(* A tool that was asked about runs only on the user's own "approved", and *)
(* the decision that reaches a Turn is the first one made on that very     *)
(* request: approving twice, denying after approving, or approving what a  *)
(* cancelled Turn had asked for has no effect on any Turn. Every request   *)
(* ever made to the ApprovalBroker is pending or resolved, never both, and *)
(* what is pending belongs to the active Turn: the approvals in a snapshot *)
(* are those that can still be given.                                      *)
DecisionsHonoured ==
    /\ task = "running" /\ waits_for # NoRequest => answer[waits_for] = "approved"
    /\ \A r \in Requests : answer[r] # "none" => answer[r] = decided[r]
    /\ DOMAIN pending \cap resolved = {}
    /\ DOMAIN pending \cup resolved = 1 .. next_id - 1
    /\ \A r \in DOMAIN pending : active # NoTurn /\ pending[r] = active

(* A HostActor that says it is idle can take a Turn: it has its Agent      *)
(* back, no Turn is active and nobody is asked for anything. Stopped is    *)
(* the last state a host with its Agent shows: the worker was flushed      *)
(* before, and no straggler sets the state again.                          *)
StateIsHonest ==
    /\ state = Idle => agent = "host" /\ active = NoTurn /\ DOMAIN pending = {}
    /\ phase = "down" /\ agent = "host" => shared_state = Stopped /\ announced = Stopped

(* Once cancelled, or once its task has ended, a Turn's end is published,  *)
(* be it with TurnCompleted, TurnFailed, a Failed state or the shutdown    *)
(* report, also while it waits for an approval nobody gives.               *)
TurnsReported ==
    \A t \in 0 .. MaxTurns :
        (active = t /\ (cancelled \/ task \in Ended)) ~> t \in outcomes

(* A shutdown ends, although it waits for the Turn before it cancels the   *)
(* pending approvals.                                                      *)
ShutdownCompletes ==
    phase = "joining" ~> phase = "down"

(* agent-core/DESIGN.md:1581 identifies a Turn by its session and its turn *)
(* number, and :2808 has the number consumed by the commit of the user     *)
(* message.  Refuted (README, section 6): the host counts submissions.     *)
TurnIdentityAgrees ==
    running_turn # NoTurn => running_turn = active
=============================================================================
