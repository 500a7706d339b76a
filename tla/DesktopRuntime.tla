--------------------------- MODULE DesktopRuntime ---------------------------
(***************************************************************************)
(* The generations of the desktop (src-tauri/src: runtime.rs,              *)
(* runtime/coordinator.rs, shell.rs).  The coordinator owns at most one    *)
(* current runtime generation behind a lock; a generation owns at most one *)
(* host and passes the host's envelopes on through two forwarder tasks to  *)
(* the one channel the window's event pump reads:                          *)
(*                                                                         *)
(*   EventBuffer -fwd-> runtime channel -cfwd-> coordinator channel -pump-> *)
(*                                                                         *)
(* Commands of the window run concurrently and meet at the lock, which     *)
(* they keep across their awaits; a history page is read without it.  The  *)
(* close request of the window is a command of its own, with a timeout.    *)
(*                                                                         *)
(* Of the host only its life is kept (DesktopHost has the rest), of its    *)
(* EventBuffer the number of payloads and whether the closed stream ends   *)
(* (EventStream), of an envelope its connection epoch.  A timeout is an    *)
(* action that may happen whenever the wait it limits goes on.             *)
(***************************************************************************)
EXTENDS Integers, Sequences, FiniteSets

CONSTANTS
    Sessions, NoSession,
    Slots,         \* commands of the window that may run at the same time
    Closer,        \* the task of the close request
    Free,          \* nobody holds the lock
    MaxEpoch,      \* the last connection epoch there is
    MaxCommands,   \* bound: commands the window issues, a close request included
    Places         \* bound: places in each channel and buffer

ASSUME Distinct == Slots \in Nat \ {0} /\ Closer \notin Nat /\ Free \notin Nat \union {Closer}
ASSUME BoundsArePositive == {MaxEpoch, Places} \subseteq Nat \ {0} /\ MaxCommands \in Nat

VARIABLES
    next_epoch,  \* NEXT_CONNECTION_EPOCH
    current,     \* CoordinatorInner.current: an epoch, or 0
    lock,        \* who holds it
    rt,          \* epoch -> its RuntimeInner, host and forwarders
    tasks,       \* the commands in progress
    issued,      \* bound: number of commands issued
    out,         \* coordinator channel: epochs of the envelopes in it
    pump,        \* the event pump: running, broken
    seen,        \* epoch of the last envelope emitted to the window
    window,      \* boot, failed, open, closing, destroyed
    abandoned    \* a close request gave up half way through a shutdown

vars == <<next_epoch, current, lock, rt, tasks, issued, out, pump, seen, window, abandoned>>

Epochs == 1 .. MaxEpoch
Tasks == 1 .. Slots
Everyone == Tasks \union {Closer}
Commands == {"list", "start", "history", "new_chat", "submit", "call", "shutdown"}
NamesSession == {"start", "history", "submit"}

(* A reply names the generation it speaks of, and its session.  A refusal  *)
(* names none; which DesktopCommandError it is, is left out.               *)
Names(e, s) == [epoch |-> e, session |-> s]
Refused == Names(0, NoSession)
Resting == [cmd |-> "none", pc |-> "idle", epoch |-> 0, session |-> NoSession,
            result |-> "none", reply |-> Refused]

(* A generation that was never made, and one DesktopRuntime::start made.   *)
Unborn == [life |-> "none", session |-> NoSession, host |-> "none", buf |-> 0,
           stream |-> "open", sender |-> FALSE, fwd |-> "none", chan |-> 0,
           cfwd |-> "none"]
Fresh == [Unborn EXCEPT !.life = "ready", !.sender = TRUE, !.cfwd = "running"]

Init ==
    /\ next_epoch = 1 /\ current = 0 /\ lock = Free
    /\ rt = [e \in Epochs |-> Unborn]
    /\ tasks = [t \in Everyone |-> Resting]
    /\ issued = 0 /\ out = << >> /\ pump = "running" /\ seen = 0
    /\ window = "boot" /\ abandoned = FALSE

-----------------------------------------------------------------------------
(* Steps of a command.                                                     *)

(* The command of task t gets the lock and finds a current generation.     *)
Enters(t, cmd) == tasks[t].cmd = cmd /\ tasks[t].pc = "wait" /\ lock = Free

Holds(t, cmd, pc) == tasks[t].cmd = cmd /\ tasks[t].pc = pc /\ lock = t

Goes(t, pc) == tasks' = [tasks EXCEPT ![t].pc = pc]

Replies(t, reply) == tasks' = [tasks EXCEPT ![t] = [Resting EXCEPT !.reply = reply]]

Becomes(e, generation) == rt' = [rt EXCEPT ![e] = generation]

windowSide == <<issued, out, pump, seen, window>>

(* What is left alone by a command that changes nothing but itself.        *)
OnlyTask == UNCHANGED <<next_epoch, current, lock, rt, windowSide, abandoned>>

(* The window issues a command; free slots are all alike.                  *)
Issue(t, cmd, s) ==
    /\ window \in {"open", "closing"} /\ issued < MaxCommands
    /\ tasks[t].pc = "idle" /\ \A u \in 1 .. t-1 : tasks[u].pc # "idle"
    /\ (s = NoSession) = (cmd \notin NamesSession)
    /\ issued' = issued + 1
    /\ tasks' = [tasks EXCEPT ![t] = [Resting EXCEPT !.cmd = cmd, !.pc = "wait", !.session = s]]
    /\ UNCHANGED <<next_epoch, current, lock, rt, out, pump, seen, window, abandoned>>

(* runtime_unavailable_error.                                              *)
NoRuntime(t) ==
    /\ tasks[t].pc = "wait" /\ lock = Free /\ current = 0
    /\ tasks[t].cmd \in Commands \ {"new_chat", "shutdown"}
    /\ Replies(t, Refused)
    /\ OnlyTask

(* start_generation: the factory reads settings and builds a configuration,*)
(* which may fail, then DesktopRuntime::start takes an epoch, if any is    *)
(* left.  The lock is released with the reply.                             *)
GenerationStarts(t) ==
    /\ next_epoch <= MaxEpoch
    /\ next_epoch' = next_epoch + 1 /\ current' = next_epoch
    /\ Replies(t, Names(next_epoch, NoSession))

GenerationFails(t) ==
    /\ current' = 0 /\ next_epoch' = next_epoch
    /\ Replies(t, Refused)

(* bootstrap_first_generation, in the setup of the shell: without a first  *)
(* generation there is no application.                                     *)
bootstrap_first_generation ==
    /\ window = "boot"
    /\ \/ /\ GenerationStarts(Closer) /\ window' = "open" /\ Becomes(next_epoch, Fresh)
       \/ GenerationFails(Closer) /\ window' = "failed" /\ UNCHANGED rt
    /\ UNCHANGED <<lock, issued, out, pump, seen, abandoned>>

(* list_sessions reads the catalog at once; `loaded` marks one row of it.  *)
list_sessions(t) ==
    /\ Enters(t, "list") /\ current # 0
    /\ \/ Replies(t, Names(current, rt[current].session))
       \/ Replies(t, Refused)
    /\ OnlyTask

-----------------------------------------------------------------------------
(* create_session and load_session.                                        *)

start_session(t) ==
    LET life == rt[current].life IN
    /\ Enters(t, "start") /\ current # 0
    /\ IF life = "ready"
         THEN /\ lock' = t /\ Goes(t, "starting")
              /\ Becomes(current, [rt[current] EXCEPT !.life = "starting"])
         ELSE /\ Replies(t, Refused)
              /\ UNCHANGED <<lock, rt>>
    /\ UNCHANGED <<next_epoch, current, windowSide, abandoned>>

stop_unstarted(g) == [g EXCEPT !.life = "stopped", !.sender = FALSE]

(* DesktopHost::start publishes Idle; the forwarder is not there yet.      *)
host_starts(t) ==
    /\ Holds(t, "start", "starting") /\ Goes(t, "asking")
    /\ Becomes(current, [rt[current] EXCEPT !.host = "up", !.buf = 1])
    /\ UNCHANGED <<next_epoch, current, lock, windowSide, abandoned>>

host_start_fails(t) ==
    /\ Holds(t, "start", "starting")
    /\ Replies(t, Refused) /\ lock' = Free
    /\ Becomes(current, stop_unstarted(rt[current]))
    /\ UNCHANGED <<next_epoch, current, windowSide, abandoned>>

(* The host answers the first snapshot and its page is cut.                *)
session_starts(t) ==
    /\ Holds(t, "start", "asking") /\ rt[current].host = "up"
    /\ Replies(t, Names(current, tasks[t].session))
    /\ lock' = Free
    /\ Becomes(current, [rt[current] EXCEPT !.life = "running", !.sender = FALSE,
                            !.fwd = "running", !.session = tasks[t].session])
    /\ UNCHANGED <<next_epoch, current, windowSide, abandoned>>

(* It cannot, or the page cannot be cut: the host is shut down again.      *)
snapshot_fails(t) ==
    /\ Holds(t, "start", "asking") /\ Goes(t, "undoing")
    /\ Becomes(current, [rt[current] EXCEPT !.host = IF @ = "up" THEN "stopping" ELSE @])
    /\ UNCHANGED <<next_epoch, current, lock, windowSide, abandoned>>

(* Mutant: the host that is shut down again is not waited for.             *)
start_undone_unawaited(t) ==
    /\ Holds(t, "start", "undoing")
    /\ Replies(t, Refused) /\ lock' = Free
    /\ Becomes(current, stop_unstarted(rt[current]))
    /\ UNCHANGED <<next_epoch, current, windowSide, abandoned>>

start_undone(t) ==
    /\ Holds(t, "start", "undoing") /\ rt[current].host \in {"down", "gone"}
    /\ Replies(t, Refused) /\ lock' = Free
    /\ Becomes(current, stop_unstarted(rt[current]))
    /\ UNCHANGED <<next_epoch, current, windowSide, abandoned>>

-----------------------------------------------------------------------------
(* Commands to the host: submit_turn, which names its session, and         *)
(* cancel_turn, approve, deny and snapshot.  The lock is kept until the    *)
(* host has answered.                                                      *)

require_host(g) == g.life = "running" /\ g.host # "none"

host_command(t, cmd) ==
    LET g == rt[current]
        mismatch == cmd = "submit" /\ g.session # tasks[t].session
    IN  /\ Enters(t, cmd) /\ current # 0
        /\ IF mismatch \/ ~ require_host(g)
             THEN Replies(t, Refused) /\ UNCHANGED lock
             ELSE Goes(t, "call") /\ lock' = t
        /\ UNCHANGED <<next_epoch, current, rt, windowSide, abandoned>>

host_answers(t) ==
    /\ tasks[t].pc = "call" /\ lock = t /\ rt[current].host # "stopping"
    /\ IF rt[current].host = "up"
         THEN Replies(t, Names(current, rt[current].session))
         ELSE Replies(t, Refused)
    /\ lock' = Free
    /\ UNCHANGED <<next_epoch, current, rt, windowSide, abandoned>>

-----------------------------------------------------------------------------
(* load_session_history: the epoch is taken under the lock, the page read  *)
(* without it, the epoch compared under the lock again.                    *)

history_begins(t) ==
    /\ Enters(t, "history") /\ current # 0
    /\ tasks' = [tasks EXCEPT ![t].pc = "reading", ![t].epoch = current]
    /\ OnlyTask

history_read(t) ==
    /\ tasks[t].pc = "reading"
    /\ \E page \in {"page", "unavailable"} :
         tasks' = [tasks EXCEPT ![t].pc = "recheck", ![t].result =
             IF rt[tasks[t].epoch].session = tasks[t].session THEN page ELSE "mismatch"]
    /\ OnlyTask

(* Mutant: the generation is not looked at again.                          *)
history_ends_unchecked(t) ==
    /\ tasks[t].pc = "recheck" /\ lock = Free
    /\ IF tasks[t].result # "page" THEN Replies(t, Refused)
       ELSE Replies(t, Names(tasks[t].epoch, tasks[t].session))
    /\ OnlyTask

history_ends(t) ==
    /\ tasks[t].pc = "recheck" /\ lock = Free
    /\ CASE current # tasks[t].epoch -> Replies(t, Refused)
         [] current = tasks[t].epoch /\ tasks[t].result # "page" -> Replies(t, Refused)
         [] OTHER -> Replies(t, Names(current, tasks[t].session))
    /\ OnlyTask

-----------------------------------------------------------------------------
(* Shutting a generation down, for new_chat, shutdown and the close        *)
(* request: runtime.shutdown, then finish_generation.                      *)

Replacing(t) == tasks[t].cmd \in {"new_chat", "shutdown", "close"}

(* The generation a task that has taken it out of `current` works on.      *)
Own(t) == tasks[t].epoch

Next_(t, pc, result) == tasks' = [tasks EXCEPT ![t].pc = pc, ![t].result = result]

(* With no generation a shutdown is complete and new_chat starts one.      *)
nothing_to_stop(t) ==
    /\ Replacing(t) /\ tasks[t].pc = "wait" /\ lock = Free /\ current = 0
    /\ lock' = t /\ Next_(t, "replace", "completed")
    /\ UNCHANGED <<next_epoch, current, rt, windowSide, abandoned>>

shutdown_begins(t) ==
    LET g == rt[current]
        Take(pc, result, h) ==
          /\ tasks' = [tasks EXCEPT ![t].pc = pc, ![t].result = result, ![t].epoch = current]
          /\ Becomes(current, h)
    IN  /\ Replacing(t) /\ tasks[t].pc = "wait" /\ lock = Free /\ current # 0
        /\ lock' = t /\ current' = 0
        /\ CASE g.life = "ready" -> Take("finish", "completed", stop_unstarted(g))
             [] g.life = "stopped" -> Take("finish", "stopped", g)
             [] g.life = "running" ->
                  Take("host", "none", [g EXCEPT !.host = IF @ = "up" THEN "stopping" ELSE @])
        /\ UNCHANGED <<next_epoch, windowSide, abandoned>>

host_stopped(t) ==
    /\ tasks[t].pc = "host" /\ lock = t /\ rt[Own(t)].host = "down"
    /\ Goes(t, "drain")
    /\ OnlyTask

(* abort_event_forwarder: the actor is gone, its buffer was never closed.  *)
host_was_gone(t) ==
    /\ tasks[t].pc = "host" /\ lock = t /\ rt[Own(t)].host = "gone"
    /\ Next_(t, "finish", "rejected")
    /\ Becomes(Own(t), [rt[Own(t)] EXCEPT !.life = "stopped", !.fwd = "aborted"])
    /\ UNCHANGED <<next_epoch, current, lock, windowSide, abandoned>>

(* finish_event_forwarder.  A forwarder that is late is left running.      *)
drained(t) ==
    /\ tasks[t].pc = "drain" /\ lock = t /\ rt[Own(t)].fwd # "running"
    /\ Next_(t, "finish", IF rt[Own(t)].fwd = "ended" THEN "completed" ELSE "internal")
    /\ Becomes(Own(t), [rt[Own(t)] EXCEPT !.life = "stopped"])
    /\ UNCHANGED <<next_epoch, current, lock, windowSide, abandoned>>

(* Mutant: the timeout is forgotten for a host that stopped cleanly.       *)
drain_times_out_not(t) ==
    /\ tasks[t].pc = "drain" /\ lock = t /\ rt[Own(t)].stream = "open"
    /\ Next_(t, "finish", "internal")
    /\ Becomes(Own(t), [rt[Own(t)] EXCEPT !.life = "stopped"])
    /\ UNCHANGED <<next_epoch, current, lock, windowSide, abandoned>>

drain_times_out(t) ==
    /\ tasks[t].pc = "drain" /\ lock = t /\ rt[Own(t)].fwd = "running"
    /\ Next_(t, "finish", "internal")
    /\ Becomes(Own(t), [rt[Own(t)] EXCEPT !.life = "stopped"])
    /\ UNCHANGED <<next_epoch, current, lock, windowSide, abandoned>>

(* finish_generation.  Its error outweighs a completed shutdown only.      *)
finished(t) ==
    /\ tasks[t].pc = "finish" /\ lock = t /\ rt[Own(t)].cfwd # "running"
    /\ Next_(t, "replace", IF rt[Own(t)].cfwd = "ended" \/ tasks[t].result # "completed"
                           THEN tasks[t].result ELSE "undrained")
    /\ UNCHANGED <<next_epoch, current, lock, rt, windowSide, abandoned>>

finish_times_out(t) ==
    /\ tasks[t].pc = "finish" /\ lock = t /\ rt[Own(t)].cfwd = "running"
    /\ Next_(t, "replace", IF tasks[t].result # "completed" THEN tasks[t].result ELSE "undrained")
    /\ Becomes(Own(t), [rt[Own(t)] EXCEPT !.cfwd = "aborted", !.chan = 0])
    /\ UNCHANGED <<next_epoch, current, lock, windowSide, abandoned>>

(* The end of new_chat: the answers of the old generation that are not a   *)
(* completed or an earlier shutdown end it without a new generation.       *)
new_chat(t) ==
    /\ Holds(t, "new_chat", "replace") /\ lock' = Free
    /\ \/ /\ tasks[t].result \in {"completed", "stopped"}
          /\ \/ GenerationStarts(t) /\ Becomes(next_epoch, Fresh)
             \/ GenerationFails(t) /\ UNCHANGED rt
       \/ /\ tasks[t].result \notin {"completed", "stopped"}
          /\ Replies(t, Refused) /\ UNCHANGED <<next_epoch, current, rt>>
    /\ UNCHANGED <<windowSide, abandoned>>

shutdown(t) ==
    /\ Holds(t, "shutdown", "replace") /\ lock' = Free
    /\ Replies(t, Refused)
    /\ UNCHANGED <<next_epoch, current, rt, windowSide, abandoned>>

-----------------------------------------------------------------------------
(* The shell.  The first close request starts the shutdown and the window  *)
(* is destroyed when it has ended or the timeout has dropped its future:   *)
(* before it got the lock nothing happens, later the generation is dropped *)
(* half way, its tasks left to themselves, and the lock set free.  With    *)
(* its last window the application exits.                                  *)

close_requested ==
    /\ window = "open" /\ window' = "closing"
    /\ issued < MaxCommands /\ issued' = issued + 1
    /\ tasks' = [tasks EXCEPT ![Closer] = [Resting EXCEPT !.cmd = "close", !.pc = "wait"]]
    /\ UNCHANGED <<next_epoch, current, lock, rt, out, pump, seen, abandoned>>

close_completes ==
    /\ Holds(Closer, "close", "replace") /\ lock' = Free /\ Goes(Closer, "destroy")
    /\ UNCHANGED <<next_epoch, current, rt, windowSide, abandoned>>

(* Mutant: the timeout covers the shutdown, not the wait for the lock.     *)
close_times_out_unlocked ==
    /\ tasks[Closer].cmd = "close" /\ tasks[Closer].pc # "destroy" /\ lock = Closer
    /\ Goes(Closer, "destroy") /\ lock' = Free /\ abandoned' = TRUE
    /\ UNCHANGED <<next_epoch, current, rt, windowSide>>

close_times_out ==
    /\ tasks[Closer].cmd = "close" /\ tasks[Closer].pc # "destroy"
    /\ Goes(Closer, "destroy")
    /\ IF lock = Closer THEN lock' = Free /\ abandoned' = TRUE
                        ELSE UNCHANGED <<lock, abandoned>>
    /\ UNCHANGED <<next_epoch, current, rt, windowSide>>

destroy_window ==
    /\ tasks[Closer].pc = "destroy" /\ window' = "destroyed"
    /\ Replies(Closer, Refused)
    /\ UNCHANGED <<next_epoch, current, lock, rt, issued, out, pump, seen, abandoned>>

-----------------------------------------------------------------------------
(* The host of a generation.                                               *)

HostOnly(e, g) ==
    /\ Becomes(e, g)
    /\ UNCHANGED <<next_epoch, current, lock, tasks, windowSide, abandoned>>

host_publishes(e) ==
    /\ rt[e].host \in {"up", "stopping"} /\ rt[e].buf < Places
    /\ HostOnly(e, [rt[e] EXCEPT !.buf = @ + 1])

(* shutdown_internal publishes Stopped and closes the buffer, whose stream *)
(* never ends when a resync was left unacknowledged.                       *)
host_stops(e) ==
    /\ rt[e].host = "stopping"
    /\ \E end \in {"closed", "endless"} :
         HostOnly(e, [rt[e] EXCEPT !.host = "down", !.buf = 1, !.stream = end])

(* The actor panics; its buffer stays open.                                *)
host_dies(e) ==
    /\ rt[e].host \in {"up", "stopping"}
    /\ HostOnly(e, [rt[e] EXCEPT !.host = "gone"])

-----------------------------------------------------------------------------
(* The two forwarders and the pump.  A forwarder ends when its source has  *)
(* ended and fails when it has something to send to a receiver that is     *)
(* gone.                                                                   *)

HasEvent(g) == g.buf > 0 \/ g.stream = "endless"

forward(e) ==
    LET g == rt[e] IN
    /\ g.fwd = "running"
    /\ \/ /\ HasEvent(g) /\ g.cfwd = "running" /\ g.chan < Places
          /\ HostOnly(e, [g EXCEPT !.buf = IF @ > 0 THEN @ - 1 ELSE 0, !.chan = @ + 1])
       \/ HasEvent(g) /\ g.cfwd # "running" /\ HostOnly(e, [g EXCEPT !.fwd = "failed"])
       \/ ~ HasEvent(g) /\ g.stream = "closed" /\ HostOnly(e, [g EXCEPT !.fwd = "ended"])

forward_generation(e) ==
    LET g == rt[e] IN
    /\ g.cfwd = "running"
    /\ \/ /\ g.chan > 0 /\ pump = "running" /\ Len(out) < Places
          /\ Becomes(e, [g EXCEPT !.chan = @ - 1]) /\ out' = Append(out, e)
       \/ /\ g.chan > 0 /\ pump = "broken"
          /\ Becomes(e, [g EXCEPT !.cfwd = "failed", !.chan = 0]) /\ UNCHANGED out
       \/ /\ g.chan = 0 /\ ~ g.sender /\ g.fwd # "running"
          /\ Becomes(e, [g EXCEPT !.cfwd = "ended"]) /\ UNCHANGED out
    /\ UNCHANGED <<next_epoch, current, lock, tasks, issued, pump, seen, window, abandoned>>

(* spawn_event_pump emits one envelope; when it cannot, it disconnects.    *)
pump_emits ==
    /\ pump = "running" /\ out # << >>
    /\ \/ seen' = Head(out) /\ out' = Tail(out) /\ UNCHANGED pump
       \/ pump' = "broken" /\ out' = << >> /\ UNCHANGED seen
    /\ UNCHANGED <<next_epoch, current, lock, rt, tasks, issued, window, abandoned>>

-----------------------------------------------------------------------------
(* What a task that is scheduled does next, timeouts included.             *)
Running == window # "destroyed"

Step(t) ==
    /\ Running
    /\ \/ NoRuntime(t) \/ list_sessions(t)
       \/ start_session(t) \/ host_starts(t) \/ host_start_fails(t)
       \/ session_starts(t) \/ snapshot_fails(t) \/ start_undone(t)
       \/ host_command(t, "submit") \/ host_command(t, "call")
       \/ history_begins(t) \/ history_read(t) \/ history_ends(t)
       \/ nothing_to_stop(t) \/ shutdown_begins(t) \/ host_stopped(t) \/ host_was_gone(t)
       \/ drained(t) \/ drain_times_out(t) \/ finished(t) \/ finish_times_out(t)
       \/ new_chat(t) \/ shutdown(t)

Forwarding(e) == Running /\ (forward(e) \/ forward_generation(e))

HostEnds(e) == Running /\ (host_stops(e) \/ host_dies(e))

HostAnswers(t) == Running /\ host_answers(t)

Closing == close_completes \/ close_times_out \/ destroy_window

Next ==
    \/ bootstrap_first_generation \/ close_requested \/ Closing
    \/ Running /\ pump_emits
    \/ \E t \in Tasks, cmd \in Commands, s \in Sessions \union {NoSession} : Issue(t, cmd, s)
    \/ \E t \in Everyone : Step(t) \/ HostAnswers(t)
    \/ \E e \in Epochs : (Running /\ host_publishes(e)) \/ HostEnds(e) \/ Forwarding(e)

Spec == Init /\ [][Next]_vars

(* Tokio polls what is ready and timers fire.  Nothing is assumed of the   *)
(* host (a Turn it waits for) or of the pump (a window that hangs).        *)
Fairness ==
    /\ \A t \in Everyone : WF_vars(Step(t))
    /\ \A e \in Epochs : WF_vars(Forwarding(e))
    /\ WF_vars(Closing)

FairSpec == Spec /\ Fairness

-----------------------------------------------------------------------------
(* The types of the variables, and the owner of the lock is a command that *)
(* is past its wait.                                                       *)
TypeOK ==
    /\ next_epoch \in 1 .. MaxEpoch + 1 /\ current \in 0 .. next_epoch - 1
    /\ seen \in 0 .. next_epoch - 1 /\ Len(out) <= Places
    /\ \A e \in Epochs : rt[e].buf \in 0 .. Places /\ rt[e].chan \in 0 .. Places
    /\ \A e \in Epochs : (rt[e].life = "none") = (e >= next_epoch)
    /\ lock # Free => tasks[lock].pc \notin {"idle", "wait", "reading", "recheck"}

(* Unless a close request gave up, no two hosts are alive at the same      *)
(* time, so no session log has two writers: new_chat and a start that is   *)
(* undone wait for the old host.                                           *)
OneHost ==
    ~ abandoned =>
      \A e, f \in Epochs :
        rt[e].host \in {"up", "stopping"} /\ rt[f].host \in {"up", "stopping"} => e = f

(* A reply that names a generation is given while that generation is the   *)
(* current one, and one that names a session while it is the loaded one:   *)
(* a history page read during a new_chat is thrown away. And unless a      *)
(* close request gave up, the window never sees an envelope of an older    *)
(* generation after one of a newer: new_chat starts a generation only when *)
(* the forwarder of the old one has ended or was aborted.                  *)
RepliesAreCurrent ==
    [][/\ abandoned \/ seen' >= seen
       /\ \A t \in Tasks :
            LET reply == tasks'[t].reply IN
            reply # tasks[t].reply /\ reply.epoch # 0 =>
               /\ current' = reply.epoch
               /\ reply.session = rt'[current'].session]_vars

(* If a host that is asked to stop or to answer does so, every command is  *)
(* answered while there is a window, although commands keep the lock while *)
(* they wait, channels fill up and the pump may hang: also after a         *)
(* new_chat whose shutdown failed.                                         *)
CommandsAnswered ==
    (/\ \A e \in Epochs : WF_vars(HostEnds(e))
     /\ \A t \in Tasks : WF_vars(HostAnswers(t)))
    => \A t \in Tasks : tasks[t].pc # "idle" ~> (tasks[t].pc = "idle" \/ window = "destroyed")

(* A close request (shell.rs) destroys the window, whoever holds the lock  *)
(* and whatever the host does. The forwarder a shutdown leaves running     *)
(* after two seconds ends all the same, the endless stream of an           *)
(* unacknowledged resync included: the coordinator closes the channel it   *)
(* sends to.                                                               *)
ShutdownsEnd ==
    /\ window = "closing" ~> window = "destroyed"
    /\ \A e \in Epochs :
         rt[e].life = "stopped" ~> (rt[e].fwd # "running" \/ abandoned \/ window = "destroyed")
=============================================================================
