----------------------- MODULE DesktopRuntime_proofs -----------------------
(***************************************************************************)
(* Proofs about DesktopRuntime, for every number of concurrent commands,   *)
(* of generations, of sessions and of places in the channels.              *)
(***************************************************************************)
EXTENDS DesktopRuntime, TLAPS

Session == Sessions \union {NoSession}

Generation ==
    [life : {"none", "ready", "starting", "running", "stopped"},
     session : Session,
     host : {"none", "up", "stopping", "down", "gone"},
     buf : 0 .. Places, stream : {"open", "closed", "endless"},
     sender : BOOLEAN,
     fwd : {"none", "running", "aborted", "failed", "ended"},
     chan : 0 .. Places,
     cfwd : {"none", "running", "aborted", "failed", "ended"}]

(* A command that is past its wait for the lock keeps it: it speaks to the *)
(* current generation, or it has taken it out of `current`, or there is    *)
(* none.                                                                   *)
Starting  == {"starting", "asking", "undoing"}
Stopping  == {"host", "drain", "finish"}
Critical  == Starting \union {"call"} \union Stopping \union {"replace"}

Task ==
    [cmd : Commands \union {"none", "close"},
     pc : {"idle", "wait", "reading", "recheck", "destroy"} \union Critical,
     epoch : 0 .. MaxEpoch, session : Session,
     result : {"none", "page", "unavailable", "mismatch",
               "completed", "stopped", "rejected", "internal", "undrained"},
     reply : [epoch : 0 .. MaxEpoch, session : Session]]

Types ==
    /\ next_epoch \in 1 .. MaxEpoch + 1 /\ current \in {0, next_epoch - 1}
    /\ lock \in Everyone \union {Free}
    /\ rt \in [Epochs -> Generation] /\ tasks \in [Everyone -> Task]
    /\ out \in Seq(Epochs) /\ Len(out) <= Places
    /\ seen \in 0 .. next_epoch - 1 /\ abandoned \in BOOLEAN
    /\ window \in {"boot", "failed", "open", "closing", "destroyed"}

(* The lock: who is in a critical section holds it, and the other way      *)
(* round; a generation is stopped outside of `current`.                    *)
LockHeld ==
    /\ \A t \in Everyone : tasks[t].pc \in Critical => lock = t
    /\ lock # Free =>
         /\ tasks[lock].pc \in Critical
         /\ tasks[lock].pc \in Starting \union {"call"} =>
              current # 0 /\ tasks[lock].cmd # "close"
         /\ tasks[lock].pc \in Stopping \union {"replace"} => current = 0
         /\ tasks[lock].pc \in Stopping =>
              tasks[lock].epoch = next_epoch - 1 /\ tasks[lock].epoch # 0

(* The life of a generation: it is born when its epoch is taken, it has a  *)
(* session once it runs, a start holds the lock, and what has stopped has  *)
(* no living host.                                                         *)
Alive(e) == rt[e].host \in {"up", "stopping"}

Lives ==
    /\ \A e \in Epochs :
         /\ (rt[e].life = "none") = (e >= next_epoch)
         /\ rt[e].life = "none" => rt[e] = Unborn
         /\ rt[e].life \in {"ready", "starting"} => rt[e].session = NoSession
         /\ rt[e].life = "ready" => rt[e].host = "none"
         /\ rt[e].life = "stopped" => ~ Alive(e)
         /\ rt[e].life = "starting" =>
              lock # Free /\ tasks[lock].pc \in Starting /\ e = current
    /\ lock # Free =>
         /\ tasks[lock].pc \in Starting => rt[current].life = "starting"
         /\ tasks[lock].pc = "starting" => rt[current].host = "none"
         /\ tasks[lock].pc = "drain" => rt[tasks[lock].epoch].host = "down"

(* Unless a close request gave up: a living host, and a forwarder that     *)
(* still runs, belong to the current generation or to the one that the     *)
(* holder of the lock is stopping.                                         *)
Owned(e, pcs) ==
    e = current \/ (lock # Free /\ tasks[lock].pc \in pcs /\ tasks[lock].epoch = e)

Ownership ==
    ~ abandoned =>
      \A e \in Epochs :
        /\ Alive(e) => Owned(e, {"host"})
        /\ rt[e].cfwd = "running" => Owned(e, Stopping)

(* A page was read from the generation its command took, and a generation  *)
(* that has a session keeps it.                                            *)
Pages ==
    \A t \in Everyone :
      /\ tasks[t].cmd \in NamesSession => tasks[t].session # NoSession
      /\ tasks[t].pc \in {"reading", "recheck"} =>
           tasks[t].cmd = "history" /\ tasks[t].epoch \in 1 .. next_epoch - 1
      /\ tasks[t].pc = "recheck" /\ tasks[t].result = "page" =>
           rt[tasks[t].epoch].session = tasks[t].session

(* Envelopes queue in the order of their generations.                      *)
Ordered ==
    /\ \A i \in 1 .. Len(out) : out[i] < next_epoch
    /\ ~ abandoned =>
         /\ \A i \in 1 .. Len(out) : seen <= out[i]
         /\ \A i, j \in 1 .. Len(out) : i < j => out[i] <= out[j]

(* There are no commands before the window, and no close request before it *)
(* closes.                                                                 *)
Windows ==
    /\ window = "boot" => next_epoch = 1
    /\ window \in {"boot", "failed"} =>
         lock = Free /\ \A t \in Everyone : tasks[t].cmd = "none" /\ tasks[t].pc = "idle"
    /\ window = "open" => tasks[Closer].cmd = "none" /\ tasks[Closer].pc = "idle"

Core == Types /\ LockHeld /\ Lives /\ Ownership /\ Pages /\ Ordered

RuntimeInv == Core /\ Windows

-----------------------------------------------------------------------------
(* What a step does to the command it belongs to, and to a generation;     *)
(* the other commands and the other generations are left alone.            *)
TaskIs(t, cmd, pc, epoch, session, result) ==
    /\ tasks' \in [Everyone -> Task]
    /\ tasks'[t].cmd = cmd /\ tasks'[t].pc = pc /\ tasks'[t].epoch = epoch
    /\ tasks'[t].session = session /\ tasks'[t].result = result
    /\ \A u \in Everyone \ {t} : tasks'[u] = tasks[u]

GenerationIs(e, life, session, host, cfwd) ==
    /\ rt' \in [Epochs -> Generation]
    /\ rt'[e].life = life /\ rt'[e].session = session
    /\ rt'[e].host = host /\ rt'[e].cfwd = cfwd
    /\ \A f \in Epochs \ {e} : rt'[f] = rt[f]

Labels == {"idle", "wait", "reading", "recheck", "destroy"} \union Critical
Results == {"none", "page", "unavailable", "mismatch",
            "completed", "stopped", "rejected", "internal", "undrained"}
Replied == [epoch : 0 .. MaxEpoch, session : Session]

(* A record of the type with some fields changed is of the type.           *)
LEMMA TaskFields ==
    ASSUME NEW k \in Task, NEW pc \in Labels
    PROVE  /\ [k EXCEPT !.pc = pc] \in Task
           /\ \A result \in Results : [k EXCEPT !.pc = pc, !.result = result] \in Task
           /\ \A epoch \in 0 .. MaxEpoch :
                /\ [k EXCEPT !.pc = pc, !.epoch = epoch] \in Task
                /\ \A result \in Results :
                     [k EXCEPT !.pc = pc, !.result = result, !.epoch = epoch] \in Task
BY DEF Task, Labels, Results

LEMMA Reset ==
    ASSUME NEW cmd \in Commands \union {"none", "close"}, NEW pc \in Labels,
           NEW session \in Session, NEW reply \in Replied
    PROVE  /\ [Resting EXCEPT !.cmd = cmd, !.pc = pc, !.session = session] \in Task
           /\ [Resting EXCEPT !.cmd = cmd, !.pc = pc] \in Task
           /\ [Resting EXCEPT !.reply = reply] \in Task
           /\ Refused \in Replied
<1>1. 0 \in 0 .. MaxEpoch
  BY BoundsArePositive
<1>2. Refused \in Replied
  BY <1>1 DEF Refused, Names, Replied, Session
<1>3. "idle" \in Labels /\ NoSession \in Session
  BY DEF Labels, Session
<1> QED
  BY <1>1, <1>2, <1>3 DEF Resting, Task, Labels, Replied

LEMMA GoesTo ==
    ASSUME Types, NEW t \in Everyone, NEW pc \in Labels, Goes(t, pc)
    PROVE  TaskIs(t, tasks[t].cmd, pc, tasks[t].epoch, tasks[t].session, tasks[t].result)
<1>1. tasks' = [tasks EXCEPT ![t] = [tasks[t] EXCEPT !.pc = pc]]
  BY DEF Types, Goes
<1>2. tasks[t] \in Task /\ [tasks[t] EXCEPT !.pc = pc] \in Task
  BY TaskFields DEF Types
<1>3. tasks'[t] = [tasks[t] EXCEPT !.pc = pc]
  BY <1>1 DEF Types
<1> QED
  BY <1>1, <1>2, <1>3 DEF Types, TaskIs, Task

LEMMA NextTo ==
    ASSUME Types, NEW t \in Everyone, NEW pc \in Labels, NEW result \in Results,
           Next_(t, pc, result)
    PROVE  TaskIs(t, tasks[t].cmd, pc, tasks[t].epoch, tasks[t].session, result)
<1>1. tasks' = [tasks EXCEPT ![t] = [tasks[t] EXCEPT !.pc = pc, !.result = result]]
  BY DEF Types, Next_
<1>2. tasks[t] \in Task /\ [tasks[t] EXCEPT !.pc = pc, !.result = result] \in Task
  BY TaskFields DEF Types
<1>3. tasks'[t] = [tasks[t] EXCEPT !.pc = pc, !.result = result]
  BY <1>1 DEF Types
<1> QED
  BY <1>1, <1>2, <1>3 DEF Types, TaskIs, Task

LEMMA RepliesTo ==
    ASSUME Types, NEW t \in Everyone, NEW reply \in Replied, Replies(t, reply)
    PROVE  TaskIs(t, "none", "idle", 0, NoSession, "none")
<1>1. [Resting EXCEPT !.reply = reply] \in Task
  BY Reset DEF Labels, Session
<1>2. tasks'[t] = [Resting EXCEPT !.reply = reply]
  BY DEF Types, Replies
<1> QED
  BY <1>1, <1>2 DEF Types, TaskIs, Replies, Resting

LEMMA BecomesIs ==
    ASSUME Types, NEW e \in Epochs, NEW g \in Generation, Becomes(e, g)
    PROVE  GenerationIs(e, g.life, g.session, g.host, g.cfwd)
BY DEF Types, Becomes, GenerationIs

(* The current generation, and the one a shutdown works on, exist.         *)
LEMMA GenerationsExist ==
    ASSUME RuntimeInv
    PROVE  /\ current # 0 => current \in Epochs /\ current = next_epoch - 1 /\ rt[current].life # "none"
           /\ \A t \in Everyone : tasks[t].pc \in Stopping =>
                 /\ tasks[t].epoch \in Epochs /\ tasks[t].epoch = next_epoch - 1
                 /\ rt[tasks[t].epoch].life # "none" /\ current = 0
BY Distinct, BoundsArePositive DEF RuntimeInv, Core, Types, LockHeld, Lives, Epochs, Everyone,
   Tasks, Critical

(* A command that neither has the lock nor takes it disturbs nothing.      *)
Quiet == UNCHANGED <<next_epoch, current, lock, rt, out, seen, abandoned>>

LEMMA QuietTask ==
    ASSUME RuntimeInv, NEW t \in Everyone, NEW cmd, NEW pc, NEW epoch, NEW session, NEW result,
           TaskIs(t, cmd, pc, epoch, session, result), lock # t, pc \notin Critical,
           cmd \in NamesSession => session # NoSession,
           pc \in {"reading", "recheck"} => cmd = "history" /\ epoch \in 1 .. next_epoch - 1,
           pc = "recheck" /\ result = "page" => rt[epoch].session = session,
           Quiet, window' \in {window, "failed", "open", "closing", "destroyed"}
    PROVE  Core'
<1> USE DEF RuntimeInv, Core, Quiet, TaskIs
<1>1. Types'
  BY DEF Types
<1>2. lock # Free => lock \in Everyone \ {t} /\ tasks'[lock] = tasks[lock]
  BY DEF Types
<1>3. LockHeld'
  BY <1>2 DEF LockHeld
<1>4. Lives'
  BY <1>2 DEF Lives, Alive
<1>5. Ownership'
  BY <1>2 DEF Ownership, Owned, Alive
<1>6. Pages'
  BY DEF Pages
<1>7. Ordered'
  BY DEF Ordered
<1> QED
  BY <1>1, <1>3, <1>4, <1>5, <1>6, <1>7

(* What a host or a forwarder does by itself: it stops, dies or moves an   *)
(* envelope on, and never comes to life.                                   *)
LEMMA GenerationMoves ==
    ASSUME RuntimeInv, NEW e \in Epochs, NEW host, NEW cfwd,
           GenerationIs(e, rt[e].life, rt[e].session, host, cfwd), rt[e].life # "none",
           host \in {"up", "stopping"} => Alive(e),
           host = rt[e].host \/ (rt[e].host # "down" /\ rt[e].host # "none"),
           cfwd = "running" => rt[e].cfwd = "running",
           UNCHANGED <<next_epoch, current, lock, tasks, seen, window, abandoned>>
    PROVE  LockHeld' /\ Lives' /\ Ownership' /\ Pages'
<1> USE DEF RuntimeInv, Core, GenerationIs
<1>1. \A f \in Epochs : /\ rt'[f].life = rt[f].life /\ rt'[f].session = rt[f].session
                        /\ rt[f].life = "none" => rt'[f] = rt[f]
                        /\ rt'[f].host \in {"up", "stopping"} => Alive(f)
                        /\ rt[f].host \in {"none", "down"} => rt'[f].host = rt[f].host
                        /\ rt'[f].cfwd = "running" => rt[f].cfwd = "running"
  BY DEF Alive
<1>2. LockHeld'
  BY DEF LockHeld
<1>3. Lives'
  <2>1. lock # Free /\ tasks[lock].pc \in Starting => current \in Epochs
    BY GenerationsExist DEF LockHeld
  <2>2. lock # Free /\ tasks[lock].pc = "drain" => tasks[lock].epoch \in Epochs
    BY GenerationsExist DEF Types, Stopping
  <2> QED
    BY <1>1, <2>1, <2>2 DEF Lives, Alive, Starting
<1>4. Ownership'
  BY <1>1 DEF Ownership, Owned, Alive
<1>5. Pages'
  <2>1. \A t \in Everyone : tasks[t].pc = "recheck" => tasks[t].epoch \in Epochs
    BY BoundsArePositive DEF Types, Pages, Epochs
  <2> QED
    BY <1>1, <2>1 DEF Pages
<1> QED
  BY <1>2, <1>3, <1>4, <1>5

(* The commands that never touch the lock, and those that are refused.     *)
LEMMA HolderFacts ==
    ASSUME RuntimeInv, NEW t \in Everyone
    PROVE  /\ lock = Free => lock # t
           /\ tasks[t].pc \notin Critical => lock # t
           /\ lock = Free => tasks[t].pc \notin Critical
           /\ tasks[t].pc \in Critical => lock = t /\ t # Free
<1>1. t # Free
  BY Distinct DEF Everyone, Tasks
<1>2. lock # Free => tasks[lock].pc \in Critical
  BY DEF RuntimeInv, Core, LockHeld
<1>3. tasks[t].pc \in Critical => lock = t
  BY DEF RuntimeInv, Core, LockHeld
<1> QED
  BY <1>1, <1>2, <1>3

LEMMA RefusedQuietly ==
    ASSUME RuntimeInv, NEW t \in Everyone, NEW reply \in Replied, Replies(t, reply),
           lock # t, Quiet, window' = window
    PROVE  Core'
<1>1. TaskIs(t, "none", "idle", 0, NoSession, "none")
  BY RepliesTo DEF RuntimeInv, Core
<1> QED
  BY <1>1, QuietTask DEF NamesSession, Critical, Starting, Stopping

(* The session that a command names exists, and so does that of a          *)
(* generation.                                                             *)
LEMMA NamesTyped ==
    ASSUME RuntimeInv
    PROVE  /\ Refused \in Replied
           /\ current # 0 => Names(current, rt[current].session) \in Replied
           /\ \A t \in Everyone : Names(current, tasks[t].session) \in Replied
           /\ next_epoch <= MaxEpoch => Names(next_epoch, NoSession) \in Replied
<1> USE BoundsArePositive DEF RuntimeInv, Core, Types
<1>1. current \in 0 .. MaxEpoch
  OBVIOUS
<1>2. current # 0 => current \in Epochs
  BY <1>1 DEF Epochs
<1>3. \A e \in Epochs : rt[e].session \in Session
  BY DEF Generation
<1>4. \A t \in Everyone : tasks[t].session \in Session
  BY DEF Task
<1>5. NoSession \in Session /\ 0 \in 0 .. MaxEpoch
  BY DEF Session
<1> QED
  BY <1>1, <1>2, <1>3, <1>4, <1>5 DEF Names, Refused, Replied

LEMMA Issues ==
    ASSUME RuntimeInv, NEW t \in Tasks, NEW cmd \in Commands, NEW s \in Session, Issue(t, cmd, s)
    PROVE  Core'
<1>1. t \in Everyone /\ lock # t
  BY HolderFacts DEF Issue, Everyone, Critical, Starting, Stopping
<1>2. [Resting EXCEPT !.cmd = cmd, !.pc = "wait", !.session = s] \in Task
  BY Reset, NamesTyped DEF Labels
<1>3. TaskIs(t, cmd, "wait", 0, s, "none")
  BY <1>1, <1>2 DEF Issue, RuntimeInv, Core, Types, TaskIs, Resting
<1>4. cmd \in NamesSession => s # NoSession
  BY DEF Issue, Commands
<1> QED
  BY <1>1, <1>3, <1>4, QuietTask DEF Issue, Quiet, Critical, Starting, Stopping

LEMMA CloseRequested ==
    ASSUME RuntimeInv, close_requested
    PROVE  Core'
<1>1. Closer \in Everyone /\ lock # Closer
  BY HolderFacts DEF close_requested, RuntimeInv, Windows, Everyone, Critical, Starting, Stopping
<1>2. [Resting EXCEPT !.cmd = "close", !.pc = "wait"] \in Task
  BY Reset, NamesTyped DEF Labels, Session
<1>3. TaskIs(Closer, "close", "wait", 0, NoSession, "none")
  BY <1>1, <1>2 DEF close_requested, RuntimeInv, Core, Types, TaskIs, Resting
<1> QED
  BY <1>1, <1>3, QuietTask DEF close_requested, Quiet, Critical, Starting, Stopping, NamesSession

LEMMA QuietCommands ==
    ASSUME RuntimeInv, NEW t \in Everyone,
           NoRuntime(t) \/ list_sessions(t) \/ history_ends(t)
    PROVE  Core'
<1>1. lock # t /\ Quiet /\ window' = window
  BY HolderFacts DEF NoRuntime, list_sessions, Enters, history_ends, OnlyTask, windowSide, Quiet
<1>2. \E reply \in Replied : Replies(t, reply)
  BY NamesTyped DEF NoRuntime, list_sessions, history_ends
<1> QED
  BY <1>1, <1>2, RefusedQuietly

LEMMA HistoryBegins ==
    ASSUME RuntimeInv, NEW t \in Everyone, history_begins(t)
    PROVE  Core'
<1>1. lock # t /\ Quiet /\ window' = window
  BY HolderFacts DEF history_begins, Enters, OnlyTask, windowSide, Quiet
<1>2. current \in 1 .. next_epoch - 1
  BY BoundsArePositive DEF history_begins, RuntimeInv, Core, Types
<1>3. tasks' = [tasks EXCEPT ![t] = [tasks[t] EXCEPT !.pc = "reading", !.epoch = current]]
  BY DEF history_begins, RuntimeInv, Core, Types
<1>4. [tasks[t] EXCEPT !.pc = "reading", !.epoch = current] \in Task
  <2>1. current \in 0 .. MaxEpoch
    BY <1>2, BoundsArePositive DEF RuntimeInv, Core, Types
  <2>2. tasks[t] \in Task /\ "reading" \in Labels
    BY DEF RuntimeInv, Core, Types, Labels
  <2> QED
    BY <2>1, <2>2, TaskFields
<1>5. TaskIs(t, tasks[t].cmd, "reading", current, tasks[t].session, tasks[t].result)
  BY <1>3, <1>4 DEF RuntimeInv, Core, Types, TaskIs, Task
<1> QED
  BY <1>1, <1>2, <1>5, QuietTask DEF history_begins, Enters, RuntimeInv, Core, Pages,
     Critical, Starting, Stopping

LEMMA HistoryRead ==
    ASSUME RuntimeInv, NEW t \in Everyone, history_read(t)
    PROVE  Core'
<1>1. lock # t /\ Quiet /\ window' = window
  BY HolderFacts DEF history_read, OnlyTask, windowSide, Quiet, Critical, Starting, Stopping
<1>2. PICK page \in {"page", "unavailable"} :
         tasks' = [tasks EXCEPT ![t].pc = "recheck", ![t].result =
             IF rt[tasks[t].epoch].session = tasks[t].session THEN page ELSE "mismatch"]
  BY DEF history_read
<1> DEFINE result == IF rt[tasks[t].epoch].session = tasks[t].session THEN page ELSE "mismatch"
<1>3. tasks' = [tasks EXCEPT ![t] = [tasks[t] EXCEPT !.pc = "recheck", !.result = result]]
  BY <1>2 DEF RuntimeInv, Core, Types
<1>4. [tasks[t] EXCEPT !.pc = "recheck", !.result = result] \in Task
  BY TaskFields DEF RuntimeInv, Core, Types, Labels, Results
<1>5. TaskIs(t, tasks[t].cmd, "recheck", tasks[t].epoch, tasks[t].session, result)
  BY <1>3, <1>4 DEF RuntimeInv, Core, Types, TaskIs, Task
<1>6. result = "page" => rt[tasks[t].epoch].session = tasks[t].session
  OBVIOUS
<1>7. "recheck" \notin Critical
  BY DEF Critical, Starting, Stopping
<1> HIDE DEF result
<1> QED
  BY <1>1, <1>5, <1>6, <1>7, QuietTask DEF history_read, RuntimeInv, Core, Pages

LEMMA DestroyWindow ==
    ASSUME RuntimeInv, destroy_window
    PROVE  Core'
<1>1. Closer \in Everyone /\ lock # Closer
  BY HolderFacts DEF destroy_window, Everyone, Critical, Starting, Stopping
<1>2. TaskIs(Closer, "none", "idle", 0, NoSession, "none")
  BY <1>1, RepliesTo, NamesTyped DEF destroy_window, RuntimeInv, Core
<1> QED
  BY <1>1, <1>2, QuietTask DEF destroy_window, Quiet, Critical, Starting, Stopping, NamesSession

LEMMA PlacesAndEpochs ==
    /\ Places \in Nat /\ Places >= 1 /\ MaxEpoch \in Nat /\ MaxEpoch >= 1
    /\ 0 \in 0 .. Places /\ 1 \in 0 .. Places
    /\ \A n \in 0 .. Places : (n > 0 => n - 1 \in 0 .. Places) /\ (n < Places => n + 1 \in 0 .. Places)
BY BoundsArePositive

(* The host, the forwarders and the pump.                                  *)
LEMMA HostMoves ==
    ASSUME RuntimeInv, NEW e \in Epochs, host_publishes(e) \/ host_stops(e) \/ host_dies(e) \/ forward(e)
    PROVE  Core'
<1>1. PICK g \in Generation :
         /\ Becomes(e, g) /\ g.life = rt[e].life /\ g.session = rt[e].session
         /\ g.cfwd = rt[e].cfwd
         /\ g.host \in {"up", "stopping"} => Alive(e)
         /\ g.host = rt[e].host \/ (rt[e].host # "down" /\ rt[e].host # "none")
  <2>1. rt[e] \in Generation
    BY DEF RuntimeInv, Core, Types
  <2>2. CASE host_publishes(e)
    BY <2>1, <2>2, BoundsArePositive DEF host_publishes, HostOnly, Alive, Generation
  <2>3. CASE host_stops(e)
    <3>1. PICK end \in {"closed", "endless"} :
             HostOnly(e, [rt[e] EXCEPT !.host = "down", !.buf = 1, !.stream = end])
      BY <2>3 DEF host_stops
    <3> DEFINE g == [rt[e] EXCEPT !.host = "down", !.buf = 1, !.stream = end]
    <3>2. /\ g \in Generation /\ g.life = rt[e].life /\ g.session = rt[e].session
          /\ g.cfwd = rt[e].cfwd /\ g.host = "down"
      BY <2>1, PlacesAndEpochs DEF Generation
    <3>3. Becomes(e, g) /\ rt[e].host = "stopping"
      BY <2>3, <3>1 DEF HostOnly, host_stops
    <3> HIDE DEF g
    <3> QED
      BY <3>2, <3>3
  <2>4. CASE host_dies(e)
    BY <2>1, <2>4, BoundsArePositive DEF host_dies, HostOnly, Alive, Generation
  <2>5. CASE forward(e)
    <3> DEFINE moved == [rt[e] EXCEPT !.buf = IF @ > 0 THEN @ - 1 ELSE 0, !.chan = @ + 1]
               ends(how) == [rt[e] EXCEPT !.fwd = how]
    <3>1. rt[e].chan < Places =>
             /\ moved \in Generation /\ moved.life = rt[e].life /\ moved.session = rt[e].session
             /\ moved.cfwd = rt[e].cfwd /\ moved.host = rt[e].host
      <4>1. rt[e].buf \in 0 .. Places /\ rt[e].chan \in 0 .. Places
        BY <2>1 DEF Generation
      <4>2. (IF rt[e].buf > 0 THEN rt[e].buf - 1 ELSE 0) \in 0 .. Places
        BY <4>1, PlacesAndEpochs
      <4>3. rt[e].chan < Places => rt[e].chan + 1 \in 0 .. Places
        BY <4>1, PlacesAndEpochs
      <4> QED
        BY <2>1, <4>2, <4>3 DEF Generation
    <3>2. \A how \in {"failed", "ended"} :
             /\ ends(how) \in Generation /\ ends(how).life = rt[e].life
             /\ ends(how).session = rt[e].session
             /\ ends(how).cfwd = rt[e].cfwd /\ ends(how).host = rt[e].host
      BY <2>1, BoundsArePositive DEF Generation
    <3>3. \/ rt[e].chan < Places /\ Becomes(e, moved)
          \/ Becomes(e, ends("failed")) \/ Becomes(e, ends("ended"))
      BY <2>5 DEF forward, HostOnly
    <3> HIDE DEF moved, ends
    <3> QED
      BY <3>1, <3>2, <3>3 DEF Alive
  <2> QED
    BY <2>2, <2>3, <2>4, <2>5
<1>2. UNCHANGED <<next_epoch, current, lock, tasks, windowSide, abandoned>>
  BY DEF host_publishes, host_stops, host_dies, forward, HostOnly
<1>3. rt[e].life # "none"
  BY DEF host_publishes, host_stops, host_dies, forward, RuntimeInv, Core, Lives, Unborn
<1>4. GenerationIs(e, rt[e].life, rt[e].session, g.host, rt[e].cfwd)
  BY <1>1, BecomesIs DEF RuntimeInv, Core
<1>5. Types'
  BY <1>2, <1>4 DEF GenerationIs, RuntimeInv, Core, Types, windowSide
<1>6. Ordered'
  BY <1>2 DEF RuntimeInv, Core, Ordered, windowSide
<1> QED
  BY <1>1, <1>2, <1>3, <1>4, <1>5, <1>6, GenerationMoves DEF Core, windowSide

(* Only the newest generation's forwarder still runs, unless a close       *)
(* request gave up.                                                        *)
LEMMA NewestForwards ==
    ASSUME RuntimeInv, ~ abandoned, NEW e \in Epochs, rt[e].cfwd = "running"
    PROVE  e = next_epoch - 1
BY GenerationsExist DEF RuntimeInv, Core, Types, Ownership, Owned, Stopping, LockHeld, Epochs

LEMMA GenerationForwards ==
    ASSUME RuntimeInv, NEW e \in Epochs, forward_generation(e)
    PROVE  Core'
<1>1. PICK g \in Generation :
         /\ Becomes(e, g) /\ g.life = rt[e].life /\ g.session = rt[e].session
         /\ g.host = rt[e].host
  <2>1. rt[e] \in Generation
    BY DEF RuntimeInv, Core, Types
  <2> QED
    <3> DEFINE moved == [rt[e] EXCEPT !.chan = @ - 1]
               ends(how, left) == [rt[e] EXCEPT !.cfwd = how, !.chan = left]
    <3>1. rt[e].chan > 0 =>
             /\ moved \in Generation /\ moved.life = rt[e].life /\ moved.session = rt[e].session
             /\ moved.host = rt[e].host
      BY <2>1, BoundsArePositive DEF Generation
    <3>2. \A how \in {"failed", "ended"} :
             /\ ends(how, 0) \in Generation /\ ends(how, 0).life = rt[e].life
             /\ ends(how, 0).session = rt[e].session /\ ends(how, 0).host = rt[e].host
      BY <2>1, PlacesAndEpochs DEF Generation
    <3>3. rt[e].chan = 0 => [rt[e] EXCEPT !.cfwd = "ended"] = ends("ended", 0)
      BY <2>1 DEF Generation
    <3>4. \/ rt[e].chan > 0 /\ Becomes(e, moved)
          \/ Becomes(e, ends("failed", 0)) \/ Becomes(e, ends("ended", 0))
      BY <3>3 DEF forward_generation
    <3> HIDE DEF moved, ends
    <3> QED
      BY <3>1, <3>2, <3>4
<1>2. rt[e].cfwd = "running" /\ rt[e].life # "none"
  BY DEF forward_generation, RuntimeInv, Core, Lives, Unborn
<1>3. e < next_epoch
  BY <1>2 DEF RuntimeInv, Core, Lives, Types, Epochs
<1>4. GenerationIs(e, rt[e].life, rt[e].session, rt[e].host, g.cfwd)
  BY <1>1, BecomesIs DEF RuntimeInv, Core
<1>5. out' = out \/ (out' = Append(out, e) /\ Len(out) < Places)
  BY DEF forward_generation
<1>6. UNCHANGED <<next_epoch, current, lock, tasks, seen, window, abandoned>>
  BY DEF forward_generation
<1>7. Types'
  <2>1. out' \in Seq(Epochs) /\ Len(out') <= Places
    BY <1>5, BoundsArePositive DEF RuntimeInv, Core, Types
  <2> QED
    BY <1>4, <1>6, <2>1 DEF GenerationIs, RuntimeInv, Core, Types
<1>8. Ordered'
  <2>1. CASE out' = out
    BY <2>1, <1>6 DEF RuntimeInv, Core, Ordered
  <2>2. CASE out' = Append(out, e)
    <3>1. /\ Len(out') = Len(out) + 1 /\ out'[Len(out) + 1] = e
          /\ \A i \in 1 .. Len(out) : out'[i] = out[i]
          /\ Len(out) \in Nat /\ \A i \in 1 .. Len(out) : out[i] \in Int
      <4>1. out \in Seq(Epochs)
        BY DEF RuntimeInv, Core, Types
      <4>2. \A i \in 1 .. Len(out) : out[i] \in Epochs
        BY <4>1
      <4> QED
        BY <2>2, <4>1, <4>2 DEF Epochs
    <3>2. ~ abandoned => e = next_epoch - 1
      BY <1>2, NewestForwards
    <3>3. \A i \in 1 .. Len(out') : out'[i] < next_epoch
      BY <1>3, <3>1 DEF RuntimeInv, Core, Ordered
    <3>4. ~ abandoned => \A i \in 1 .. Len(out') : seen <= out'[i]
      BY <3>1, <3>2 DEF RuntimeInv, Core, Ordered, Types
    <3>5. ~ abandoned => \A i, j \in 1 .. Len(out') : i < j => out'[i] <= out'[j]
      <4>1. SUFFICES ASSUME ~ abandoned, NEW i \in 1 .. Len(out'), NEW j \in 1 .. Len(out'), i < j
                     PROVE  out'[i] <= out'[j]
        OBVIOUS
      <4>2. i \in 1 .. Len(out) /\ out'[i] = out[i] /\ out[i] < next_epoch
        BY <3>1, <4>1 DEF RuntimeInv, Core, Ordered
      <4>3. CASE j = Len(out) + 1
        BY <3>1, <3>2, <4>1, <4>2, <4>3 DEF RuntimeInv, Core, Types
      <4>4. CASE j # Len(out) + 1
        BY <3>1, <4>1, <4>2, <4>4 DEF RuntimeInv, Core, Ordered
      <4> QED
        BY <4>3, <4>4
    <3> QED
      BY <1>6, <3>3, <3>4, <3>5 DEF Ordered
  <2> QED
    BY <1>5, <2>1, <2>2
<1>9. rt[e].host \in {"up", "stopping"} => Alive(e)
  BY DEF Alive
<1> QED
  BY <1>1, <1>2, <1>4, <1>6, <1>7, <1>8, <1>9, GenerationMoves DEF Core

LEMMA PumpEmits ==
    ASSUME RuntimeInv, pump_emits
    PROVE  Core'
<1> USE DEF RuntimeInv, Core
<1>1. UNCHANGED <<next_epoch, current, lock, rt, tasks, issued, window, abandoned>>
  BY DEF pump_emits
<1>2. LockHeld' /\ Lives' /\ Ownership' /\ Pages'
  BY <1>1 DEF LockHeld, Lives, Alive, Ownership, Owned, Pages
<1>3. CASE out' = << >> /\ seen' = seen
  BY <1>1, <1>2, <1>3, BoundsArePositive DEF Types, Ordered
<1>4. CASE seen' = Head(out) /\ out' = Tail(out)
  <2>1. /\ Len(out) \in Nat /\ Len(out) >= 1 /\ Tail(out) \in Seq(Epochs)
        /\ Len(out') = Len(out) - 1 /\ seen' = out[1] /\ out[1] \in Epochs
        /\ \A i \in 1 .. Len(out') : out'[i] = out[i + 1] /\ i + 1 \in 1 .. Len(out)
    BY <1>4 DEF pump_emits, Types
  <2>2. seen' \in 0 .. next_epoch - 1
    BY <2>1 DEF Types, Ordered, Epochs
  <2>3. Types'
    BY <1>1, <1>4, <2>1, <2>2, BoundsArePositive DEF Types
  <2>4. \A i \in 1 .. Len(out') : out'[i] < next_epoch
    BY <2>1 DEF Ordered
  <2>5. ~ abandoned => /\ \A i \in 1 .. Len(out') : seen' <= out'[i]
                       /\ \A i, j \in 1 .. Len(out') : i < j => out'[i] <= out'[j]
    BY <2>1 DEF Ordered
  <2> QED
    BY <1>1, <1>2, <2>3, <2>4, <2>5 DEF Ordered
<1> QED
  BY <1>3, <1>4 DEF pump_emits

(* The steps under the lock: nobody else is in a critical section.         *)
LEMMA NobodyElse ==
    ASSUME RuntimeInv, NEW t \in Everyone, lock \in {Free, t}
    PROVE  \A u \in Everyone \ {t} : tasks[u].pc \notin Critical
BY HolderFacts

LEMMA PagesKeep ==
    ASSUME RuntimeInv, NEW t \in Everyone,
           NEW cmd, NEW pc, NEW epoch, NEW session, NEW result,
           TaskIs(t, cmd, pc, epoch, session, result), pc \notin {"reading", "recheck"},
           cmd \in NamesSession => session # NoSession, next_epoch' \in {next_epoch, next_epoch + 1},
           \A f \in Epochs : f < next_epoch =>
              rt'[f].session = rt[f].session \/ rt[f].session = NoSession
    PROVE  Pages'
<1> USE DEF RuntimeInv, Core, Types, Pages, TaskIs
<1>1. \A u \in Everyone : tasks[u].pc \in {"reading", "recheck"} =>
         tasks[u].epoch \in Epochs /\ tasks[u].epoch < next_epoch
  BY PlacesAndEpochs DEF Epochs
<1>2. \A u \in Everyone : tasks[u].pc \in {"reading", "recheck"} => tasks[u].session # NoSession
  BY DEF NamesSession
<1> QED
  BY <1>1, <1>2

LEMMA OrderedKeep ==
    ASSUME RuntimeInv, UNCHANGED <<next_epoch, out, seen, abandoned>>
    PROVE  Ordered'
BY DEF RuntimeInv, Core, Ordered

LEMMA HostStarts ==
    ASSUME RuntimeInv, NEW t \in Everyone, host_starts(t)
    PROVE  Core'
<1>1. /\ lock = t /\ lock' = t /\ t # Free
      /\ UNCHANGED <<next_epoch, out, seen, window, abandoned>>
  BY HolderFacts DEF host_starts, Holds, Goes, windowSide, Critical, Starting, Stopping
<1>2. \A u \in Everyone \ {t} : tasks[u].pc \notin Critical
  BY <1>1, NobodyElse
<1>3. TaskIs(t, tasks[t].cmd, "asking", tasks[t].epoch, tasks[t].session, tasks[t].result)
  BY GoesTo DEF host_starts, Holds, Goes, RuntimeInv, Core, Labels, Critical, Starting,
     Stopping, Results
<1>4. current \in Epochs /\ GenerationIs(current, rt[current].life, rt[current].session, "up", rt[current].cfwd)
  <2>1. current \in Epochs /\ rt[current] \in Generation
    BY <1>1, GenerationsExist DEF host_starts, Holds, Goes, RuntimeInv, Core, Types, LockHeld,
       Critical, Starting, Stopping
  <2> DEFINE g == [rt[current] EXCEPT !.host = "up", !.buf = 1]
  <2>2. g \in Generation /\ g.life = rt[current].life /\ g.session = rt[current].session /\ g.host = "up" /\ g.cfwd = rt[current].cfwd
    BY <2>1, PlacesAndEpochs DEF Generation
  <2>3. Becomes(current, g)
    BY DEF host_starts, Holds, Goes, RuntimeInv, Core
  <2> HIDE DEF g
  <2> QED
    BY <2>1, <2>2, <2>3, BecomesIs DEF RuntimeInv, Core
<1>5. current' = current
  BY DEF host_starts, Holds, Goes
<1>6. Types'
  BY <1>1, <1>2, <1>3, <1>4, <1>5 DEF TaskIs, GenerationIs, RuntimeInv, Core, Types
<1>7. LockHeld'
  BY <1>1, <1>2, <1>3, <1>4, <1>5, GenerationsExist DEF host_starts, Holds, Goes, TaskIs,
     RuntimeInv, Core, LockHeld, Critical, Starting, Stopping
<1>8. Lives'
  BY <1>1, <1>2, <1>3, <1>4, <1>5, GenerationsExist DEF host_starts, Holds, Goes, TaskIs,
     GenerationIs, RuntimeInv, Core, LockHeld, Lives, Alive, Critical, Starting, Stopping
<1>9. Ownership'
  BY <1>1, <1>2, <1>3, <1>4, <1>5, GenerationsExist DEF host_starts, Holds, Goes, TaskIs,
     GenerationIs, RuntimeInv, Core, LockHeld, Lives, Alive, Ownership, Owned, Critical,
     Starting, Stopping
<1>10. \A f \in Epochs : f < next_epoch => rt'[f].session = rt[f].session \/ rt[f].session = NoSession
  BY <1>1, <1>2, <1>3, <1>4, <1>5 DEF GenerationIs, RuntimeInv, Core, LockHeld, Lives, Starting,
     Critical
<1>11. Pages' /\ Ordered'
  BY <1>1, <1>2, <1>3, <1>4, <1>5, <1>10, PagesKeep, OrderedKeep DEF RuntimeInv, Core, Pages,
     NamesSession
<1> QED
  BY <1>6, <1>7, <1>8, <1>9, <1>11 DEF Core

LEMMA HostStartFails ==
    ASSUME RuntimeInv, NEW t \in Everyone, host_start_fails(t)
    PROVE  Core'
<1>1. /\ lock = t /\ lock' = Free /\ t # Free
      /\ UNCHANGED <<next_epoch, out, seen, window, abandoned>>
  BY HolderFacts DEF host_start_fails, Holds, windowSide, Critical, Starting, Stopping
<1>2. \A u \in Everyone \ {t} : tasks[u].pc \notin Critical
  BY <1>1, NobodyElse
<1>3. TaskIs(t, "none", "idle", 0, NoSession, "none")
  BY RepliesTo, NamesTyped DEF host_start_fails, Holds, RuntimeInv, Core, Labels, Critical,
     Starting, Stopping, Results
<1>4. current \in Epochs /\ GenerationIs(current, "stopped", rt[current].session, rt[current].host, rt[current].cfwd)
  <2>1. current \in Epochs /\ rt[current] \in Generation
    BY <1>1, GenerationsExist DEF host_start_fails, Holds, RuntimeInv, Core, Types, LockHeld,
       Critical, Starting, Stopping
  <2> DEFINE g == stop_unstarted(rt[current])
  <2>2. g \in Generation /\ g.life = "stopped" /\ g.session = rt[current].session /\ g.host = rt[current].host /\ g.cfwd = rt[current].cfwd
    BY <2>1, PlacesAndEpochs DEF Generation, stop_unstarted
  <2>3. Becomes(current, g)
    BY DEF host_start_fails, Holds, RuntimeInv, Core
  <2> HIDE DEF g
  <2> QED
    BY <2>1, <2>2, <2>3, BecomesIs DEF RuntimeInv, Core
<1>5. current' = current
  BY DEF host_start_fails, Holds
<1>6. Types'
  BY <1>1, <1>2, <1>3, <1>4, <1>5 DEF TaskIs, GenerationIs, RuntimeInv, Core, Types
<1>7. LockHeld'
  BY <1>1, <1>2, <1>3, <1>4, <1>5, GenerationsExist DEF host_start_fails, Holds, TaskIs,
     RuntimeInv, Core, LockHeld, Critical, Starting, Stopping
<1>8. Lives'
  BY <1>1, <1>2, <1>3, <1>4, <1>5, GenerationsExist DEF host_start_fails, Holds, TaskIs,
     GenerationIs, RuntimeInv, Core, LockHeld, Lives, Alive, Critical, Starting, Stopping
<1>9. Ownership'
  BY <1>1, <1>2, <1>3, <1>4, <1>5, GenerationsExist DEF host_start_fails, Holds, TaskIs,
     GenerationIs, RuntimeInv, Core, LockHeld, Lives, Alive, Ownership, Owned, Critical,
     Starting, Stopping
<1>10. \A f \in Epochs : f < next_epoch => rt'[f].session = rt[f].session \/ rt[f].session = NoSession
  BY <1>1, <1>2, <1>3, <1>4, <1>5 DEF GenerationIs, RuntimeInv, Core, LockHeld, Lives, Starting,
     Critical
<1>11. Pages' /\ Ordered'
  BY <1>1, <1>2, <1>3, <1>4, <1>5, <1>10, PagesKeep, OrderedKeep DEF RuntimeInv, Core, Pages,
     NamesSession
<1> QED
  BY <1>6, <1>7, <1>8, <1>9, <1>11 DEF Core

LEMMA SessionStarts ==
    ASSUME RuntimeInv, NEW t \in Everyone, session_starts(t)
    PROVE  Core'
<1>1. /\ lock = t /\ lock' = Free /\ t # Free
      /\ UNCHANGED <<next_epoch, out, seen, window, abandoned>>
  BY HolderFacts DEF session_starts, Holds, windowSide, Critical, Starting, Stopping
<1>2. \A u \in Everyone \ {t} : tasks[u].pc \notin Critical
  BY <1>1, NobodyElse
<1>3. TaskIs(t, "none", "idle", 0, NoSession, "none")
  BY RepliesTo, NamesTyped DEF session_starts, Holds, RuntimeInv, Core, Labels, Critical,
     Starting, Stopping, Results
<1>4. tasks[t].session \in Session
  BY <1>1, HolderFacts DEF RuntimeInv, Core, Types, Task
<1>5. current \in Epochs /\ GenerationIs(current, "running", tasks[t].session, rt[current].host, rt[current].cfwd)
  <2>1. current \in Epochs /\ rt[current] \in Generation
    BY <1>1, <1>4, GenerationsExist DEF session_starts, Holds, RuntimeInv, Core, Types,
       LockHeld, Critical, Starting, Stopping
  <2> DEFINE g == [rt[current] EXCEPT !.life = "running", !.sender = FALSE, !.fwd = "running", !.session = tasks[t].session]
  <2>2. g \in Generation /\ g.life = "running" /\ g.session = tasks[t].session /\ g.host = rt[current].host /\ g.cfwd = rt[current].cfwd
    BY <2>1, <1>4, PlacesAndEpochs DEF Generation
  <2>3. Becomes(current, g)
    BY DEF session_starts, Holds, RuntimeInv, Core
  <2> HIDE DEF g
  <2> QED
    BY <2>1, <2>2, <2>3, BecomesIs DEF RuntimeInv, Core
<1>6. current' = current
  BY DEF session_starts, Holds
<1>7. Types'
  BY <1>1, <1>2, <1>3, <1>4, <1>5, <1>6 DEF TaskIs, GenerationIs, RuntimeInv, Core, Types
<1>8. LockHeld'
  BY <1>1, <1>2, <1>3, <1>4, <1>5, <1>6, GenerationsExist DEF session_starts, Holds, TaskIs,
     RuntimeInv, Core, LockHeld, Critical, Starting, Stopping
<1>9. Lives'
  BY <1>1, <1>2, <1>3, <1>4, <1>5, <1>6, GenerationsExist DEF session_starts, Holds, TaskIs,
     GenerationIs, RuntimeInv, Core, LockHeld, Lives, Alive, Critical, Starting, Stopping
<1>10. Ownership'
  BY <1>1, <1>2, <1>3, <1>4, <1>5, <1>6, GenerationsExist DEF session_starts, Holds, TaskIs,
     GenerationIs, RuntimeInv, Core, LockHeld, Lives, Alive, Ownership, Owned, Critical,
     Starting, Stopping
<1>11. \A f \in Epochs : f < next_epoch => rt'[f].session = rt[f].session \/ rt[f].session = NoSession
  BY <1>1, <1>2, <1>3, <1>4, <1>5, <1>6 DEF GenerationIs, RuntimeInv, Core, LockHeld, Lives,
     Starting, Critical, session_starts, Holds
<1>12. Pages' /\ Ordered'
  BY <1>1, <1>2, <1>3, <1>4, <1>5, <1>6, <1>11, PagesKeep, OrderedKeep DEF RuntimeInv, Core,
     Pages, NamesSession
<1> QED
  BY <1>7, <1>8, <1>9, <1>10, <1>12 DEF Core

LEMMA SnapshotFails ==
    ASSUME RuntimeInv, NEW t \in Everyone, snapshot_fails(t)
    PROVE  Core'
<1>1. /\ lock = t /\ lock' = t /\ t # Free
      /\ UNCHANGED <<next_epoch, out, seen, window, abandoned>>
  BY HolderFacts DEF snapshot_fails, Holds, Goes, windowSide, Critical, Starting, Stopping
<1>2. \A u \in Everyone \ {t} : tasks[u].pc \notin Critical
  BY <1>1, NobodyElse
<1>3. TaskIs(t, tasks[t].cmd, "undoing", tasks[t].epoch, tasks[t].session, tasks[t].result)
  BY GoesTo DEF snapshot_fails, Holds, Goes, RuntimeInv, Core, Labels, Critical, Starting,
     Stopping, Results
<1>4. current \in Epochs /\ GenerationIs(current, rt[current].life, rt[current].session, (IF rt[current].host = "up" THEN "stopping" ELSE rt[current].host), rt[current].cfwd)
  <2>1. current \in Epochs /\ rt[current] \in Generation
    BY <1>1, GenerationsExist DEF snapshot_fails, Holds, Goes, RuntimeInv, Core, Types,
       LockHeld, Critical, Starting, Stopping
  <2> DEFINE g == [rt[current] EXCEPT !.host = IF @ = "up" THEN "stopping" ELSE @]
  <2>2. g \in Generation /\ g.life = rt[current].life /\ g.session = rt[current].session /\ g.host = (IF rt[current].host = "up" THEN "stopping" ELSE rt[current].host) /\ g.cfwd = rt[current].cfwd
    BY <2>1, PlacesAndEpochs DEF Generation
  <2>3. Becomes(current, g)
    BY DEF snapshot_fails, Holds, Goes, RuntimeInv, Core
  <2> HIDE DEF g
  <2> QED
    BY <2>1, <2>2, <2>3, BecomesIs DEF RuntimeInv, Core
<1>5. current' = current
  BY DEF snapshot_fails, Holds, Goes
<1>6. Types'
  BY <1>1, <1>2, <1>3, <1>4, <1>5 DEF TaskIs, GenerationIs, RuntimeInv, Core, Types
<1>7. LockHeld'
  BY <1>1, <1>2, <1>3, <1>4, <1>5, GenerationsExist DEF snapshot_fails, Holds, Goes, TaskIs,
     RuntimeInv, Core, LockHeld, Critical, Starting, Stopping
<1>8. Lives'
  BY <1>1, <1>2, <1>3, <1>4, <1>5, GenerationsExist DEF snapshot_fails, Holds, Goes, TaskIs,
     GenerationIs, RuntimeInv, Core, LockHeld, Lives, Alive, Critical, Starting, Stopping
<1>9. Ownership'
  BY <1>1, <1>2, <1>3, <1>4, <1>5, GenerationsExist DEF snapshot_fails, Holds, Goes, TaskIs,
     GenerationIs, RuntimeInv, Core, LockHeld, Lives, Alive, Ownership, Owned, Critical,
     Starting, Stopping
<1>10. \A f \in Epochs : f < next_epoch => rt'[f].session = rt[f].session \/ rt[f].session = NoSession
  BY <1>1, <1>2, <1>3, <1>4, <1>5 DEF GenerationIs, RuntimeInv, Core, LockHeld, Lives, Starting,
     Critical
<1>11. Pages' /\ Ordered'
  BY <1>1, <1>2, <1>3, <1>4, <1>5, <1>10, PagesKeep, OrderedKeep DEF RuntimeInv, Core, Pages,
     NamesSession
<1> QED
  BY <1>6, <1>7, <1>8, <1>9, <1>11 DEF Core

LEMMA StartUndone ==
    ASSUME RuntimeInv, NEW t \in Everyone, start_undone(t)
    PROVE  Core'
<1>1. /\ lock = t /\ lock' = Free /\ t # Free
      /\ UNCHANGED <<next_epoch, out, seen, window, abandoned>>
  BY HolderFacts DEF start_undone, Holds, windowSide, Critical, Starting, Stopping
<1>2. \A u \in Everyone \ {t} : tasks[u].pc \notin Critical
  BY <1>1, NobodyElse
<1>3. TaskIs(t, "none", "idle", 0, NoSession, "none")
  BY RepliesTo, NamesTyped DEF start_undone, Holds, RuntimeInv, Core, Labels, Critical,
     Starting, Stopping, Results
<1>4. current \in Epochs /\ GenerationIs(current, "stopped", rt[current].session, rt[current].host, rt[current].cfwd)
  <2>1. current \in Epochs /\ rt[current] \in Generation
    BY <1>1, GenerationsExist DEF start_undone, Holds, RuntimeInv, Core, Types, LockHeld,
       Critical, Starting, Stopping
  <2> DEFINE g == stop_unstarted(rt[current])
  <2>2. g \in Generation /\ g.life = "stopped" /\ g.session = rt[current].session /\ g.host = rt[current].host /\ g.cfwd = rt[current].cfwd
    BY <2>1, PlacesAndEpochs DEF Generation, stop_unstarted
  <2>3. Becomes(current, g)
    BY DEF start_undone, Holds, RuntimeInv, Core
  <2> HIDE DEF g
  <2> QED
    BY <2>1, <2>2, <2>3, BecomesIs DEF RuntimeInv, Core
<1>5. current' = current
  BY DEF start_undone, Holds
<1>6. Types'
  BY <1>1, <1>2, <1>3, <1>4, <1>5 DEF TaskIs, GenerationIs, RuntimeInv, Core, Types
<1>7. LockHeld'
  BY <1>1, <1>2, <1>3, <1>4, <1>5, GenerationsExist DEF start_undone, Holds, TaskIs, RuntimeInv,
     Core, LockHeld, Critical, Starting, Stopping
<1>8. Lives'
  BY <1>1, <1>2, <1>3, <1>4, <1>5, GenerationsExist DEF start_undone, Holds, TaskIs,
     GenerationIs, RuntimeInv, Core, LockHeld, Lives, Alive, Critical, Starting, Stopping
<1>9. Ownership'
  BY <1>1, <1>2, <1>3, <1>4, <1>5, GenerationsExist DEF start_undone, Holds, TaskIs,
     GenerationIs, RuntimeInv, Core, LockHeld, Lives, Alive, Ownership, Owned, Critical,
     Starting, Stopping
<1>10. \A f \in Epochs : f < next_epoch => rt'[f].session = rt[f].session \/ rt[f].session = NoSession
  BY <1>1, <1>2, <1>3, <1>4, <1>5 DEF GenerationIs, RuntimeInv, Core, LockHeld, Lives, Starting,
     Critical
<1>11. Pages' /\ Ordered'
  BY <1>1, <1>2, <1>3, <1>4, <1>5, <1>10, PagesKeep, OrderedKeep DEF RuntimeInv, Core, Pages,
     NamesSession
<1> QED
  BY <1>6, <1>7, <1>8, <1>9, <1>11 DEF Core

LEMMA HostAnswersDone ==
    ASSUME RuntimeInv, NEW t \in Everyone, host_answers(t)
    PROVE  Core'
<1>1. /\ lock = t /\ lock' = Free /\ t # Free
      /\ UNCHANGED <<next_epoch, out, seen, window, abandoned>>
  BY HolderFacts DEF host_answers, LockHeld, windowSide, Critical, Starting, Stopping
<1>2. \A u \in Everyone \ {t} : tasks[u].pc \notin Critical
  BY <1>1, NobodyElse
<1>3. TaskIs(t, "none", "idle", 0, NoSession, "none")
  BY RepliesTo, NamesTyped, <1>1 DEF host_answers, LockHeld, RuntimeInv, Core, Labels, Critical,
     Starting, Stopping, Results
<1>4. rt' = rt
  BY DEF host_answers, LockHeld
<1>5. current' = current
  BY DEF host_answers, LockHeld
<1>6. Types'
  BY <1>1, <1>2, <1>3, <1>4, <1>5 DEF TaskIs, GenerationIs, RuntimeInv, Core, Types
<1>7. LockHeld'
  BY <1>1, <1>2, <1>3, <1>4, <1>5, GenerationsExist DEF host_answers, LockHeld, TaskIs,
     RuntimeInv, Core, Critical, Starting, Stopping
<1>8. Lives'
  BY <1>1, <1>2, <1>3, <1>4, <1>5, GenerationsExist DEF host_answers, LockHeld, TaskIs,
     GenerationIs, RuntimeInv, Core, Lives, Alive, Critical, Starting, Stopping
<1>9. Ownership'
  BY <1>1, <1>2, <1>3, <1>4, <1>5, GenerationsExist DEF host_answers, LockHeld, TaskIs,
     GenerationIs, RuntimeInv, Core, Lives, Alive, Ownership, Owned, Critical, Starting,
     Stopping
<1>10. \A f \in Epochs : f < next_epoch => rt'[f].session = rt[f].session \/ rt[f].session = NoSession
  BY <1>1, <1>2, <1>3, <1>4, <1>5 DEF GenerationIs, RuntimeInv, Core, LockHeld, Lives, Starting,
     Critical
<1>11. Pages' /\ Ordered'
  BY <1>1, <1>2, <1>3, <1>4, <1>5, <1>10, PagesKeep, OrderedKeep DEF RuntimeInv, Core, Pages,
     NamesSession
<1> QED
  BY <1>6, <1>7, <1>8, <1>9, <1>11 DEF Core

LEMMA NothingToStop ==
    ASSUME RuntimeInv, NEW t \in Everyone, nothing_to_stop(t)
    PROVE  Core'
<1>1. /\ lock = Free /\ lock' = t /\ t # Free
      /\ UNCHANGED <<next_epoch, out, seen, window, abandoned>>
  BY HolderFacts DEF nothing_to_stop, Next_, windowSide, Critical, Starting, Stopping
<1>2. \A u \in Everyone \ {t} : tasks[u].pc \notin Critical
  BY <1>1, NobodyElse
<1>3. TaskIs(t, tasks[t].cmd, "replace", tasks[t].epoch, tasks[t].session, "completed")
  BY NextTo DEF nothing_to_stop, Next_, RuntimeInv, Core, Labels, Critical, Starting, Stopping,
     Results
<1>4. rt' = rt
  BY DEF nothing_to_stop, Next_
<1>5. current' = 0
  BY DEF nothing_to_stop, Next_
<1>6. Types'
  BY <1>1, <1>2, <1>3, <1>4, <1>5 DEF TaskIs, GenerationIs, RuntimeInv, Core, Types
<1>7. LockHeld'
  BY <1>1, <1>2, <1>3, <1>4, <1>5, GenerationsExist DEF nothing_to_stop, Next_, TaskIs,
     RuntimeInv, Core, LockHeld, Critical, Starting, Stopping
<1>8. Lives'
  BY <1>1, <1>2, <1>3, <1>4, <1>5, GenerationsExist DEF nothing_to_stop, Next_, TaskIs,
     GenerationIs, RuntimeInv, Core, LockHeld, Lives, Alive, Critical, Starting, Stopping
<1>9. Ownership'
  BY <1>1, <1>2, <1>3, <1>4, <1>5, GenerationsExist DEF nothing_to_stop, Next_, TaskIs,
     GenerationIs, RuntimeInv, Core, LockHeld, Lives, Alive, Ownership, Owned, Critical,
     Starting, Stopping
<1>10. \A f \in Epochs : f < next_epoch => rt'[f].session = rt[f].session \/ rt[f].session = NoSession
  BY <1>1, <1>2, <1>3, <1>4, <1>5 DEF GenerationIs, RuntimeInv, Core, LockHeld, Lives, Starting,
     Critical
<1>11. Pages' /\ Ordered'
  BY <1>1, <1>2, <1>3, <1>4, <1>5, <1>10, PagesKeep, OrderedKeep DEF RuntimeInv, Core, Pages,
     NamesSession
<1> QED
  BY <1>6, <1>7, <1>8, <1>9, <1>11 DEF Core

LEMMA HostStopped ==
    ASSUME RuntimeInv, NEW t \in Everyone, host_stopped(t)
    PROVE  Core'
<1>1. /\ lock = t /\ lock' = t /\ t # Free
      /\ UNCHANGED <<next_epoch, out, seen, window, abandoned>>
  BY HolderFacts DEF host_stopped, Own, Goes, OnlyTask, windowSide, Critical, Starting, Stopping
<1>2. \A u \in Everyone \ {t} : tasks[u].pc \notin Critical
  BY <1>1, NobodyElse
<1>3. TaskIs(t, tasks[t].cmd, "drain", tasks[t].epoch, tasks[t].session, tasks[t].result)
  BY GoesTo DEF host_stopped, Own, Goes, OnlyTask, RuntimeInv, Core, Labels, Critical, Starting,
     Stopping, Results
<1>4. rt' = rt
  BY DEF host_stopped, Own, Goes, OnlyTask
<1>5. current' = current
  BY DEF host_stopped, Own, Goes, OnlyTask
<1>6. Types'
  BY <1>1, <1>2, <1>3, <1>4, <1>5 DEF TaskIs, GenerationIs, RuntimeInv, Core, Types
<1>7. LockHeld'
  BY <1>1, <1>2, <1>3, <1>4, <1>5, GenerationsExist DEF host_stopped, Own, Goes, OnlyTask,
     TaskIs, RuntimeInv, Core, LockHeld, Critical, Starting, Stopping
<1>8. Lives'
  BY <1>1, <1>2, <1>3, <1>4, <1>5, GenerationsExist DEF host_stopped, Own, Goes, OnlyTask,
     TaskIs, GenerationIs, RuntimeInv, Core, LockHeld, Lives, Alive, Critical, Starting,
     Stopping
<1>9. Ownership'
  BY <1>1, <1>2, <1>3, <1>4, <1>5, GenerationsExist DEF host_stopped, Own, Goes, OnlyTask,
     TaskIs, GenerationIs, RuntimeInv, Core, LockHeld, Lives, Alive, Ownership, Owned, Critical,
     Starting, Stopping
<1>10. \A f \in Epochs : f < next_epoch => rt'[f].session = rt[f].session \/ rt[f].session = NoSession
  BY <1>1, <1>2, <1>3, <1>4, <1>5 DEF GenerationIs, RuntimeInv, Core, LockHeld, Lives, Starting,
     Critical
<1>11. Pages' /\ Ordered'
  BY <1>1, <1>2, <1>3, <1>4, <1>5, <1>10, PagesKeep, OrderedKeep DEF RuntimeInv, Core, Pages,
     NamesSession
<1> QED
  BY <1>6, <1>7, <1>8, <1>9, <1>11 DEF Core

LEMMA HostWasGone ==
    ASSUME RuntimeInv, NEW t \in Everyone, host_was_gone(t)
    PROVE  Core'
<1>1. /\ lock = t /\ lock' = t /\ t # Free
      /\ UNCHANGED <<next_epoch, out, seen, window, abandoned>>
  BY HolderFacts DEF host_was_gone, Own, windowSide, Critical, Starting, Stopping
<1>2. \A u \in Everyone \ {t} : tasks[u].pc \notin Critical
  BY <1>1, NobodyElse
<1>3. TaskIs(t, tasks[t].cmd, "finish", tasks[t].epoch, tasks[t].session, "rejected")
  BY NextTo DEF host_was_gone, Own, RuntimeInv, Core, Labels, Critical, Starting, Stopping, Results
<1>4. tasks[t].epoch \in Epochs /\ GenerationIs(tasks[t].epoch, "stopped", rt[tasks[t].epoch].session, rt[tasks[t].epoch].host, rt[tasks[t].epoch].cfwd)
  <2>1. tasks[t].epoch \in Epochs /\ rt[tasks[t].epoch] \in Generation
    BY <1>1, GenerationsExist DEF host_was_gone, Own, RuntimeInv, Core, Types, LockHeld,
       Critical, Starting, Stopping
  <2> DEFINE g == [rt[tasks[t].epoch] EXCEPT !.life = "stopped", !.fwd = "aborted"]
  <2>2. g \in Generation /\ g.life = "stopped" /\ g.session = rt[tasks[t].epoch].session /\ g.host = rt[tasks[t].epoch].host /\ g.cfwd = rt[tasks[t].epoch].cfwd
    BY <2>1, PlacesAndEpochs DEF Generation
  <2>3. Becomes(tasks[t].epoch, g)
    BY DEF host_was_gone, Own, RuntimeInv, Core
  <2> HIDE DEF g
  <2> QED
    BY <2>1, <2>2, <2>3, BecomesIs DEF RuntimeInv, Core
<1>5. current' = current
  BY DEF host_was_gone, Own
<1>6. Types'
  BY <1>1, <1>2, <1>3, <1>4, <1>5 DEF TaskIs, GenerationIs, RuntimeInv, Core, Types
<1>7. LockHeld'
  BY <1>1, <1>2, <1>3, <1>4, <1>5, GenerationsExist DEF host_was_gone, Own, TaskIs, RuntimeInv,
     Core, LockHeld, Critical, Starting, Stopping
<1>8. Lives'
  BY <1>1, <1>2, <1>3, <1>4, <1>5, GenerationsExist DEF host_was_gone, Own, TaskIs,
     GenerationIs, RuntimeInv, Core, LockHeld, Lives, Alive, Critical, Starting, Stopping
<1>9. Ownership'
  BY <1>1, <1>2, <1>3, <1>4, <1>5, GenerationsExist DEF host_was_gone, Own, TaskIs,
     GenerationIs, RuntimeInv, Core, LockHeld, Lives, Alive, Ownership, Owned, Critical,
     Starting, Stopping
<1>10. \A f \in Epochs : f < next_epoch => rt'[f].session = rt[f].session \/ rt[f].session = NoSession
  BY <1>1, <1>2, <1>3, <1>4, <1>5 DEF GenerationIs, RuntimeInv, Core, LockHeld, Lives, Starting,
     Critical
<1>11. Pages' /\ Ordered'
  BY <1>1, <1>2, <1>3, <1>4, <1>5, <1>10, PagesKeep, OrderedKeep DEF RuntimeInv, Core, Pages,
     NamesSession
<1> QED
  BY <1>6, <1>7, <1>8, <1>9, <1>11 DEF Core

LEMMA Drained ==
    ASSUME RuntimeInv, NEW t \in Everyone, drained(t)
    PROVE  Core'
<1>1. /\ lock = t /\ lock' = t /\ t # Free
      /\ UNCHANGED <<next_epoch, out, seen, window, abandoned>>
  BY HolderFacts DEF drained, Own, windowSide, Critical, Starting, Stopping
<1>2. \A u \in Everyone \ {t} : tasks[u].pc \notin Critical
  BY <1>1, NobodyElse
<1>3. TaskIs(t, tasks[t].cmd, "finish", tasks[t].epoch, tasks[t].session, IF rt[Own(t)].fwd = "ended" THEN "completed" ELSE "internal")
  BY NextTo DEF drained, Own, RuntimeInv, Core, Labels, Critical, Starting, Stopping, Results
<1>4. tasks[t].epoch \in Epochs /\ GenerationIs(tasks[t].epoch, "stopped", rt[tasks[t].epoch].session, rt[tasks[t].epoch].host, rt[tasks[t].epoch].cfwd)
  <2>1. tasks[t].epoch \in Epochs /\ rt[tasks[t].epoch] \in Generation
    BY <1>1, GenerationsExist DEF drained, Own, RuntimeInv, Core, Types, LockHeld, Critical,
       Starting, Stopping
  <2> DEFINE g == [rt[tasks[t].epoch] EXCEPT !.life = "stopped"]
  <2>2. g \in Generation /\ g.life = "stopped" /\ g.session = rt[tasks[t].epoch].session /\ g.host = rt[tasks[t].epoch].host /\ g.cfwd = rt[tasks[t].epoch].cfwd
    BY <2>1, PlacesAndEpochs DEF Generation
  <2>3. Becomes(tasks[t].epoch, g)
    BY DEF drained, Own, RuntimeInv, Core
  <2> HIDE DEF g
  <2> QED
    BY <2>1, <2>2, <2>3, BecomesIs DEF RuntimeInv, Core
<1>5. current' = current
  BY DEF drained, Own
<1>6. Types'
  BY <1>1, <1>2, <1>3, <1>4, <1>5 DEF TaskIs, GenerationIs, RuntimeInv, Core, Types
<1>7. LockHeld'
  BY <1>1, <1>2, <1>3, <1>4, <1>5, GenerationsExist DEF drained, Own, TaskIs, RuntimeInv, Core,
     LockHeld, Critical, Starting, Stopping
<1>8. Lives'
  BY <1>1, <1>2, <1>3, <1>4, <1>5, GenerationsExist DEF drained, Own, TaskIs, GenerationIs,
     RuntimeInv, Core, LockHeld, Lives, Alive, Critical, Starting, Stopping
<1>9. Ownership'
  BY <1>1, <1>2, <1>3, <1>4, <1>5, GenerationsExist DEF drained, Own, TaskIs, GenerationIs,
     RuntimeInv, Core, LockHeld, Lives, Alive, Ownership, Owned, Critical, Starting, Stopping
<1>10. \A f \in Epochs : f < next_epoch => rt'[f].session = rt[f].session \/ rt[f].session = NoSession
  BY <1>1, <1>2, <1>3, <1>4, <1>5 DEF GenerationIs, RuntimeInv, Core, LockHeld, Lives, Starting,
     Critical
<1>11. Pages' /\ Ordered'
  BY <1>1, <1>2, <1>3, <1>4, <1>5, <1>10, PagesKeep, OrderedKeep DEF RuntimeInv, Core, Pages,
     NamesSession
<1> QED
  BY <1>6, <1>7, <1>8, <1>9, <1>11 DEF Core

LEMMA DrainTimesOut ==
    ASSUME RuntimeInv, NEW t \in Everyone, drain_times_out(t)
    PROVE  Core'
<1>1. /\ lock = t /\ lock' = t /\ t # Free
      /\ UNCHANGED <<next_epoch, out, seen, window, abandoned>>
  BY HolderFacts DEF drain_times_out, Own, windowSide, Critical, Starting, Stopping
<1>2. \A u \in Everyone \ {t} : tasks[u].pc \notin Critical
  BY <1>1, NobodyElse
<1>3. TaskIs(t, tasks[t].cmd, "finish", tasks[t].epoch, tasks[t].session, "internal")
  BY NextTo DEF drain_times_out, Own, RuntimeInv, Core, Labels, Critical, Starting, Stopping,
     Results
<1>4. tasks[t].epoch \in Epochs /\ GenerationIs(tasks[t].epoch, "stopped", rt[tasks[t].epoch].session, rt[tasks[t].epoch].host, rt[tasks[t].epoch].cfwd)
  <2>1. tasks[t].epoch \in Epochs /\ rt[tasks[t].epoch] \in Generation
    BY <1>1, GenerationsExist DEF drain_times_out, Own, RuntimeInv, Core, Types, LockHeld,
       Critical, Starting, Stopping
  <2> DEFINE g == [rt[tasks[t].epoch] EXCEPT !.life = "stopped"]
  <2>2. g \in Generation /\ g.life = "stopped" /\ g.session = rt[tasks[t].epoch].session /\ g.host = rt[tasks[t].epoch].host /\ g.cfwd = rt[tasks[t].epoch].cfwd
    BY <2>1, PlacesAndEpochs DEF Generation
  <2>3. Becomes(tasks[t].epoch, g)
    BY DEF drain_times_out, Own, RuntimeInv, Core
  <2> HIDE DEF g
  <2> QED
    BY <2>1, <2>2, <2>3, BecomesIs DEF RuntimeInv, Core
<1>5. current' = current
  BY DEF drain_times_out, Own
<1>6. Types'
  BY <1>1, <1>2, <1>3, <1>4, <1>5 DEF TaskIs, GenerationIs, RuntimeInv, Core, Types
<1>7. LockHeld'
  BY <1>1, <1>2, <1>3, <1>4, <1>5, GenerationsExist DEF drain_times_out, Own, TaskIs,
     RuntimeInv, Core, LockHeld, Critical, Starting, Stopping
<1>8. Lives'
  BY <1>1, <1>2, <1>3, <1>4, <1>5, GenerationsExist DEF drain_times_out, Own, TaskIs,
     GenerationIs, RuntimeInv, Core, LockHeld, Lives, Alive, Critical, Starting, Stopping
<1>9. Ownership'
  BY <1>1, <1>2, <1>3, <1>4, <1>5, GenerationsExist DEF drain_times_out, Own, TaskIs,
     GenerationIs, RuntimeInv, Core, LockHeld, Lives, Alive, Ownership, Owned, Critical,
     Starting, Stopping
<1>10. \A f \in Epochs : f < next_epoch => rt'[f].session = rt[f].session \/ rt[f].session = NoSession
  BY <1>1, <1>2, <1>3, <1>4, <1>5 DEF GenerationIs, RuntimeInv, Core, LockHeld, Lives, Starting,
     Critical
<1>11. Pages' /\ Ordered'
  BY <1>1, <1>2, <1>3, <1>4, <1>5, <1>10, PagesKeep, OrderedKeep DEF RuntimeInv, Core, Pages,
     NamesSession
<1> QED
  BY <1>6, <1>7, <1>8, <1>9, <1>11 DEF Core

LEMMA ShutdownEnds ==
    ASSUME RuntimeInv, NEW t \in Everyone, shutdown(t)
    PROVE  Core'
<1>1. /\ lock = t /\ lock' = Free /\ t # Free
      /\ UNCHANGED <<next_epoch, out, seen, window, abandoned>>
  BY HolderFacts DEF shutdown, Holds, windowSide, Critical, Starting, Stopping
<1>2. \A u \in Everyone \ {t} : tasks[u].pc \notin Critical
  BY <1>1, NobodyElse
<1>3. TaskIs(t, "none", "idle", 0, NoSession, "none")
  BY RepliesTo, NamesTyped DEF shutdown, Holds, RuntimeInv, Core, Labels, Critical, Starting,
     Stopping, Results
<1>4. rt' = rt
  BY DEF shutdown, Holds
<1>5. current' = current
  BY DEF shutdown, Holds
<1>6. Types'
  BY <1>1, <1>2, <1>3, <1>4, <1>5 DEF TaskIs, GenerationIs, RuntimeInv, Core, Types
<1>7. LockHeld'
  BY <1>1, <1>2, <1>3, <1>4, <1>5, GenerationsExist DEF shutdown, Holds, TaskIs, RuntimeInv,
     Core, LockHeld, Critical, Starting, Stopping
<1>8. Lives'
  BY <1>1, <1>2, <1>3, <1>4, <1>5, GenerationsExist DEF shutdown, Holds, TaskIs, GenerationIs,
     RuntimeInv, Core, LockHeld, Lives, Alive, Critical, Starting, Stopping
<1>9. Ownership'
  BY <1>1, <1>2, <1>3, <1>4, <1>5, GenerationsExist DEF shutdown, Holds, TaskIs, GenerationIs,
     RuntimeInv, Core, LockHeld, Lives, Alive, Ownership, Owned, Critical, Starting, Stopping
<1>10. \A f \in Epochs : f < next_epoch => rt'[f].session = rt[f].session \/ rt[f].session = NoSession
  BY <1>1, <1>2, <1>3, <1>4, <1>5 DEF GenerationIs, RuntimeInv, Core, LockHeld, Lives, Starting,
     Critical
<1>11. Pages' /\ Ordered'
  BY <1>1, <1>2, <1>3, <1>4, <1>5, <1>10, PagesKeep, OrderedKeep DEF RuntimeInv, Core, Pages,
     NamesSession
<1> QED
  BY <1>6, <1>7, <1>8, <1>9, <1>11 DEF Core

(* Commands that may take the lock or be refused, and the other steps that *)
(* end in more than one way.                                               *)
LEMMA StartSession ==
    ASSUME RuntimeInv, NEW t \in Everyone, start_session(t)
    PROVE  Core'
<1>1. /\ lock = Free /\ lock # t /\ t # Free /\ current \in Epochs /\ rt[current] \in Generation
      /\ UNCHANGED <<next_epoch, current, out, seen, window, abandoned>>
  BY HolderFacts, GenerationsExist, Distinct DEF start_session, Enters, windowSide, Everyone,
     Tasks, RuntimeInv, Core, Types
<1>2. CASE rt[current].life # "ready"
  <2>1. Quiet /\ Replies(t, Refused)
    BY <1>1, <1>2 DEF start_session, Quiet
  <2> QED
    BY <1>1, <2>1, NamesTyped, RefusedQuietly
<1>3. CASE rt[current].life = "ready"
  <2>1. /\ lock' = t /\ Goes(t, "starting")
        /\ Becomes(current, [rt[current] EXCEPT !.life = "starting"])
    BY <1>3 DEF start_session
  <2>2. TaskIs(t, tasks[t].cmd, "starting", tasks[t].epoch, tasks[t].session, tasks[t].result)
    BY <2>1, GoesTo DEF RuntimeInv, Core, Labels, Critical, Starting
  <2>3. GenerationIs(current, "starting", rt[current].session, rt[current].host, rt[current].cfwd)
    <3> DEFINE g == [rt[current] EXCEPT !.life = "starting"]
    <3>1. /\ g \in Generation /\ g.life = "starting" /\ g.session = rt[current].session
          /\ g.host = rt[current].host /\ g.cfwd = rt[current].cfwd
      BY <1>1 DEF Generation
    <3>2. Becomes(current, g)
      BY <2>1
    <3> HIDE DEF g
    <3> QED
      BY <1>1, <3>1, <3>2, BecomesIs DEF RuntimeInv, Core
  <2>4. \A u \in Everyone \ {t} : tasks[u].pc \notin Critical
    BY <1>1, NobodyElse
  <2>5. rt[current].host = "none"
    BY <1>1, <1>3 DEF RuntimeInv, Core, Lives
  <2>6. Types'
    BY <1>1, <2>1, <2>2, <2>3 DEF TaskIs, GenerationIs, RuntimeInv, Core, Types
  <2>7. LockHeld'
    BY <1>1, <2>1, <2>2, <2>4 DEF start_session, Enters, TaskIs, RuntimeInv, Core, LockHeld,
       Critical, Starting, Stopping
  <2>8. Lives'
    BY <1>1, <1>3, <2>1, <2>2, <2>3, <2>4, <2>5 DEF TaskIs, GenerationIs, RuntimeInv, Core,
       Lives, Alive, Starting
  <2>9. Ownership'
    BY <1>1, <2>1, <2>2, <2>3, <2>4 DEF TaskIs, GenerationIs, RuntimeInv, Core, Ownership,
       Owned, Alive
  <2>10. \A f \in Epochs : f < next_epoch => rt'[f].session = rt[f].session \/ rt[f].session = NoSession
    BY <2>3 DEF GenerationIs
  <2>11. Pages' /\ Ordered'
    BY <1>1, <2>2, <2>10, PagesKeep, OrderedKeep DEF RuntimeInv, Core, Pages
  <2> QED
    BY <2>6, <2>7, <2>8, <2>9, <2>11 DEF Core
<1> QED
  BY <1>2, <1>3

LEMMA HostCommand ==
    ASSUME RuntimeInv, NEW t \in Everyone, NEW cmd \in {"submit", "call"}, host_command(t, cmd)
    PROVE  Core'
<1>1. /\ lock = Free /\ lock # t /\ t # Free /\ current # 0 /\ tasks[t].cmd # "close"
      /\ UNCHANGED <<next_epoch, current, rt, out, seen, window, abandoned>>
  BY HolderFacts DEF host_command, Enters, windowSide
<1>2. CASE Replies(t, Refused) /\ UNCHANGED lock
  BY <1>1, <1>2, NamesTyped, RefusedQuietly DEF Quiet
<1>3. CASE Goes(t, "call") /\ lock' = t
  <2>1. TaskIs(t, tasks[t].cmd, "call", tasks[t].epoch, tasks[t].session, tasks[t].result)
    BY <1>3, GoesTo DEF RuntimeInv, Core, Labels, Critical, Starting
  <2>2. \A u \in Everyone \ {t} : tasks[u].pc \notin Critical
    BY <1>1, NobodyElse
  <2>3. Types' /\ LockHeld'
    BY <1>1, <1>3, <2>1, <2>2 DEF TaskIs, RuntimeInv, Core, Types, LockHeld, Critical, Starting,
       Stopping
  <2>4. Lives' /\ Ownership'
    BY <1>1, <1>3, <2>1, <2>2 DEF TaskIs, RuntimeInv, Core, Lives, Alive, Ownership, Owned, Starting
  <2>5. Pages' /\ Ordered'
    BY <1>1, <2>1, PagesKeep, OrderedKeep DEF RuntimeInv, Core, Pages
  <2> QED
    BY <2>3, <2>4, <2>5 DEF Core
<1> QED
  BY <1>2, <1>3 DEF host_command

LEMMA ShutdownBegins ==
    ASSUME RuntimeInv, NEW t \in Everyone, shutdown_begins(t)
    PROVE  Core'
<1>1. /\ lock = Free /\ lock # t /\ t # Free /\ current \in Epochs /\ rt[current] \in Generation
      /\ current = next_epoch - 1 /\ current # 0 /\ lock' = t /\ current' = 0
      /\ UNCHANGED <<next_epoch, out, seen, window, abandoned>>
  BY HolderFacts, GenerationsExist DEF shutdown_begins, windowSide, RuntimeInv, Core, Types
<1>2. rt[current].life \in {"ready", "stopped", "running"}
  BY <1>1, GenerationsExist DEF RuntimeInv, Core, Lives, Generation
<1>3. PICK pc \in {"finish", "host"}, result \in {"completed", "stopped", "none"},
           h \in Generation :
         /\ tasks' = [tasks EXCEPT ![t].pc = pc, ![t].result = result, ![t].epoch = current]
         /\ Becomes(current, h)
         /\ h.life = (IF pc = "host" THEN "running" ELSE "stopped")
         /\ h.session = rt[current].session /\ h.cfwd = rt[current].cfwd
         /\ h.host \in {"up", "stopping"} => Alive(current) /\ pc = "host"
  <2> DEFINE g == rt[current]
             stopping == [g EXCEPT !.host = IF @ = "up" THEN "stopping" ELSE @]
  <2>1. CASE g.life = "ready"
    <3>1. /\ stop_unstarted(g) \in Generation /\ stop_unstarted(g).life = "stopped"
          /\ stop_unstarted(g).session = g.session /\ stop_unstarted(g).cfwd = g.cfwd
          /\ stop_unstarted(g).host = g.host
      BY <1>1 DEF stop_unstarted, Generation
    <3>2. ~ Alive(current)
      BY <1>1, <2>1 DEF RuntimeInv, Core, Lives, Alive
    <3>3. /\ tasks' = [tasks EXCEPT ![t].pc = "finish", ![t].result = "completed", ![t].epoch = current]
          /\ Becomes(current, stop_unstarted(g))
      BY <2>1 DEF shutdown_begins
    <3> QED
      BY <3>1, <3>2, <3>3 DEF Alive
  <2>2. CASE g.life = "stopped"
    <3>1. ~ Alive(current)
      BY <1>1, <2>2 DEF RuntimeInv, Core, Lives
    <3>2. /\ tasks' = [tasks EXCEPT ![t].pc = "finish", ![t].result = "stopped", ![t].epoch = current]
          /\ Becomes(current, g)
      BY <2>2 DEF shutdown_begins
    <3> QED
      BY <1>1, <2>2, <3>1, <3>2 DEF Alive
  <2>3. CASE g.life = "running"
    <3>1. /\ stopping \in Generation /\ stopping.life = g.life
          /\ stopping.session = g.session /\ stopping.cfwd = g.cfwd
          /\ stopping.host = IF g.host = "up" THEN "stopping" ELSE g.host
      BY <1>1 DEF Generation
    <3>2. /\ tasks' = [tasks EXCEPT ![t].pc = "host", ![t].result = "none", ![t].epoch = current]
          /\ Becomes(current, stopping)
      BY <2>3 DEF shutdown_begins
    <3> HIDE DEF stopping
    <3> QED
      BY <2>3, <3>1, <3>2 DEF Alive
  <2> HIDE DEF g
  <2> QED
    BY <1>2, <2>1, <2>2, <2>3 DEF g
<1>4. TaskIs(t, tasks[t].cmd, pc, current, tasks[t].session, result)
  <2>1. tasks' = [tasks EXCEPT ![t] = [tasks[t] EXCEPT !.pc = pc, !.result = result, !.epoch = current]]
    BY <1>3 DEF RuntimeInv, Core, Types
  <2>2. current \in 0 .. MaxEpoch /\ pc \in Labels /\ result \in Results /\ tasks[t] \in Task
    BY <1>1, PlacesAndEpochs DEF RuntimeInv, Core, Types, Labels, Results, Critical, Stopping,
       Epochs
  <2>3. [tasks[t] EXCEPT !.pc = pc, !.result = result, !.epoch = current] \in Task
    BY <2>2, TaskFields
  <2> QED
    BY <2>1, <2>2, <2>3 DEF RuntimeInv, Core, Types, TaskIs, Task
<1>5. GenerationIs(current, h.life, rt[current].session, h.host, rt[current].cfwd)
  BY <1>1, <1>3, BecomesIs DEF RuntimeInv, Core
<1>6. \A u \in Everyone \ {t} : tasks[u].pc \notin Critical
  BY <1>1, NobodyElse
<1>7. Types'
  BY <1>1, <1>4, <1>5 DEF TaskIs, GenerationIs, RuntimeInv, Core, Types
<1>8. LockHeld'
  BY <1>1, <1>3, <1>4, <1>6 DEF TaskIs, RuntimeInv, Core, LockHeld, Critical, Starting, Stopping
<1>9. Lives'
  BY <1>1, <1>2, <1>3, <1>4, <1>5, <1>6 DEF TaskIs, GenerationIs, RuntimeInv, Core, Lives,
     Alive, Starting
<1>10. Ownership'
  BY <1>1, <1>3, <1>4, <1>5, <1>6 DEF TaskIs, GenerationIs, RuntimeInv, Core, Ownership, Owned,
     Alive, Stopping
<1>11. \A f \in Epochs : f < next_epoch => rt'[f].session = rt[f].session \/ rt[f].session = NoSession
  BY <1>5 DEF GenerationIs
<1>12. Pages' /\ Ordered'
  BY <1>1, <1>3, <1>4, <1>11, PagesKeep, OrderedKeep DEF RuntimeInv, Core, Pages
<1> QED
  BY <1>7, <1>8, <1>9, <1>10, <1>12 DEF Core

(* finish_generation ends with no forwarder of the old generation left.    *)
LEMMA GenerationFinished ==
    ASSUME RuntimeInv, NEW t \in Everyone, finished(t) \/ finish_times_out(t)
    PROVE  Core'
<1>1. /\ lock = t /\ lock' = t /\ t # Free /\ tasks[t].pc = "finish"
      /\ UNCHANGED <<next_epoch, current, out, seen, window, abandoned>>
  BY HolderFacts DEF finished, finish_times_out, windowSide, Critical, Stopping
<1>2. tasks[t].epoch \in Epochs /\ rt[tasks[t].epoch] \in Generation /\ current = 0
  BY <1>1, GenerationsExist DEF RuntimeInv, Core, Types, Stopping
<1>3. PICK result \in Results : TaskIs(t, tasks[t].cmd, "replace", tasks[t].epoch, tasks[t].session, result)
  <2>1. PICK result : Next_(t, "replace", result) /\ result \in {tasks[t].result, "undrained"}
    BY DEF finished, finish_times_out
  <2>2. result \in Results
    BY <2>1 DEF RuntimeInv, Core, Types, Task, Results
  <2> QED
    BY <2>1, <2>2, NextTo DEF RuntimeInv, Core, Labels, Critical
<1>4. PICK cfwd : /\ cfwd # "running"
                  /\ GenerationIs(tasks[t].epoch, rt[tasks[t].epoch].life, rt[tasks[t].epoch].session,
                                  rt[tasks[t].epoch].host, cfwd)
  <2>1. CASE finished(t)
    BY <2>1 DEF finished, Own, GenerationIs, RuntimeInv, Core, Types
  <2>2. CASE finish_times_out(t)
    <3> DEFINE g == [rt[tasks[t].epoch] EXCEPT !.cfwd = "aborted", !.chan = 0]
    <3>1. /\ g \in Generation /\ g.life = rt[tasks[t].epoch].life
          /\ g.session = rt[tasks[t].epoch].session /\ g.host = rt[tasks[t].epoch].host
          /\ g.cfwd = "aborted"
      BY <1>2, PlacesAndEpochs DEF Generation
    <3>2. Becomes(tasks[t].epoch, g)
      BY <2>2 DEF finish_times_out, Own
    <3> HIDE DEF g
    <3> QED
      BY <1>2, <3>1, <3>2, BecomesIs DEF RuntimeInv, Core
  <2> QED
    BY <2>1, <2>2
<1>5. \A u \in Everyone \ {t} : tasks[u].pc \notin Critical
  BY <1>1, NobodyElse
<1>6. Types'
  BY <1>1, <1>3, <1>4 DEF TaskIs, GenerationIs, RuntimeInv, Core, Types
<1>7. LockHeld'
  BY <1>1, <1>2, <1>3, <1>5 DEF TaskIs, RuntimeInv, Core, LockHeld, Critical, Starting, Stopping
<1>8. \A f \in Epochs : rt[f].life = "none" => rt'[f] = rt[f]
  BY <1>1, <1>4, GenerationsExist DEF GenerationIs, Stopping
<1>9. Lives'
  BY <1>1, <1>2, <1>3, <1>4, <1>5, <1>8 DEF TaskIs, GenerationIs, RuntimeInv, Core, Lives,
     Alive, Starting
<1>10. Ownership'
  BY <1>1, <1>2, <1>3, <1>4, <1>5 DEF TaskIs, GenerationIs, RuntimeInv, Core, Ownership, Owned,
     Alive, Stopping
<1>11. \A f \in Epochs : f < next_epoch => rt'[f].session = rt[f].session \/ rt[f].session = NoSession
  BY <1>4 DEF GenerationIs
<1>12. Pages' /\ Ordered'
  BY <1>1, <1>3, <1>11, PagesKeep, OrderedKeep DEF RuntimeInv, Core, Pages
<1> QED
  BY <1>6, <1>7, <1>9, <1>10, <1>12 DEF Core

(* A generation starts when there is none, and none left that works.       *)
LEMMA NewGeneration ==
    ASSUME RuntimeInv, NEW t \in Everyone, GenerationStarts(t), Becomes(next_epoch, Fresh),
           lock' = Free, current = 0, lock \in {Free, t},
           ~ abandoned => \A e \in Epochs : ~ Alive(e) /\ rt[e].cfwd # "running",
           UNCHANGED <<out, seen, abandoned>>, window' \in {window, "open"}
    PROVE  Core'
<1>1. /\ next_epoch \in Epochs /\ next_epoch' = next_epoch + 1 /\ current' = next_epoch
      /\ next_epoch <= MaxEpoch
  BY PlacesAndEpochs DEF GenerationStarts, RuntimeInv, Core, Types, Epochs
<1>2. TaskIs(t, "none", "idle", 0, NoSession, "none")
  BY RepliesTo, NamesTyped DEF GenerationStarts, RuntimeInv, Core
<1>3. GenerationIs(next_epoch, "ready", NoSession, "none", "running")
  <2>1. /\ Fresh \in Generation /\ Fresh.life = "ready" /\ Fresh.session = NoSession
        /\ Fresh.host = "none" /\ Fresh.cfwd = "running"
    BY PlacesAndEpochs DEF Fresh, Unborn, Generation, Session
  <2> QED
    BY <1>1, <2>1, BecomesIs DEF RuntimeInv, Core
<1>4. \A u \in Everyone \ {t} : tasks[u].pc \notin Critical
  BY NobodyElse
<1>5. Types'
  BY <1>1, <1>2, <1>3, PlacesAndEpochs DEF TaskIs, GenerationIs, RuntimeInv, Core, Types
<1>6. LockHeld'
  BY <1>2, <1>4 DEF TaskIs, RuntimeInv, Core, LockHeld, Critical, Starting, Stopping
<1>7. rt[next_epoch].life = "none" /\ rt[next_epoch].session = NoSession
  BY <1>1 DEF RuntimeInv, Core, Types, Lives, Unborn, Epochs
<1>8. Lives'
  <2>1. \A e \in Epochs : rt[e].life # "starting"
    BY <1>1 DEF RuntimeInv, Core, Lives, Epochs
  <2>2. \A e \in Epochs \ {next_epoch} : (e >= next_epoch) = (e >= next_epoch + 1)
    BY <1>1 DEF Epochs
  <2>3. ASSUME NEW e \in Epochs \ {next_epoch}
        PROVE  /\ (rt'[e].life = "none") = (e >= next_epoch')
               /\ rt'[e] = rt[e] /\ rt'[e].life # "starting"
    BY <1>1, <1>3, <2>1, <2>2 DEF GenerationIs, RuntimeInv, Core, Lives
  <2>4. /\ rt'[next_epoch].life = "ready" /\ rt'[next_epoch].host = "none"
        /\ rt'[next_epoch].session = NoSession
        /\ ~ (next_epoch >= next_epoch')
    BY <1>1, <1>3 DEF GenerationIs, Epochs
  <2> QED
    BY <1>1, <2>3, <2>4 DEF RuntimeInv, Core, Lives, Alive
<1>9. Ownership'
  BY <1>1, <1>3 DEF GenerationIs, RuntimeInv, Core, Ownership, Owned, Alive
<1>10. \A f \in Epochs : f < next_epoch => rt'[f].session = rt[f].session \/ rt[f].session = NoSession
  BY <1>3, <1>7 DEF GenerationIs
<1>11. Pages'
  BY <1>1, <1>2, <1>10, PagesKeep DEF NamesSession
<1>12. Ordered'
  <2>1. \A i \in 1 .. Len(out) : out[i] \in Epochs
    BY DEF RuntimeInv, Core, Types
  <2> QED
    BY <1>1, <2>1 DEF RuntimeInv, Core, Types, Ordered, Epochs
<1> QED
  BY <1>5, <1>6, <1>8, <1>9, <1>11, <1>12 DEF Core

(* A command that had to do with no generation replies and lets go of the  *)
(* lock.                                                                   *)
LEMMA LetsGo ==
    ASSUME RuntimeInv, NEW t \in Everyone, NEW cmd, NEW pc \in {"idle", "destroy"}, NEW epoch,
           NEW session, NEW result, TaskIs(t, cmd, pc, epoch, session, result),
           cmd \in NamesSession => session # NoSession,
           lock' = Free, current = 0, lock \in {Free, t},
           ~ abandoned' => \A e \in Epochs : ~ Alive(e) /\ rt[e].cfwd # "running",
           UNCHANGED <<next_epoch, current, rt, out, seen>>, abandoned' \in {abandoned, TRUE},
           window' \in {window, "failed"}
    PROVE  Core'
<1>1. \A u \in Everyone \ {t} : tasks[u].pc \notin Critical
  BY NobodyElse
<1>2. Types' /\ LockHeld'
  BY <1>1 DEF TaskIs, RuntimeInv, Core, Types, LockHeld, Critical, Starting, Stopping
<1>3. Lives'
  <2>1. \A e \in Epochs : rt[e].life # "starting"
    BY DEF RuntimeInv, Core, Lives, Epochs
  <2> QED
    BY <2>1 DEF RuntimeInv, Core, Lives, Alive
<1>4. Ownership'
  BY DEF Ownership, Alive
<1>5. Pages'
  BY PagesKeep
<1>6. Ordered'
  BY DEF RuntimeInv, Core, Types, Ordered
<1> QED
  BY <1>2, <1>3, <1>4, <1>5, <1>6 DEF Core

(* Nothing lives where a shutdown has come to its end.                      *)
LEMMA NothingLeft ==
    ASSUME RuntimeInv, NEW t \in Everyone, lock = t, tasks[t].pc = "replace"
    PROVE  /\ current = 0 /\ t # Free
           /\ ~ abandoned => \A e \in Epochs : ~ Alive(e) /\ rt[e].cfwd # "running"
BY HolderFacts DEF RuntimeInv, Core, LockHeld, Ownership, Owned, Critical, Stopping, Epochs

LEMMA NewChat ==
    ASSUME RuntimeInv, NEW t \in Everyone, new_chat(t)
    PROVE  Core'
<1>1. /\ lock = t /\ lock' = Free /\ current = 0
      /\ ~ abandoned => \A e \in Epochs : ~ Alive(e) /\ rt[e].cfwd # "running"
      /\ UNCHANGED <<out, seen, abandoned, window>>
  BY NothingLeft DEF new_chat, Holds, windowSide
<1>2. CASE GenerationStarts(t) /\ Becomes(next_epoch, Fresh)
  BY <1>1, <1>2, NewGeneration
<1>3. CASE Replies(t, Refused) /\ UNCHANGED <<next_epoch, current, rt>>
  <2>1. TaskIs(t, "none", "idle", 0, NoSession, "none")
    BY <1>3, RepliesTo, NamesTyped DEF RuntimeInv, Core
  <2> QED
    BY <1>1, <1>3, <2>1, LetsGo DEF NamesSession
<1> QED
  BY <1>1, <1>2, <1>3 DEF new_chat, GenerationFails

LEMMA Bootstrap ==
    ASSUME RuntimeInv, bootstrap_first_generation
    PROVE  Core'
<1>1. /\ Closer \in Everyone /\ lock = Free /\ lock' = Free /\ current = 0
      /\ \A e \in Epochs : ~ Alive(e) /\ rt[e].cfwd # "running"
      /\ UNCHANGED <<out, seen, abandoned>>
  BY DEF bootstrap_first_generation, RuntimeInv, Windows, Core, Types, Lives, Unborn,
         Alive, Epochs, Everyone
<1>2. CASE GenerationStarts(Closer) /\ window' = "open" /\ Becomes(next_epoch, Fresh)
  BY <1>1, <1>2, NewGeneration
<1>3. CASE GenerationFails(Closer) /\ window' = "failed" /\ UNCHANGED rt
  <2>1. TaskIs(Closer, "none", "idle", 0, NoSession, "none")
    BY <1>1, <1>3, RepliesTo, NamesTyped DEF GenerationFails, RuntimeInv, Core
  <2> QED
    BY <1>1, <1>3, <2>1, LetsGo DEF NamesSession, GenerationFails
<1> QED
  BY <1>2, <1>3 DEF bootstrap_first_generation

LEMMA CloseCompletes ==
    ASSUME RuntimeInv, close_completes
    PROVE  Core'
<1>1. /\ Closer \in Everyone /\ lock = Closer /\ lock' = Free /\ current = 0
      /\ ~ abandoned => \A e \in Epochs : ~ Alive(e) /\ rt[e].cfwd # "running"
      /\ UNCHANGED <<next_epoch, current, rt, out, seen, abandoned, window>>
  BY NothingLeft DEF close_completes, Holds, windowSide, Everyone
<1>2. TaskIs(Closer, tasks[Closer].cmd, "destroy", tasks[Closer].epoch, tasks[Closer].session,
             tasks[Closer].result)
  BY <1>1, GoesTo DEF close_completes, RuntimeInv, Core, Labels
<1> QED
  BY <1>1, <1>2, LetsGo DEF RuntimeInv, Core, Pages

(* A close request that gives up while it holds the lock leaves the        *)
(* generation half way, which is what `abandoned` says; without the lock   *)
(* it leaves nothing.                                                      *)
LEMMA CloseTimesOut ==
    ASSUME RuntimeInv, close_times_out
    PROVE  Core'
<1>1. /\ Closer \in Everyone /\ Closer # Free /\ tasks[Closer].cmd = "close" /\ tasks[Closer].pc # "destroy"
      /\ UNCHANGED <<next_epoch, current, rt, out, seen, window>>
  BY Distinct DEF close_times_out, windowSide, Everyone
<1>2. TaskIs(Closer, tasks[Closer].cmd, "destroy", tasks[Closer].epoch, tasks[Closer].session,
             tasks[Closer].result)
  BY <1>1, GoesTo DEF close_times_out, RuntimeInv, Core, Labels
<1>3. CASE lock = Closer
  <2>1. lock' = Free /\ abandoned' = TRUE
    BY <1>3 DEF close_times_out
  <2>2. tasks[Closer].pc \in Stopping \union {"replace"}
    BY <1>1, <1>3 DEF RuntimeInv, Core, LockHeld, Critical
  <2>3. current = 0
    BY <1>1, <1>3, <2>2 DEF RuntimeInv, Core, LockHeld
  <2> QED
    BY <1>1, <1>2, <1>3, <2>1, <2>3, LetsGo DEF RuntimeInv, Core, Pages
<1>4. CASE lock # Closer
  BY <1>1, <1>2, <1>4, QuietTask DEF close_times_out, Quiet, NamesSession, Critical, Starting,
     Stopping
<1> QED
  BY <1>3, <1>4

(* Commands run while there is a window only.                              *)
LEMMA OneCommandMoves ==
    ASSUME RuntimeInv, NEW t \in Everyone, Step(t) \/ host_answers(t)
    PROVE  /\ tasks[t].pc # "idle"
           /\ \A u \in Everyone \ {t} : tasks'[u] = tasks[u]
           /\ window' = window
<1> USE DEF RuntimeInv, Core, Types, windowSide, OnlyTask, Holds, Enters, Replies, Goes, Next_
<1>1. CASE \/ NoRuntime(t) \/ list_sessions(t) \/ start_session(t) \/ host_starts(t)
           \/ host_start_fails(t) \/ session_starts(t) \/ snapshot_fails(t) \/ start_undone(t)
  BY <1>1 DEF NoRuntime, list_sessions, start_session, host_starts, host_start_fails,
              session_starts, snapshot_fails, start_undone
<1>2. CASE host_command(t, "submit") \/ host_command(t, "call")
  BY <1>2 DEF host_command
<1>3. CASE history_begins(t) \/ history_read(t) \/ history_ends(t)
  BY <1>3 DEF history_begins, history_read, history_ends
<1>4. CASE nothing_to_stop(t) \/ host_stopped(t) \/ host_was_gone(t) \/ drained(t)
  BY <1>4 DEF nothing_to_stop, host_stopped, host_was_gone, drained
<1>5. CASE drain_times_out(t) \/ finished(t) \/ finish_times_out(t)
  BY <1>5 DEF drain_times_out, finished, finish_times_out
<1>6. CASE new_chat(t) \/ shutdown(t) \/ host_answers(t)
  BY <1>6 DEF new_chat, shutdown, host_answers, GenerationStarts, GenerationFails
<1>7. CASE shutdown_begins(t)
  <2>1. PICK k : tasks' = [tasks EXCEPT ![t] = k]
    <3>1. current # 0 /\ rt[current].life \in {"ready", "stopped", "running"}
      BY <1>7, GenerationsExist DEF shutdown_begins, Lives, Generation
    <3> QED
      BY <1>7, <3>1 DEF shutdown_begins
  <2>2. tasks[t].pc = "wait" /\ window' = window
    BY <1>7 DEF shutdown_begins
  <2> QED
    BY <2>1, <2>2
<1> QED
  BY <1>1, <1>2, <1>3, <1>4, <1>5, <1>6, <1>7 DEF Step

LEMMA WindowsStep ==
    ASSUME RuntimeInv, [Next]_vars
    PROVE  Windows'
<1> USE DEF RuntimeInv, Core, Types, Windows
<1>1. CASE bootstrap_first_generation
  BY <1>1 DEF bootstrap_first_generation, GenerationStarts, GenerationFails, Replies, Resting,
     Everyone
<1>2. CASE close_requested
  BY <1>2 DEF close_requested
<1>3. CASE Closing
  <2>1. tasks[Closer].pc # "idle" \/ tasks[Closer].cmd # "none"
    BY <1>3 DEF Closing, close_completes, close_times_out, destroy_window, Holds
  <2>2. window \in {"closing", "destroyed"} /\ window' \in {window, "destroyed"}
    BY <1>3, <2>1 DEF Closing, close_completes, close_times_out, destroy_window, windowSide,
       Everyone
  <2> QED
    BY <2>2
<1>4. CASE pump_emits
  BY <1>4 DEF pump_emits
<1>5. ASSUME NEW t \in Tasks, NEW cmd \in Commands, NEW s \in Session, Issue(t, cmd, s)
      PROVE  Windows'
  BY <1>5, Distinct DEF Issue, Tasks, Everyone
<1>6. ASSUME NEW t \in Everyone, Step(t) \/ host_answers(t)
      PROVE  Windows'
  BY <1>6, OneCommandMoves DEF Everyone
<1>7. ASSUME NEW e \in Epochs, host_publishes(e) \/ host_stops(e) \/ host_dies(e) \/ forward(e)
      PROVE  Windows'
  BY <1>7 DEF host_publishes, host_stops, host_dies, forward, HostOnly, windowSide
<1>8. ASSUME NEW e \in Epochs, forward_generation(e)
      PROVE  Windows'
  BY <1>8 DEF forward_generation
<1>9. CASE UNCHANGED vars
  BY <1>9 DEF vars
<1> QED
  BY <1>1, <1>2, <1>3, <1>4, <1>5, <1>6, <1>7, <1>8, <1>9
  DEF Next, HostAnswers, HostEnds, Forwarding, Session

LEMMA CommandStep ==
    ASSUME RuntimeInv, NEW t \in Everyone, Step(t) \/ host_answers(t)
    PROVE  Core'
BY QuietCommands, StartSession, HostStarts, HostStartFails, SessionStarts, SnapshotFails,
   StartUndone, HostCommand, HistoryBegins, HistoryRead, NothingToStop, ShutdownBegins,
   HostStopped, HostWasGone, Drained, DrainTimesOut, GenerationFinished, NewChat, ShutdownEnds,
   HostAnswersDone DEF Step

LEMMA CoreStep ==
    ASSUME RuntimeInv, [Next]_vars
    PROVE  Core'
<1>1. CASE bootstrap_first_generation \/ close_requested \/ Closing \/ pump_emits
  BY <1>1, Bootstrap, CloseRequested, CloseCompletes, CloseTimesOut, DestroyWindow, PumpEmits
  DEF Closing
<1>2. ASSUME NEW t \in Tasks, NEW cmd \in Commands, NEW s \in Session, Issue(t, cmd, s)
      PROVE  Core'
  BY <1>2, Issues
<1>3. ASSUME NEW t \in Everyone, Step(t) \/ host_answers(t)
      PROVE  Core'
  BY <1>3, CommandStep
<1>4. ASSUME NEW e \in Epochs,
             \/ host_publishes(e) \/ host_stops(e) \/ host_dies(e) \/ forward(e)
             \/ forward_generation(e)
      PROVE  Core'
  BY <1>4, HostMoves, GenerationForwards
<1>5. CASE UNCHANGED vars
  BY <1>5 DEF vars, RuntimeInv, Core, Types, LockHeld, Lives, Alive, Ownership, Owned, Pages,
     Ordered
<1> QED
  BY <1>1, <1>2, <1>3, <1>4, <1>5 DEF Next, HostAnswers, HostEnds, Forwarding, Session

LEMMA InitHolds == Init => RuntimeInv
<1> SUFFICES ASSUME Init PROVE RuntimeInv
  OBVIOUS
<1>1. Unborn \in Generation /\ Resting \in Task
  BY PlacesAndEpochs DEF Unborn, Generation, Session, Resting, Refused, Names, Task
<1>2. /\ \A e \in Epochs : rt[e] = Unborn /\ e >= 1
      /\ \A t \in Everyone : tasks[t] = Resting
  BY DEF Init, Epochs
<1>3. Types
  <2>1. /\ next_epoch \in 1 .. MaxEpoch + 1 /\ current \in {0, next_epoch - 1}
        /\ seen \in 0 .. next_epoch - 1
    BY PlacesAndEpochs DEF Init
  <2>2. out \in Seq(Epochs) /\ Len(out) <= Places
    BY PlacesAndEpochs DEF Init
  <2>3. rt \in [Epochs -> Generation] /\ tasks \in [Everyone -> Task]
    BY <1>1 DEF Init
  <2> QED
    BY <2>1, <2>2, <2>3 DEF Init, Types
<1>4. LockHeld /\ Lives
  BY <1>2 DEF Init, LockHeld, Lives, Alive, Unborn, Resting, Critical, Starting, Stopping
<1>5. Ownership /\ Pages /\ Ordered
  BY <1>2 DEF Init, Ownership, Alive, Pages, Ordered, Unborn, Resting, NamesSession
<1>6. Windows
  BY <1>2 DEF Init, Windows, Resting, Everyone
<1> QED
  BY <1>3, <1>4, <1>5, <1>6 DEF RuntimeInv, Core

LEMMA RuntimeInvHolds == Spec => []RuntimeInv
<1>1. RuntimeInv /\ [Next]_vars => RuntimeInv'
  BY CoreStep, WindowsStep DEF RuntimeInv
<1> QED
  BY <1>1, InitHolds, PTL DEF Spec

-----------------------------------------------------------------------------
(* The variables keep their types, and who holds the lock is in one of the *)
(* critical sections of create_session, load_session, the host's commands  *)
(* or a shutdown.                                                          *)
THEOREM RuntimeTypes == Spec => []TypeOK
<1>1. RuntimeInv => TypeOK
  <2> SUFFICES ASSUME RuntimeInv PROVE TypeOK
    OBVIOUS
  <2>1. next_epoch \in 1 .. MaxEpoch + 1 /\ current \in 0 .. next_epoch - 1
    BY PlacesAndEpochs DEF RuntimeInv, Core, Types
  <2>2. \A e \in Epochs : rt[e].buf \in 0 .. Places /\ rt[e].chan \in 0 .. Places
    BY DEF RuntimeInv, Core, Types, Generation
  <2> QED
    BY <2>1, <2>2 DEF RuntimeInv, Core, Types, LockHeld, Lives, Critical, Starting, Stopping, TypeOK
<1> QED
  BY <1>1, RuntimeInvHolds, PTL

(* DesktopRuntimeCoordinator: unless a close request gave up half way, two *)
(* generations never have living hosts at the same time, however many      *)
(* commands run concurrently, hosts die, starts are undone and timeouts    *)
(* fire.                                                                   *)
THEOREM AtMostOneHost == Spec => []OneHost
<1>1. RuntimeInv => OneHost
  BY DEF RuntimeInv, Core, Ownership, Owned, Alive, LockHeld, OneHost, Epochs, Stopping
<1> QED
  BY <1>1, RuntimeInvHolds, PTL

-----------------------------------------------------------------------------
(* What a command replies is either no news, a refusal, or speaks of the   *)
(* generation and the session that are there when it is given.             *)
Current(t) ==
    LET reply == tasks'[t].reply IN
    \/ reply = tasks[t].reply \/ reply.epoch = 0
    \/ current' = reply.epoch /\ reply.session = rt'[current'].session

LEMMA CurrentUntouched ==
    ASSUME NEW u \in Everyone, tasks'[u] = tasks[u]
    PROVE  Current(u)
BY DEF Current

LEMMA MovesQuietly ==
    ASSUME RuntimeInv, NEW t \in Everyone
    PROVE  /\ \A pc : Goes(t, pc) => Current(t)
           /\ \A pc, result : Next_(t, pc, result) => Current(t)
           /\ Replies(t, Refused) => Current(t)
           /\ \A e, s : Replies(t, Names(e, s)) /\ current' = e /\ rt'[e].session = s => Current(t)
<1> USE DEF RuntimeInv, Core, Types, Task, Current
<1>1. \A pc : Goes(t, pc) => Current(t)
  BY DEF Goes
<1>2. \A pc, result : Next_(t, pc, result) => Current(t)
  BY DEF Next_
<1>3. \A reply : Replies(t, reply) => tasks'[t].reply = reply
  BY DEF Replies, Resting
<1> QED
  BY <1>1, <1>2, <1>3 DEF Refused, Names

LEMMA NewsOfCommand ==
    ASSUME RuntimeInv, NEW t \in Everyone, Step(t) \/ host_answers(t)
    PROVE  Current(t)
<1> USE MovesQuietly DEF windowSide, OnlyTask, Holds, Enters
<1>1. CASE NoRuntime(t) \/ list_sessions(t)
  BY <1>1 DEF NoRuntime, list_sessions
<1>2. CASE start_session(t) \/ host_starts(t) \/ host_start_fails(t) \/ snapshot_fails(t) \/ start_undone(t)
  BY <1>2 DEF start_session, host_starts, host_start_fails, snapshot_fails, start_undone
<1>3. CASE session_starts(t)
  <2>1. current \in Epochs /\ rt[current] \in Generation
    BY <1>3, GenerationsExist, HolderFacts DEF session_starts, RuntimeInv, Core, Types,
       LockHeld, Starting
  <2>2. rt'[current].session = tasks[t].session /\ current' = current
    BY <1>3, <2>1 DEF session_starts, Becomes, Generation, RuntimeInv, Core, Types
  <2> QED
    BY <1>3, <2>2 DEF session_starts
<1>4. CASE host_command(t, "submit") \/ host_command(t, "call")
  BY <1>4 DEF host_command
<1>5. CASE history_begins(t) \/ history_read(t)
  BY <1>5 DEF history_begins, history_read, RuntimeInv, Core, Types, Task, Current
<1>6. CASE history_ends(t)
  BY <1>6 DEF history_ends, RuntimeInv, Core, Pages
<1>7. CASE nothing_to_stop(t) \/ host_stopped(t) \/ host_was_gone(t) \/ drained(t)
  BY <1>7 DEF nothing_to_stop, host_stopped, host_was_gone, drained
<1>8. CASE drain_times_out(t) \/ finished(t) \/ finish_times_out(t) \/ shutdown(t)
  BY <1>8 DEF drain_times_out, finished, finish_times_out, shutdown
<1>9. CASE shutdown_begins(t)
  <2>1. current # 0 /\ rt[current].life \in {"ready", "stopped", "running"}
    BY <1>9, GenerationsExist DEF shutdown_begins, RuntimeInv, Core, Types, Lives, Generation
  <2>2. PICK pc, result : tasks' = [tasks EXCEPT ![t].pc = pc, ![t].result = result, ![t].epoch = current]
    BY <1>9, <2>1 DEF shutdown_begins
  <2>3. tasks'[t].reply = tasks[t].reply
    BY <2>2 DEF RuntimeInv, Core, Types, Task
  <2> QED
    BY <2>3 DEF Current
<1>10. CASE new_chat(t)
  <2>1. CASE GenerationStarts(t) /\ Becomes(next_epoch, Fresh)
    <3>1. next_epoch \in Epochs
      BY <2>1, PlacesAndEpochs DEF GenerationStarts, Epochs, RuntimeInv, Core, Types
    <3>2. rt'[next_epoch].session = NoSession /\ current' = next_epoch
      BY <2>1, <3>1 DEF Becomes, GenerationStarts, Fresh, Unborn, RuntimeInv, Core, Types
    <3> QED
      BY <2>1, <3>2 DEF GenerationStarts
  <2> QED
    BY <1>10, <2>1 DEF new_chat, GenerationFails
<1>11. CASE host_answers(t)
  BY <1>11 DEF host_answers
<1> QED
  BY <1>1, <1>2, <1>3, <1>4, <1>5, <1>6, <1>7, <1>8, <1>9, <1>10, <1>11 DEF Step

LEMMA News ==
    ASSUME RuntimeInv, [Next]_vars, NEW u \in Tasks
    PROVE  Current(u)
<1>0. u \in Everyone /\ u # Closer
  BY Distinct DEF Tasks, Everyone
<1> USE <1>0, CurrentUntouched DEF RuntimeInv, Core, Types
<1>1. CASE bootstrap_first_generation \/ close_requested \/ Closing
  BY <1>1 DEF bootstrap_first_generation, GenerationStarts, GenerationFails, Replies,
              close_requested, Closing, close_completes, close_times_out, destroy_window, Goes
<1>2. CASE pump_emits
  BY <1>2 DEF pump_emits
<1>3. ASSUME NEW t \in Tasks, NEW cmd \in Commands, NEW s \in Session, Issue(t, cmd, s)
      PROVE  Current(u)
  BY <1>3 DEF Issue, Resting, Refused, Names, Current
<1>4. ASSUME NEW t \in Everyone, Step(t) \/ host_answers(t)
      PROVE  Current(u)
  BY <1>4, OneCommandMoves, NewsOfCommand
<1>5. ASSUME NEW e \in Epochs,
             \/ host_publishes(e) \/ host_stops(e) \/ host_dies(e) \/ forward(e)
             \/ forward_generation(e)
      PROVE  Current(u)
  BY <1>5 DEF host_publishes, host_stops, host_dies, forward, HostOnly, forward_generation
<1>6. CASE UNCHANGED vars
  BY <1>6 DEF vars
<1> QED
  BY <1>1, <1>2, <1>3, <1>4, <1>5, <1>6 DEF Next, HostAnswers, HostEnds, Forwarding, Session

(* What the window has seen changes with the pump alone.                    *)
LEMMA SeenInOrder ==
    ASSUME RuntimeInv, [Next]_vars, ~ abandoned
    PROVE  seen' >= seen
<1> USE DEF RuntimeInv, Core, Types
<1>1. CASE pump_emits
  <2>1. out # << >> => Head(out) = out[1] /\ 1 \in 1 .. Len(out)
    OBVIOUS
  <2> QED
    BY <1>1, <2>1 DEF pump_emits, Ordered
<1>2. CASE ~ pump_emits
  <2>1. seen' = seen
    <3>1. ASSUME NEW t \in Everyone, Step(t) \/ host_answers(t) PROVE seen' = seen
      <4> USE DEF windowSide, OnlyTask
      <4>1. CASE \/ NoRuntime(t) \/ list_sessions(t) \/ start_session(t) \/ host_starts(t)
                 \/ host_start_fails(t) \/ session_starts(t) \/ snapshot_fails(t) \/ start_undone(t)
        BY <4>1 DEF NoRuntime, list_sessions, start_session, host_starts, host_start_fails,
                    session_starts, snapshot_fails, start_undone
      <4>2. CASE ~ (\/ NoRuntime(t) \/ list_sessions(t) \/ start_session(t) \/ host_starts(t)
                    \/ host_start_fails(t) \/ session_starts(t) \/ snapshot_fails(t) \/ start_undone(t))
        BY <3>1, <4>2 DEF Step, host_command, history_begins, history_read, history_ends,
           nothing_to_stop, shutdown_begins, host_stopped, host_was_gone, drained,
           drain_times_out, finished, finish_times_out, new_chat, shutdown, host_answers
      <4> QED
        BY <4>1, <4>2
    <3>2. CASE bootstrap_first_generation \/ close_requested \/ Closing
      BY <3>2 DEF bootstrap_first_generation, close_requested, Closing, close_completes,
                  close_times_out, destroy_window, windowSide
    <3>3. ASSUME NEW t \in Tasks, NEW cmd \in Commands, NEW s \in Session, Issue(t, cmd, s)
          PROVE  seen' = seen
      BY <3>3 DEF Issue
    <3>4. ASSUME NEW e \in Epochs,
                 \/ host_publishes(e) \/ host_stops(e) \/ host_dies(e) \/ forward(e)
                 \/ forward_generation(e)
          PROVE  seen' = seen
      BY <3>4 DEF host_publishes, host_stops, host_dies, forward, HostOnly, forward_generation,
         windowSide
    <3>5. CASE UNCHANGED vars
      BY <3>5 DEF vars
    <3> QED
      BY <1>2, <3>1, <3>2, <3>3, <3>4, <3>5
      DEF Next, HostAnswers, HostEnds, Forwarding, Session
  <2> QED
    BY <2>1
<1> QED
  BY <1>1, <1>2

(* Every command of runtime/coordinator.rs: a reply that names a           *)
(* generation names the current one, and the session it has loaded at that *)
(* moment, also the one of a history page that was read without the lock;  *)
(* and the window sees envelopes in the order of their generations unless  *)
(* a close request gave up.                                                *)
THEOREM RepliesCurrent == Spec => RepliesAreCurrent
<1> DEFINE A == /\ abandoned \/ seen' >= seen
                /\ \A t \in Tasks :
                     LET reply == tasks'[t].reply IN
                     reply # tasks[t].reply /\ reply.epoch # 0 =>
                        /\ current' = reply.epoch
                        /\ reply.session = rt'[current'].session
<1>1. RuntimeInv /\ [Next]_vars => A
  <2>1. RuntimeInv /\ [Next]_vars => abandoned \/ seen' >= seen
    BY SeenInOrder DEF RuntimeInv, Core, Types
  <2>2. RuntimeInv /\ [Next]_vars => \A t \in Tasks : Current(t)
    BY News
  <2> QED
    BY <2>1, <2>2 DEF Current
<1>2. RuntimeInv /\ [Next]_vars => [A]_vars
  BY <1>1
<1> QED
  BY <1>2, RuntimeInvHolds, PTL DEF Spec, RepliesAreCurrent
=============================================================================
