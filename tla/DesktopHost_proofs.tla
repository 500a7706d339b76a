------------------------ MODULE DesktopHost_proofs ------------------------
(***************************************************************************)
(* Proofs about DesktopHost, for every number of Turns and requests and    *)
(* every capacity of the progress queue.                                   *)
(***************************************************************************)
EXTENDS DesktopHost, TLAPS

(* Who may act when: a task is there while a Turn is active and its end    *)
(* has not been taken up; it is gone before the shutdown flushes the       *)
(* worker; a host that stops says so in HostActor.state.                   *)
Control ==
    /\ task # "none" => active # NoTurn /\ phase \in {"up", "joining"}
    /\ phase = "up" /\ active # NoTurn => task # "none"
    /\ phase \in {"joining", "flushing"} => state = Stopping
    /\ phase = "down" => state = Stopped /\ active = NoTurn
    /\ phase = "down" /\ agent = "host" => progress = <<>>

(* The loop's numbers stay below the host's.                               *)
Numbers ==
    /\ last_turn < next_turn
    /\ task = "entry" => last_turn + 1 < next_turn
    /\ active # NoTurn => current_turn = active

(* A request is open only while its Turn waits for it or has just been     *)
(* cancelled in that wait; an answered wait is not open any more; what is  *)
(* open has not been decided.                                              *)
Requested ==
    /\ task = "asking" => waits_for \in Requests /\ DOMAIN pending \subseteq {waits_for}
    /\ task = "asking" /\ answer[waits_for] # "none" => DOMAIN pending = {}
    /\ DOMAIN pending # {} => task \in {"asking", "error"}
    /\ \A r \in Requests : decided[r] # "none" => r \in resolved

HostInv == TypeOK /\ Control /\ Numbers /\ Requested /\ DecisionsHonoured /\ StateIsHonest

-----------------------------------------------------------------------------
(* The run states the host publishes are run states, and only Idle is      *)
(* taken for idle.                                                         *)
LEMMA StatesTyped ==
    /\ {Idle, Stopping, Stopped} \subseteq RunStates
    /\ \A t \in Turns \cup {NoTurn} :
          {Thinking(t), RunningTool(t), WaitingApproval(t), Cancelling(t), Failed(t)}
             \subseteq RunStates
BY DEF Idle, Stopping, Stopped, Thinking, RunningTool, WaitingApproval, Cancelling,
       Failed, RunStates

LEMMA StatesDiffer ==
    /\ Idle # Stopping /\ Idle # Stopped /\ Stopping # Stopped
    /\ \A t : /\ Idle # Thinking(t) /\ Idle # Cancelling(t) /\ Idle # Failed(t)
BY DEF Idle, Stopping, Stopped, Thinking, Cancelling, Failed

(* Every constructor of a run state, hidden behind the two lemmas above.    *)
LEMMA Announced ==
    ASSUME TypeOK, NEW s \in RunStates, Announce(s)
    PROVE  announced' \in RunStates
BY DEF TypeOK, Announce

LEMMA EnqueuedTyped ==
    ASSUME TypeOK, NEW s \in RunStates
    PROVE  Enqueued(s) \in Seq(RunStates)
BY DEF TypeOK, Enqueued

LEMMA InitHolds == Init => HostInv
<1> SUFFICES ASSUME Init PROVE HostInv
  OBVIOUS
<1>1. TypeOK
  <2>1. /\ next_turn \in Turns /\ last_turn \in -1 .. MaxTurns
        /\ next_id \in 1 .. MaxRequests + 1
    BY BoundsAreNumbers DEF Init, Turns
  <2>2. answer \in [Requests -> Decisions] /\ decided \in [Requests -> Decisions]
    BY DEF Init, Decisions
  <2>3. progress \in Seq(RunStates)
    BY DEF Init
  <2>4. /\ {state, shared_state, announced} \subseteq RunStates
        /\ cancelled \in BOOLEAN /\ (agent = "task" <=> task # "none")
    BY StatesTyped DEF Init
  <2> QED
    BY <2>1, <2>2, <2>3, <2>4 DEF Init, TypeOK
<1>2. Control /\ Numbers /\ Requested /\ StateIsHonest
  BY <1>1, StatesDiffer DEF Init, Control, Numbers, Requested, StateIsHonest
<1>3. DecisionsHonoured
  BY BoundsAreNumbers DEF Init, DecisionsHonoured, Requests
<1> QED
  BY <1>1, <1>2, <1>3 DEF HostInv

LEMMA TypeStep ==
    ASSUME HostInv, [Next]_vars
    PROVE  TypeOK'
<1> USE BoundsAreNumbers, NoNumbers, StatesTyped DEF HostInv
<1>1. CASE start_turn
  <2>1. next_turn \in Turns /\ next_turn' \in Turns
    BY <1>1 DEF start_turn, TypeOK, Turns
  <2> QED
    BY <1>1, <2>1 DEF start_turn, update_state, Announce, TypeOK
<1>2. CASE cancel_turn
  BY <1>2 DEF cancel_turn, update_state, Announce, TypeOK, broker
<1>3. ASSUME NEW r \in Requests, NEW d \in {"approved", "denied"}, resolve(r, d)
      PROVE  TypeOK'
  <2>1. pending[r] \in Turns \cup {NoTurn}
    BY <1>3 DEF resolve, DecisionsHonoured, TypeOK
  <2>2. {shared_state', announced', state'} \subseteq RunStates
    BY <1>3, <2>1 DEF resolve, Share, Announce, TypeOK
  <2>3. answer' \in [Requests -> Decisions] /\ decided' \in [Requests -> Decisions]
    BY <1>3 DEF resolve, TypeOK, Decisions
  <2> QED
    BY <1>3, <2>2, <2>3 DEF resolve, TypeOK
<1>4. CASE turn_refused
  <2>1. last_turn + 1 \in Turns
    BY <1>4 DEF turn_refused, TypeOK, Numbers, Turns
  <2>2. progress' \in Seq(RunStates)
    BY <1>4, <2>1, EnqueuedTyped DEF turn_refused, TypeOK
  <2> QED
    BY <1>4, <2>2 DEF turn_refused, End, TaskFrame, NoStates, broker, TypeOK, Ended
<1>5. CASE turn_begins
  <2>1. last_turn + 1 \in Turns /\ last_turn + 1 \in -1 .. MaxTurns
    BY <1>5 DEF turn_begins, TypeOK, Numbers, Turns
  <2>2. progress' \in Seq(RunStates)
    BY <1>5, <2>1, EnqueuedTyped DEF turn_begins
  <2> QED
    BY <1>5, <2>1, <2>2 DEF turn_begins, TaskFrame, NoStates, broker, TypeOK
<1>6. CASE tool_call_allowed
  BY <1>6, EnqueuedTyped DEF tool_call_allowed, TaskFrame, NoStates, broker, TypeOK
<1>7. CASE tool_call_asks
  <2>1. current_turn \in Turns
    BY <1>7 DEF tool_call_asks, TypeOK, Control, Numbers
  <2>2. {shared_state', announced', state'} \subseteq RunStates
    BY <1>7, <2>1 DEF tool_call_asks, Announce, TaskFrame, TypeOK
  <2>3. next_id' \in 1 .. MaxRequests + 1 /\ waits_for' \in Requests
    BY <1>7 DEF tool_call_asks, TypeOK, Requests
  <2> QED
    BY <1>7, <2>2, <2>3, EnqueuedTyped DEF tool_call_asks, TaskFrame, TypeOK
<1>8. CASE approval_arrives
  BY <1>8 DEF approval_arrives, TaskFrame, NoStates, broker, TypeOK
<1>9. CASE tool_returns
  BY <1>9 DEF tool_returns, TaskFrame, NoStates, broker, TypeOK
<1>10. CASE turn_cancelled
  BY <1>10 DEF turn_cancelled, End, TaskFrame, NoStates, broker, TypeOK, Ended
<1>11. ASSUME NEW how \in Ended, turn_ends(how) PROVE TypeOK'
  BY <1>11 DEF turn_ends, End, TaskFrame, NoStates, broker, TypeOK, Ended
<1>12. CASE on_progress
  <2>1. Head(progress) \in RunStates /\ Tail(progress) \in Seq(RunStates)
    BY <1>12 DEF on_progress, TypeOK
  <2> QED
    BY <1>12, <2>1, Announced DEF on_progress, Share, broker, TypeOK
<1>13. CASE finish_turn
  BY <1>13 DEF finish_turn, cancel_all, update_state, Announce, TypeOK, DecisionsHonoured, Requests
<1>14. CASE finish_panicked_turn
  BY <1>14 DEF finish_panicked_turn, update_state, Announce, broker, TypeOK
<1>15. CASE shutdown_begins
  BY <1>15 DEF shutdown_begins, update_state, Announce, broker, TypeOK
<1>16. CASE shutdown_joins
  BY <1>16 DEF shutdown_joins, cancel_all, TypeOK, Control, DecisionsHonoured, Requests
<1>17. CASE shutdown_ends
  BY <1>17 DEF shutdown_ends, update_state, Announce, broker, TypeOK
<1>18. CASE UNCHANGED vars
  BY <1>18 DEF vars, broker, TypeOK
<1> QED
  BY <1>1, <1>2, <1>3, <1>4, <1>5, <1>6, <1>7, <1>8, <1>9, <1>10, <1>11, <1>12, <1>13,
     <1>14, <1>15, <1>16, <1>17, <1>18 DEF Next, Task, Actor, approve, deny

(* Tasks, Turns and phases stay in step.                                   *)
LEMMA ControlStep ==
    ASSUME HostInv, [Next]_vars
    PROVE  Control'
<1> USE StatesDiffer DEF HostInv, TypeOK, Control, Ended
<1>1. CASE start_turn
  <2>1. next_turn \in Turns /\ next_turn # NoTurn
    BY <1>1, NoNumbers DEF Turns
  <2> QED
    BY <1>1, <2>1 DEF start_turn, MayStart, update_state
<1>2. CASE cancel_turn
  BY <1>2 DEF cancel_turn, update_state, broker
<1>3. ASSUME NEW r \in Requests, NEW d \in {"approved", "denied"}, resolve(r, d)
      PROVE  Control'
  BY <1>3 DEF resolve, Share
<1>4. CASE turn_refused
  BY <1>4 DEF turn_refused, End, TaskFrame, broker
<1>5. CASE turn_begins
  BY <1>5 DEF turn_begins, TaskFrame, broker
<1>6. CASE tool_call_allowed
  BY <1>6 DEF tool_call_allowed, TaskFrame, broker
<1>7. CASE tool_call_asks
  BY <1>7 DEF tool_call_asks, TaskFrame
<1>8. CASE approval_arrives
  BY <1>8 DEF approval_arrives, TaskFrame, broker
<1>9. CASE tool_returns
  BY <1>9 DEF tool_returns, TaskFrame, broker
<1>10. CASE turn_cancelled
  BY <1>10 DEF turn_cancelled, End, TaskFrame, broker
<1>11. ASSUME NEW how \in Ended, turn_ends(how) PROVE Control'
  BY <1>11 DEF turn_ends, End, TaskFrame, broker
<1>12. CASE on_progress
  BY <1>12 DEF on_progress, Share, broker
<1>13. CASE finish_turn
  BY <1>13 DEF finish_turn, cancel_all, update_state
<1>14. CASE finish_panicked_turn
  BY <1>14 DEF finish_panicked_turn, update_state, broker
<1>15. CASE shutdown_begins
  BY <1>15 DEF shutdown_begins, update_state, broker
<1>16. CASE shutdown_joins
  BY <1>16 DEF shutdown_joins, cancel_all
<1>17. CASE shutdown_ends
  BY <1>17 DEF shutdown_ends, update_state, broker
<1>18. CASE UNCHANGED vars
  BY <1>18 DEF vars, broker
<1> QED
  BY <1>1, <1>2, <1>3, <1>4, <1>5, <1>6, <1>7, <1>8, <1>9,
     <1>10, <1>11, <1>12, <1>13, <1>14, <1>15, <1>16, <1>17, <1>18
  DEF Next, Task, Actor, approve, deny

(* The numbers stay ordered.                                               *)
LEMMA NumbersStep ==
    ASSUME HostInv, [Next]_vars
    PROVE  Numbers'
<1> USE BoundsAreNumbers, NoNumbers DEF HostInv, TypeOK, Control, Numbers, Turns, Ended
<1>1. CASE start_turn
  BY <1>1 DEF start_turn, MayStart, update_state
<1>2. CASE cancel_turn
  BY <1>2 DEF cancel_turn, update_state, broker
<1>3. ASSUME NEW r \in Requests, NEW d \in {"approved", "denied"}, resolve(r, d)
      PROVE  Numbers'
  BY <1>3 DEF resolve, Share
<1>4. CASE turn_refused
  BY <1>4 DEF turn_refused, End, TaskFrame, broker
<1>5. CASE turn_begins
  BY <1>5 DEF turn_begins, TaskFrame, broker
<1>6. CASE tool_call_allowed
  BY <1>6 DEF tool_call_allowed, TaskFrame, broker
<1>7. CASE tool_call_asks
  BY <1>7 DEF tool_call_asks, TaskFrame
<1>8. CASE approval_arrives
  BY <1>8 DEF approval_arrives, TaskFrame, broker
<1>9. CASE tool_returns
  BY <1>9 DEF tool_returns, TaskFrame, broker
<1>10. CASE turn_cancelled
  BY <1>10 DEF turn_cancelled, End, TaskFrame, broker
<1>11. ASSUME NEW how \in Ended, turn_ends(how) PROVE Numbers'
  BY <1>11 DEF turn_ends, End, TaskFrame, broker
<1>12. CASE on_progress
  BY <1>12 DEF on_progress, Share, broker
<1>13. CASE finish_turn
  BY <1>13 DEF finish_turn, cancel_all, update_state
<1>14. CASE finish_panicked_turn
  BY <1>14 DEF finish_panicked_turn, update_state, broker
<1>15. CASE shutdown_begins
  BY <1>15 DEF shutdown_begins, update_state, broker
<1>16. CASE shutdown_joins
  BY <1>16 DEF shutdown_joins, cancel_all
<1>17. CASE shutdown_ends
  BY <1>17 DEF shutdown_ends, update_state, broker
<1>18. CASE UNCHANGED vars
  BY <1>18 DEF vars, broker
<1> QED
  BY <1>1, <1>2, <1>3, <1>4, <1>5, <1>6, <1>7, <1>8, <1>9,
     <1>10, <1>11, <1>12, <1>13, <1>14, <1>15, <1>16, <1>17, <1>18
  DEF Next, Task, Actor, approve, deny

(* Requests are open as Requested says.                                    *)
LEMMA RequestedStep ==
    ASSUME HostInv, [Next]_vars
    PROVE  Requested'
<1> USE BoundsAreNumbers, NoNumbers DEF HostInv, TypeOK, Control, Requested, DecisionsHonoured, Requests, Ended
<1>1. CASE start_turn
  BY <1>1 DEF start_turn, MayStart, update_state
<1>2. CASE cancel_turn
  BY <1>2 DEF cancel_turn, update_state, broker
<1>3. ASSUME NEW r \in Requests, NEW d \in {"approved", "denied"}, resolve(r, d)
      PROVE  Requested'
  BY <1>3 DEF resolve, Share
<1>4. CASE turn_refused
  BY <1>4 DEF turn_refused, End, TaskFrame, broker
<1>5. CASE turn_begins
  BY <1>5 DEF turn_begins, TaskFrame, broker
<1>6. CASE tool_call_allowed
  BY <1>6 DEF tool_call_allowed, TaskFrame, broker
<1>7. CASE tool_call_asks
  BY <1>7 DEF tool_call_asks, TaskFrame
<1>8. CASE approval_arrives
  BY <1>8 DEF approval_arrives, TaskFrame, broker
<1>9. CASE tool_returns
  BY <1>9 DEF tool_returns, TaskFrame, broker
<1>10. CASE turn_cancelled
  BY <1>10 DEF turn_cancelled, End, TaskFrame, broker
<1>11. ASSUME NEW how \in Ended, turn_ends(how) PROVE Requested'
  BY <1>11 DEF turn_ends, End, TaskFrame, broker
<1>12. CASE on_progress
  BY <1>12 DEF on_progress, Share, broker
<1>13. CASE finish_turn
  BY <1>13 DEF finish_turn, cancel_all, update_state
<1>14. CASE finish_panicked_turn
  BY <1>14 DEF finish_panicked_turn, update_state, broker
<1>15. CASE shutdown_begins
  BY <1>15 DEF shutdown_begins, update_state, broker
<1>16. CASE shutdown_joins
  BY <1>16 DEF shutdown_joins, cancel_all
<1>17. CASE shutdown_ends
  BY <1>17 DEF shutdown_ends, update_state, broker
<1>18. CASE UNCHANGED vars
  BY <1>18 DEF vars, broker
<1> QED
  BY <1>1, <1>2, <1>3, <1>4, <1>5, <1>6, <1>7, <1>8, <1>9,
     <1>10, <1>11, <1>12, <1>13, <1>14, <1>15, <1>16, <1>17, <1>18
  DEF Next, Task, Actor, approve, deny

(* Decisions stay honoured.                                                *)
LEMMA DecisionsStep ==
    ASSUME HostInv, [Next]_vars
    PROVE  DecisionsHonoured'
<1> USE BoundsAreNumbers, NoNumbers DEF HostInv, TypeOK, Control, Numbers, Requested, DecisionsHonoured, Requests, Ended
<1>1. CASE start_turn
  BY <1>1 DEF start_turn, MayStart, update_state
<1>2. CASE cancel_turn
  BY <1>2 DEF cancel_turn, update_state, broker
<1>3. ASSUME NEW r \in Requests, NEW d \in {"approved", "denied"}, resolve(r, d)
      PROVE  DecisionsHonoured'
  BY <1>3 DEF resolve, Share
<1>4. CASE turn_refused
  BY <1>4 DEF turn_refused, End, TaskFrame, broker
<1>5. CASE turn_begins
  BY <1>5 DEF turn_begins, TaskFrame, broker
<1>6. CASE tool_call_allowed
  BY <1>6 DEF tool_call_allowed, TaskFrame, broker
<1>7. CASE tool_call_asks
  BY <1>7 DEF tool_call_asks, TaskFrame
<1>8. CASE approval_arrives
  BY <1>8 DEF approval_arrives, TaskFrame, broker
<1>9. CASE tool_returns
  BY <1>9 DEF tool_returns, TaskFrame, broker
<1>10. CASE turn_cancelled
  BY <1>10 DEF turn_cancelled, End, TaskFrame, broker
<1>11. ASSUME NEW how \in Ended, turn_ends(how) PROVE DecisionsHonoured'
  BY <1>11 DEF turn_ends, End, TaskFrame, broker
<1>12. CASE on_progress
  BY <1>12 DEF on_progress, Share, broker
<1>13. CASE finish_turn
  BY <1>13 DEF finish_turn, cancel_all, update_state
<1>14. CASE finish_panicked_turn
  BY <1>14 DEF finish_panicked_turn, update_state, broker
<1>15. CASE shutdown_begins
  BY <1>15 DEF shutdown_begins, update_state, broker
<1>16. CASE shutdown_joins
  BY <1>16 DEF shutdown_joins, cancel_all
<1>17. CASE shutdown_ends
  BY <1>17 DEF shutdown_ends, update_state, broker
<1>18. CASE UNCHANGED vars
  BY <1>18 DEF vars, broker
<1> QED
  BY <1>1, <1>2, <1>3, <1>4, <1>5, <1>6, <1>7, <1>8, <1>9,
     <1>10, <1>11, <1>12, <1>13, <1>14, <1>15, <1>16, <1>17, <1>18
  DEF Next, Task, Actor, approve, deny

(* The state stays honest.                                                 *)
LEMMA HonestStep ==
    ASSUME HostInv, [Next]_vars
    PROVE  StateIsHonest'
<1> USE StatesDiffer DEF HostInv, TypeOK, Control, StateIsHonest, Announce, Ended
<1>1. CASE start_turn
  BY <1>1 DEF start_turn, MayStart, update_state
<1>2. CASE cancel_turn
  BY <1>2 DEF cancel_turn, update_state, broker
<1>3. ASSUME NEW r \in Requests, NEW d \in {"approved", "denied"}, resolve(r, d)
      PROVE  StateIsHonest'
  BY <1>3 DEF resolve, Share
<1>4. CASE turn_refused
  BY <1>4 DEF turn_refused, End, TaskFrame, broker
<1>5. CASE turn_begins
  BY <1>5 DEF turn_begins, TaskFrame, broker
<1>6. CASE tool_call_allowed
  BY <1>6 DEF tool_call_allowed, TaskFrame, broker
<1>7. CASE tool_call_asks
  BY <1>7 DEF tool_call_asks, TaskFrame
<1>8. CASE approval_arrives
  BY <1>8 DEF approval_arrives, TaskFrame, broker
<1>9. CASE tool_returns
  BY <1>9 DEF tool_returns, TaskFrame, broker
<1>10. CASE turn_cancelled
  BY <1>10 DEF turn_cancelled, End, TaskFrame, broker
<1>11. ASSUME NEW how \in Ended, turn_ends(how) PROVE StateIsHonest'
  BY <1>11 DEF turn_ends, End, TaskFrame, broker
<1>12. CASE on_progress
  BY <1>12 DEF on_progress, Share, broker
<1>13. CASE finish_turn
  BY <1>13 DEF finish_turn, cancel_all, update_state
<1>14. CASE finish_panicked_turn
  BY <1>14 DEF finish_panicked_turn, update_state, broker
<1>15. CASE shutdown_begins
  BY <1>15 DEF shutdown_begins, update_state, broker
<1>16. CASE shutdown_joins
  BY <1>16 DEF shutdown_joins, cancel_all
<1>17. CASE shutdown_ends
  BY <1>17 DEF shutdown_ends, update_state, broker
<1>18. CASE UNCHANGED vars
  BY <1>18 DEF vars, broker
<1> QED
  BY <1>1, <1>2, <1>3, <1>4, <1>5, <1>6, <1>7, <1>8, <1>9,
     <1>10, <1>11, <1>12, <1>13, <1>14, <1>15, <1>16, <1>17, <1>18
  DEF Next, Task, Actor, approve, deny

LEMMA HostStep == HostInv /\ [Next]_vars => HostInv'
BY TypeStep, ControlStep, NumbersStep, RequestedStep, DecisionsStep, HonestStep DEF HostInv

LEMMA HostInvHolds == Spec => []HostInv
BY InitHolds, HostStep, PTL DEF Spec

-----------------------------------------------------------------------------
(* Every variable of the host keeps its type, and the Agent belongs to the *)
(* task exactly while there is one: start_turn, the task and finish_turn   *)
(* hand it over and nobody holds it twice.                                 *)
THEOREM HostTypes == Spec => []TypeOK
<1>1. HostInv => TypeOK
  BY DEF HostInv
<1> QED
  BY <1>1, HostInvHolds, PTL

(* ApprovalBroker, HostActor and the Turn task together honour decisions:  *)
(* however requests, decisions, cancellations, panics and the shutdown     *)
(* interleave, a tool that was asked about runs only on "approved", given  *)
(* first and to that request, every request is pending or resolved, and    *)
(* what is pending belongs to the active Turn.                             *)
THEOREM DecisionsHold == Spec => []DecisionsHonoured
<1>1. HostInv => DecisionsHonoured
  BY DEF HostInv
<1> QED
  BY <1>1, HostInvHolds, PTL

(* An idle HostActor has its Agent back, no active Turn and no open        *)
(* request; once down with its Agent it shows Stopped for good, although   *)
(* broker and worker write the shared run state on their own.              *)
THEOREM StateHonest == Spec => []StateIsHonest
<1>1. HostInv => StateIsHonest
  BY DEF HostInv
<1> QED
  BY <1>1, HostInvHolds, PTL
=============================================================================
