---------------------------- MODULE EventBuffers ----------------------------
(***************************************************************************)
(* The desktop host's EventBuffer (src-tauri/src/runtime/event.rs): one    *)
(* bounded queue, guarded by one mutex, that every publisher of the host   *)
(* writes to and one forwarder reads.  A buffer is a record and each       *)
(* critical section of the code is an operator from buffers to buffers;    *)
(* the modules that extend this one decide who calls them and when.        *)
(*                                                                         *)
(* Payloads are told apart by what the buffer does with them:              *)
(*   state     StateChanged, coalesced with the queued StateChanged        *)
(*   snapshot  AssistantResponseSnapshot, coalesced by its call and the    *)
(*             only payload that may be evicted                            *)
(*   closing   AssistantFinalized, or LlmCallEnded failed or cancelled:    *)
(*             a control payload that ends its call                        *)
(*   control   every other payload                                         *)
(*   resync    the marker recv inserts                                     *)
(* Left out: the session identity (a host has one session) and the number  *)
(* of dropped snapshots, which is only reported.                           *)
(***************************************************************************)
EXTENDS Integers, Sequences, FiniteSets, SequencesExt

CONSTANT Capacity   \* event_capacity

ASSUME CapacityAssumption == Capacity \in Nat \ {0}

StateChanged(s)        == [kind |-> "state", body |-> s]
ResponseSnapshot(c, u) == [kind |-> "snapshot", call |-> c, body |-> u]
CallClosed(c, x)       == [kind |-> "closing", call |-> c, body |-> x]
Control(x)             == [kind |-> "control", body |-> x]
ResyncRequired         == [kind |-> "resync"]

EmptyBuffer ==
    [queue |-> <<>>, next_seq |-> 1, last_delivered_seq |-> 0,
     resync_required |-> FALSE, marker_queued |-> FALSE, closed |-> FALSE,
     active_assistant_calls |-> {}]

IsSnapshot(p) == p.kind = "snapshot"

ActiveAfter(calls, p) ==
    CASE p.kind = "snapshot" -> calls \cup {p.call}
      [] p.kind = "closing"  -> calls \ {p.call}
      [] OTHER               -> calls

(* The queued events that payload p is written over. *)
Slots(b, p) ==
    {i \in DOMAIN b.queue :
        LET q == b.queue[i].payload
        IN  \/ IsSnapshot(p) /\ IsSnapshot(q) /\ q.call = p.call
            \/ p.kind = "state" /\ q.kind = "state"}

Evictable(b) == {i \in DOMAIN b.queue : IsSnapshot(b.queue[i].payload)}

Full(b)       == Len(b.queue) >= Capacity
Coalesces(b, p) == ~b.closed /\ Slots(b, p) # {}
Evicts(b, p)  == /\ ~b.closed /\ Slots(b, p) = {} /\ Full(b)
                 /\ ~IsSnapshot(p) /\ Evictable(b) # {}
Refuses(b, p) == /\ ~b.closed /\ Slots(b, p) = {} /\ Full(b)
                 /\ IsSnapshot(p) \/ Evictable(b) = {}

FirstIn(S) == CHOOSE i \in S : \A j \in S : i <= j
LastIn(S)  == CHOOSE i \in S : \A j \in S : j <= i

Push(b, p) ==
    [b EXCEPT !.queue = Append(@, [seq |-> b.next_seq, payload |-> p]),
              !.next_seq = @ + 1]

(* Mutant: nobody is told.                                                 *)
WithLoss_silent(b) == b

(* Whatever is lost, a resync is asked for.                                *)
WithLoss(b) == [b EXCEPT !.resync_required = TRUE]

(* Mutant: a coalesced event gets a new number in its old place.           *)
Coalesced_renumbered(b, p) ==
    LET slot == IF IsSnapshot(p) THEN FirstIn(Slots(b, p)) ELSE LastIn(Slots(b, p))
    IN  [b EXCEPT !.queue[slot] = [seq |-> b.next_seq, payload |-> p],
                  !.next_seq = @ + 1]

Coalesced(b, p) ==
    LET slot == IF IsSnapshot(p) THEN FirstIn(Slots(b, p)) ELSE LastIn(Slots(b, p))
    IN  [b EXCEPT !.queue[slot].payload = p]

Evicted(b) == [b EXCEPT !.queue = RemoveAt(@, FirstIn(Evictable(b)))]

Publish(b, p) ==
    LET a == [b EXCEPT !.active_assistant_calls = ActiveAfter(@, p)]
    IN  CASE b.closed        -> b
          [] Coalesces(b, p) -> Coalesced(a, p)
          [] Evicts(b, p)    -> Push(WithLoss(Evicted(a)), p)
          [] Refuses(b, p)   -> WithLoss(a)
          [] OTHER           -> Push(a, p)

(* recv: a marker is appended first when one is due and fits, then the     *)
(* front of the queue is taken.  An empty queue after that is the end of   *)
(* the stream if the buffer is closed and a wait if it is not.             *)
Marked(b) ==
    IF b.resync_required /\ ~b.marker_queued /\ ~Full(b)
      THEN [Push(b, ResyncRequired) EXCEPT !.marker_queued = TRUE]
      ELSE b

CanRecv(b) == Marked(b).queue # <<>>
Received(b) == Head(Marked(b).queue)
(* Mutant: the event is not taken out.                                     *)
AfterRecv_peek(b) ==
    [Marked(b) EXCEPT !.last_delivered_seq = Received(b).seq,
                      !.marker_queued = @ /\ Received(b).payload # ResyncRequired]
AfterRecv(b) ==
    [Marked(b) EXCEPT !.queue = Tail(@),
                      !.last_delivered_seq = Received(b).seq,
                      !.marker_queued = @ /\ Received(b).payload # ResyncRequired]
StreamEnded(b) == b.closed /\ ~CanRecv(b)

Acknowledged(b) == [b EXCEPT !.resync_required = FALSE]
Closed(b)       == [b EXCEPT !.closed = TRUE]
=============================================================================
