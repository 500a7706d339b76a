---------------------------- MODULE EventStream ----------------------------
(***************************************************************************)
(* One EventBuffer with everybody who touches it: publishers on any thread *)
(* of the host, the forwarder task that receives, and the host actor that  *)
(* serves one snapshot command at a time.  A snapshot is four critical     *)
(* sections (host/actor.rs snapshot): the session log is loaded, then the  *)
(* delivery status is read, then the resync flag is cleared, and last the  *)
(* run state and the approvals are read; a publisher or the forwarder may  *)
(* run between any two of them.                                            *)
(*                                                                         *)
(* Payload bodies are versions, so that an old body can be told from a new *)
(* one; the controls are numbered in the order they were published.        *)
(***************************************************************************)
EXTENDS EventBuffers

CONSTANTS
    Calls,       \* assistant calls, each a (turn, llm_call_id) of the code
    MaxSeq,      \* bound: nothing is published beyond this sequence number
    MaxControls, \* bound: control payloads published
    MaxVersion   \* bound: contents one slot goes through

ASSUME BoundsAreNumbers == {MaxSeq, MaxControls, MaxVersion} \subseteq Nat

VARIABLES
    buf,       \* the EventBuffer
    snapping,  \* where the actor is in a snapshot command
    ended,     \* the forwarder has seen the end of the stream
    \* history: what was said and what was heard
    sent,      \* how many controls were accepted ...
    refused,   \* ... the controls that were refused
    heard,     \* ... and the controls received, in order
    newest,    \* slot -> the body published last, or Lost
    shown,     \* slot -> the body received last
    unseen,    \* a loss that no snapshot begun since makes up for
    told       \* the receiver was shown a loss since the last snapshot

vars == <<buf, snapping, ended, sent, refused, heard, newest, shown, unseen, told>>
history == <<sent, refused, heard, newest, shown, unseen, told>>

State == "state"

ASSUME StateIsNoCall == State \notin Calls

SlotNames == Calls \cup {State}
Lost == 0 - 1
Versions == 0 .. MaxVersion

Init ==
    /\ buf = EmptyBuffer
    /\ snapping = "no"
    /\ ended = FALSE
    /\ sent = 0 /\ refused = {} /\ heard = <<>>
    /\ newest = [s \in SlotNames |-> 0]
    /\ shown  = [s \in SlotNames |-> 0]
    /\ unseen = FALSE /\ told = FALSE

-----------------------------------------------------------------------------
(* Publishing.                                                             *)

SlotOf(p) == IF p.kind = "state" THEN State ELSE p.call

Room == buf.next_seq <= MaxSeq

Lossy(p) == Evicts(buf, p) \/ Refuses(buf, p)

(* Between the load of the session and acknowledge_resync a loss is in no  *)
(* snapshot and its flag is about to be cleared.                           *)
Forgetful == snapping \in {"loaded", "status"}

(* The slots whose newest body is gone once p has been published.          *)
LostSlots(p) ==
    (IF Evicts(buf, p)
       THEN {buf.queue[FirstIn(Evictable(buf))].payload.call} ELSE {})
      \cup (IF Refuses(buf, p) /\ p.kind \in {"state", "snapshot"}
              THEN {SlotOf(p)} ELSE {})

Published(p) ==
    /\ Room
    /\ buf' = Publish(buf, p)
    /\ unseen' = (unseen \/ (Lossy(p) /\ ~Forgetful))
    /\ UNCHANGED <<snapping, ended, heard, shown, told>>

(* StateChanged and AssistantResponseSnapshot.                             *)
PublishSlot(s) ==
    LET v == IF newest[s] = Lost THEN shown[s] + 1 ELSE newest[s] + 1
        p == IF s = State THEN StateChanged(v) ELSE ResponseSnapshot(s, v)
    IN  /\ ~buf.closed /\ v <= MaxVersion
        /\ Published(p)
        /\ newest' = [x \in SlotNames |->
                        IF x \in LostSlots(p) THEN Lost
                        ELSE IF x = s THEN v ELSE newest[x]]
        /\ UNCHANGED <<sent, refused>>

PublishControl(p) ==
    /\ ~buf.closed /\ sent < MaxControls
    /\ p.body = sent + 1
    /\ Published(p)
    /\ sent' = sent + 1
    /\ refused' = IF Refuses(buf, p) THEN refused \cup {sent + 1} ELSE refused
    /\ newest' = [x \in SlotNames |-> IF x \in LostSlots(p) THEN Lost ELSE newest[x]]

PublishOther == PublishControl(Control(sent + 1))
PublishClosing(c) == PublishControl(CallClosed(c, sent + 1))

(* A publisher that comes after close is turned away.                      *)
PublishLate ==
    /\ buf.closed
    /\ Published(StateChanged(newest[State]))
    /\ UNCHANGED <<sent, refused, newest>>

-----------------------------------------------------------------------------
(* Receiving: forward_events.                                              *)

GapAt(i) ==
    buf.queue[i].seq #
      1 + (IF i = 1 THEN buf.last_delivered_seq ELSE buf.queue[i - 1].seq)

Recv ==
    /\ ~ended /\ CanRecv(buf)
    /\ Marked(buf).next_seq <= MaxSeq + 1
    /\ LET e == Received(buf)
           p == e.payload
       IN  /\ buf' = AfterRecv(buf)
           /\ told' = \/ told
                      \/ p = ResyncRequired
                      \/ e.seq # buf.last_delivered_seq + 1
           /\ heard' = IF p.kind \in {"control", "closing"}
                         THEN Append(heard, p.body) ELSE heard
           /\ shown' = IF p.kind \in {"state", "snapshot"}
                         THEN [shown EXCEPT ![SlotOf(p)] = p.body] ELSE shown
    /\ UNCHANGED <<snapping, ended, sent, refused, newest, unseen>>

RecvEnd ==
    /\ ~ended /\ StreamEnded(buf)
    /\ ended' = TRUE
    /\ UNCHANGED <<buf, snapping, history>>

-----------------------------------------------------------------------------
(* HostActor::snapshot, and the end of shutdown_internal.                  *)

SnapshotLoad ==
    /\ snapping = "no" /\ ~buf.closed
    /\ snapping' = "loaded"
    /\ told' = FALSE /\ unseen' = FALSE
    /\ UNCHANGED <<buf, ended, sent, refused, heard, newest, shown>>

SnapshotStatus ==
    /\ snapping = "loaded"
    /\ snapping' = "status"
    /\ UNCHANGED <<buf, ended, history>>

SnapshotAcknowledge ==
    /\ snapping = "status"
    /\ snapping' = "acknowledged"
    /\ buf' = Acknowledged(buf)
    /\ UNCHANGED <<ended, history>>

SnapshotReply ==
    /\ snapping = "acknowledged"
    /\ snapping' = "no"
    /\ UNCHANGED <<buf, ended, history>>

Close ==
    /\ snapping = "no" /\ ~buf.closed
    /\ buf' = Closed(buf)
    /\ UNCHANGED <<snapping, ended, history>>

Next ==
    \/ \E s \in SlotNames : PublishSlot(s)
    \/ PublishOther
    \/ \E c \in Calls : PublishClosing(c)
    \/ PublishLate
    \/ Recv \/ RecvEnd
    \/ SnapshotLoad \/ SnapshotStatus \/ SnapshotAcknowledge \/ SnapshotReply
    \/ Close

Spec == Init /\ [][Next]_vars

(* The forwarder is a loop of its own task and is always polled again.     *)
FairSpec == Spec /\ WF_vars(Recv \/ RecvEnd)

-----------------------------------------------------------------------------
(* Properties.                                                             *)

Bodies == Versions \cup {Lost}
Payloads ==
    {StateChanged(v) : v \in Versions}
      \cup {ResponseSnapshot(c, v) : c \in Calls, v \in Versions}
      \cup {CallClosed(c, n) : c \in Calls, n \in 1 .. MaxControls}
      \cup {Control(n) : n \in 1 .. MaxControls}
      \cup {ResyncRequired}
Envelopes == [seq : 1 .. MaxSeq, payload : Payloads]
Buffers ==
    [queue : Seq(Envelopes), next_seq : 1 .. MaxSeq + 1, last_delivered_seq : 0 .. MaxSeq,
     resync_required : BOOLEAN, marker_queued : BOOLEAN, closed : BOOLEAN,
     active_assistant_calls : SUBSET Calls]

(* The types of the variables; the queue holds well-formed envelopes, and  *)
(* never more of them than it has places.                                  *)
TypeOK ==
    /\ buf \in Buffers /\ Len(buf.queue) <= Capacity
    /\ {ended, told, unseen} \subseteq BOOLEAN
    /\ snapping \in {"no", "loaded", "status", "acknowledged"}
    /\ sent \in 0 .. MaxControls /\ refused \subseteq 1 .. sent /\ heard \in Seq(1 .. sent)
    /\ newest \in [SlotNames -> Bodies] /\ shown \in [SlotNames -> Versions]

IsControl(p) == p.kind \in {"control", "closing"}
Controls == {i \in DOMAIN buf.queue : IsControl(buf.queue[i].payload)}

(* "Control events retain priority": each control payload publish accepted *)
(* is received or still queued, once, in the order of publication, however *)
(* many snapshots came and went around it.                                 *)
ControlsInOrder ==
    /\ {heard[i] : i \in DOMAIN heard} \cup {buf.queue[i].payload.body : i \in Controls}
         = 1 .. sent \ refused
    /\ \A i, j \in DOMAIN heard : i < j => heard[i] < heard[j]
    /\ \A i \in DOMAIN heard, j \in Controls : heard[i] < buf.queue[j].payload.body
    /\ \A i, j \in Controls :
         i < j => buf.queue[i].payload.body < buf.queue[j].payload.body

(* The newest run state and the newest draft of every call are what the    *)
(* receiver has or is about to get, or their loss was recorded: coalescing *)
(* and eviction never leave an older body in place of a newer one.         *)
NewestOrLost ==
    \A s \in SlotNames :
        LET mine == {i \in DOMAIN buf.queue :
                        /\ buf.queue[i].payload.kind \in {"state", "snapshot"}
                        /\ SlotOf(buf.queue[i].payload) = s}
        IN  newest[s] # Lost =>
              newest[s] = IF mine = {} THEN shown[s]
                          ELSE buf.queue[LastIn(mine)].payload.body

(* recv never hands out a sequence number twice nor goes back, whatever    *)
(* was coalesced, evicted or inserted in between: what is queued has       *)
(* growing numbers above the last one handed out. The frontend ignores an  *)
(* envelope at or below the last number it saw.                            *)
NumbersGrow ==
    /\ \A i \in DOMAIN buf.queue : buf.queue[i].seq > buf.last_delivered_seq
    /\ \A i, j \in DOMAIN buf.queue : i < j => buf.queue[i].seq < buf.queue[j].seq

(* The order that publish and recv of the event buffer promise: accepted   *)
(* controls arrive once and in order, nothing old survives what is newer,  *)
(* and numbers only grow.                                                  *)
QueueKeepsOrder == ControlsInOrder /\ NewestOrLost /\ NumbersGrow

Visible ==
    \/ told \/ buf.resync_required \/ buf.marker_queued
    \/ \E i \in DOMAIN buf.queue : GapAt(i)

(* A loss is visible to the receiver: it was shown a marker or a gap in    *)
(* the numbers, or will be, unless a snapshot that was begun after the     *)
(* loss makes up for it.  Only a loss that falls between the load of a     *)
(* snapshot and its acknowledge_resync is excepted.                        *)
LossIsVisible == unseen => Visible

(* Such a loss does not stay a secret of the host: the marker gets through *)
(* the queue to the receiver unless a snapshot comes first.                *)
LossIsTold ==
    unseen ~> (told \/ ~unseen \/ ~Room)

(* After close the receiver gets to the end of the stream, provided no     *)
(* resync was outstanding: what is queued is delivered, then recv returns  *)
(* None and the forwarder ends.                                            *)
QuietCloseEndsStream ==
    (buf.closed /\ ~buf.resync_required) ~> ended
=============================================================================
