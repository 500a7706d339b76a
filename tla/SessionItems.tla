---------------------------- MODULE SessionItems ----------------------------
(***************************************************************************)
(* The facts of a session log and the pure functions over them:            *)
(* `next_turn` (session/store.rs) and the round-matching machine of        *)
(* `context::materialize`, which decides whether a log can be turned into  *)
(* the messages of a model request.                                        *)
(*                                                                         *)
(* An item keeps its kind, its Turn number and, for tool items, the call   *)
(* identity, the tool name and the result status; texts, blocks, ids and   *)
(* timestamps are left out.                                                *)
(***************************************************************************)
EXTENDS Integers, Sequences

CONSTANTS
    CallIds,    \* tool_use_id values a model may issue
    ToolNames,  \* tool names a model may mention, registered or not
    None        \* stands for "no identity", "no name", "no status"

ASSUME NoneIsNoIdentity == None \notin CallIds \union ToolNames

Statuses ==
    {"succeeded", "failed", "invalid_arguments", "unknown_tool", "denied",
     "cancelled_user", "cancelled_parent", "cancelled_disposed",
     "outcome_unknown"}

Kinds == {"user", "assistant", "call", "result", "checkpoint", "compaction"}

Item == [kind : Kinds, turn : Nat, id : CallIds \union {None},
         name : ToolNames \union {None}, status : Statuses \union {None}]

Call == [id : CallIds, name : ToolNames]

PlainItem(kind, turn) ==
    [kind |-> kind, turn |-> turn, id |-> None, name |-> None, status |-> None]

CallItem(turn, call) ==
    [kind |-> "call", turn |-> turn, id |-> call.id, name |-> call.name,
     status |-> None]

ResultItem(turn, call, status) ==
    [kind |-> "result", turn |-> turn, id |-> call.id, name |-> call.name,
     status |-> status]

-----------------------------------------------------------------------------
(* Mutant: the last Turn number is used again.                             *)
next_turn_reused(items) == IF items = << >> THEN 0 ELSE items[Len(items)].turn

next_turn(items) ==
    IF items = << >> THEN 0 ELSE items[Len(items)].turn + 1

-----------------------------------------------------------------------------
(* The phases of `materialize`: Idle, Calls and Results of the code, and   *)
(* "error" for its early returns. `pending` is the BTreeMap from call      *)
(* identity to tool name; `out` the messages produced so far, each a role  *)
(* with the tool identities its blocks carry; `blocks` the blocks of the   *)
(* message under construction.                                             *)
Idle == [phase |-> "idle", pending |-> {}, blocks |-> << >>, out |-> << >>]

Failed(m) == [m EXCEPT !.phase = "error"]

Message(role, ids) == [role |-> role, ids |-> ids]

ensure_idle(m, item) ==
    IF m.phase = "idle"
    THEN [m EXCEPT !.out = Append(@, Message(item.kind, << >>))]
    ELSE Failed(m)

(* Mutant: a repeated identity replaces the pending call.                  *)
append_call_duplicates(m, item) ==
    IF m.phase \in {"idle", "calls"}
    THEN [m EXCEPT !.phase = "calls",
                   !.pending = {c \in @ : c.id # item.id}
                               \union {[id |-> item.id, name |-> item.name]},
                   !.blocks = Append(@, item.id)]
    ELSE Failed(m)

append_call(m, item) ==
    IF m.phase \in {"idle", "calls"} /\ \A c \in m.pending : c.id # item.id
    THEN [m EXCEPT !.phase = "calls",
                   !.pending = @ \union {[id |-> item.id, name |-> item.name]},
                   !.blocks = Append(@, item.id)]
    ELSE Failed(m)

(* A result leaves the phase Calls by emitting the assistant message of    *)
(* the round; the last result of the round emits the user message.         *)
append_result(m, item) ==
    LET call   == [id |-> item.id, name |-> item.name]
        opened == IF m.phase = "calls"
                  THEN [m EXCEPT !.out = Append(@, Message("assistant", m.blocks)),
                                 !.blocks = << >>]
                  ELSE m
        blocks == Append(opened.blocks, item.id)
    IN  IF m.phase \notin {"calls", "results"} \/ call \notin m.pending
        THEN Failed(m)
        ELSE IF m.pending = {call}
        THEN [phase |-> "idle", pending |-> {}, blocks |-> << >>,
              out |-> Append(opened.out, Message("user", blocks))]
        ELSE [opened EXCEPT !.phase = "results", !.pending = @ \ {call},
                            !.blocks = blocks]

MaterializeStep(m, item) ==
    CASE m.phase = "error"                -> m
      [] item.kind \in {"user", "assistant"} -> ensure_idle(m, item)
      [] item.kind = "call"               -> append_call(m, item)
      [] item.kind = "result"             -> append_result(m, item)
      [] item.kind = "checkpoint"         -> m
      [] item.kind = "compaction"         -> Failed(m)

(* The singleton binds `m` to a value, so that TLC computes it only once.   *)
materialize(items) ==
    LET after[n \in 0 .. Len(items)] ==
          IF n = 0 THEN Idle
          ELSE CHOOSE next \in {MaterializeStep(m, items[n]) : m \in {after[n-1]}} : TRUE
    IN  after[Len(items)]

Materializes(items) == materialize(items).phase = "idle"

(* Filters: the elements at some positions of a sequence, in their order.  *)
Kept(items, positions) ==
    LET kept[n \in 0 .. Len(items)] ==
          IF n = 0 THEN << >>
          ELSE IF n \in positions THEN Append(kept[n-1], items[n]) ELSE kept[n-1]
    IN  kept[Len(items)]

-----------------------------------------------------------------------------
(* The same question asked of the log as a whole, without a machine.       *)

IsCall(items, i)   == items[i].kind = "call"
IsResult(items, i) == items[i].kind = "result"

(* Position j answers the call at position i.                              *)
Answers(items, j, i) ==
    /\ i < j
    /\ IsCall(items, i) /\ IsResult(items, j)
    /\ items[i].id = items[j].id /\ items[i].name = items[j].name
    /\ \A k \in i+1 .. j-1 :
         items[k].kind \in {"call", "result"} => items[k].id # items[i].id

(* The calls before position n that no result before position n answers.   *)
OpenAt(items, n) ==
    {i \in 1 .. n-1 :
        IsCall(items, i) /\ \A j \in i+1 .. n-1 : ~ Answers(items, j, i)}

OpenCalls(items) == OpenAt(items, Len(items) + 1)

(* What the log says at position n fits the rounds before it.              *)
FitsAt(items, n) ==
    CASE items[n].kind \in {"user", "assistant"} -> OpenAt(items, n) = {}
      [] items[n].kind = "call" ->
            \* one round: the open calls are all there is of it so far
            /\ \A i \in OpenAt(items, n) : items[i].id # items[n].id
            /\ \A i \in OpenAt(items, n) : \A j \in i+1 .. n-1 : ~ IsResult(items, j)
      [] items[n].kind = "result" ->
            \E i \in OpenAt(items, n) : Answers(items, n, i)
      [] items[n].kind = "checkpoint" -> TRUE
      [] items[n].kind = "compaction" -> FALSE

WellFormed(items) == \A n \in 1 .. Len(items) : FitsAt(items, n)
=============================================================================
