------------------------------ MODULE TurnLoop ------------------------------
(***************************************************************************)
(* AgentLoop::turn with process_tool_round, commit_parent_results and      *)
(* ToolRuntime::execute_call (agent-core, loop/): one user Turn at a time  *)
(* over one session log, against a model, an approver, tool executors, a   *)
(* user who may cancel, a log whose append may fail, and a process that    *)
(* may die between two steps.                                              *)
(*                                                                         *)
(* Every `.await`, every read of the cancellation token and every append   *)
(* to the session log is a step of its own; the code between two of them   *)
(* is part of the step before it.  An append that fails leaves the log as  *)
(* it was: SessionStore says which storage faults that excludes.           *)
(***************************************************************************)
EXTENDS SessionItems

CONSTANTS
    Permission,   \* registered tool name -> "allow" or "ask"
    Rounds,       \* the tool rounds a model response may contain
    MaxSteps,     \* TurnPolicy.max_steps
    MaxRetries,   \* TurnPolicy.max_llm_retries
    MaxTurns,     \* how many Turn numbers there are: u64 in the code
    MaxFailures,  \* bound on failed appends
    MaxCrashes    \* bound on process deaths

ASSUME PermissionsMatchRegistry ==
    /\ DOMAIN Permission \subseteq ToolNames
    /\ \A name \in DOMAIN Permission : Permission[name] \in {"allow", "ask"}

\* classify_response refuses an empty round and a repeated tool_use_id
ASSUME RoundsAreClassified ==
    \A r \in Rounds :
        /\ r \in Seq(Call) /\ r # << >>
        /\ \A i, j \in 1 .. Len(r) : r[i].id = r[j].id => i = j

ASSUME PolicyIsValid == MaxSteps \in Nat \ {0} /\ MaxRetries \in 0 .. 3

ASSUME BoundsAreNatural == {MaxTurns, MaxFailures, MaxCrashes} \subseteq Nat

VARIABLES
    items,      \* SessionStore.items: what is in memory is what is on disk
    pc,         \* where the Turn is
    turn, step, attempt,  \* the loop variables of `turn`
    round,      \* the calls of the response being processed
    index,      \* the call of the round being recorded, run or closed
    staged,     \* outcome of execute_call on its way to the log
    cancelled,  \* the CancellationToken of the Turn
    outcome,    \* what the last finished Turn returned
    attempts,   \* LlmCallStarted events without their LlmCallEnded
    granted, started, finished,  \* positions of approved, begun, completed calls
    failures, crashes

control == <<turn, step, attempt, round, index, staged>>
history == <<granted, started, finished>>
bounds  == <<failures, crashes>>
vars == <<items, pc, control, cancelled, outcome, attempts, history, bounds>>

Outcomes == {"none", "ok", "cancelled", "error", "exhausted"}

NoResult == [status |-> None, abort |-> "no"]

Init ==
    /\ items = << >> /\ pc = "idle" /\ cancelled = FALSE /\ outcome = "none"
    /\ turn = 0 /\ step = 0 /\ attempt = 0 /\ attempts = 0
    /\ round = << >> /\ index = 0 /\ staged = NoResult
    /\ granted = {} /\ started = {} /\ finished = {}
    /\ failures = 0 /\ crashes = 0

-----------------------------------------------------------------------------
(* Appending to the log through EventDispatcher::emit.                     *)

Committed(item) ==
    /\ items' = Append(items, item)
    /\ UNCHANGED bounds

CommitFailed ==
    /\ failures < MaxFailures
    /\ failures' = failures + 1
    /\ UNCHANGED <<items, crashes>>

NoCommit == UNCHANGED <<items, bounds>>

(* `turn` returns to its caller.                                           *)
Return(result) ==
    /\ pc' = "idle" /\ outcome' = result
    /\ turn' = 0 /\ step' = 0 /\ attempt' = 0
    /\ round' = << >> /\ index' = 0 /\ staged' = NoResult

(* ensure_not_cancelled(&cancellation)? *)
Continue(label) == ~ cancelled /\ pc' = label /\ UNCHANGED outcome
Cancelled == cancelled /\ Return("cancelled")

(* The position in the log of the call the round is at, once all its calls *)
(* are recorded and every call before it is answered.                      *)
CallPosition == Len(items) - Len(round) + 1

-----------------------------------------------------------------------------
(* The caller.                                                             *)

StartTurn ==
    /\ pc = "idle"
    /\ pc' = "entry" /\ cancelled' = FALSE
    /\ UNCHANGED <<items, control, outcome, attempts, history, bounds>>

Cancel ==
    /\ pc \notin {"idle", "down"} /\ ~ cancelled
    /\ cancelled' = TRUE
    /\ UNCHANGED <<items, pc, control, outcome, attempts, history, bounds>>

(* Preflight: the facts already in the log must materialize, and next_turn  *)
(* must not overflow.                                                      *)
Preflight ==
    /\ pc = "entry"
    /\ \/ Cancelled
       \/ /\ ~ cancelled /\ ~ Materializes(items)
          /\ Return("error")
       \/ /\ ~ cancelled /\ next_turn(items) >= MaxTurns
          /\ Return("error")
       \/ /\ Materializes(items) /\ next_turn(items) < MaxTurns
          /\ Continue("started")
          /\ turn' = next_turn(items)
          /\ UNCHANGED <<step, attempt, round, index, staged>>
    /\ NoCommit
    /\ UNCHANGED <<cancelled, attempts, history>>

CommitPrompt ==
    /\ pc = "started"
    /\ \/ Cancelled /\ NoCommit
       \/ /\ Continue("step")
          /\ Committed(PlainItem("user", turn))
          /\ step' = 0
          /\ UNCHANGED <<turn, attempt, round, index, staged>>
       \/ ~ cancelled /\ CommitFailed /\ Return("error")
    /\ UNCHANGED <<cancelled, attempts, history>>

-----------------------------------------------------------------------------
(* The model.                                                              *)

BeginStep ==
    /\ pc = "step"
    /\ \/ Cancelled
       \/ ~ cancelled /\ ~ Materializes(items) /\ Return("error")
       \/ /\ Materializes(items)
          /\ Continue("attempt")
          /\ attempt' = 0
          /\ UNCHANGED <<turn, step, round, index, staged>>
    /\ NoCommit
    /\ UNCHANGED <<cancelled, attempts, history>>

StartAttempt ==
    /\ pc = "attempt"
    /\ \/ Cancelled /\ UNCHANGED attempts
       \/ Continue("model") /\ attempts' = attempts + 1 /\ UNCHANGED control
    /\ NoCommit
    /\ UNCHANGED <<cancelled, history>>

LlmCallEnded == attempts' = attempts - 1

(* The select is biased to the model: an answer that is ready wins over a  *)
(* token that is cancelled.  `calls` is empty for a terminal response.     *)
ModelAnswers ==
    /\ pc = "model"
    /\ \E calls \in Rounds \union {<< >>} :
          /\ pc' = "finalize" /\ round' = calls
          /\ UNCHANGED <<turn, step, attempt, index, staged, outcome>>
    /\ LlmCallEnded /\ NoCommit
    /\ UNCHANGED <<cancelled, history>>

ModelAnswersInvalid ==
    /\ pc = "model"
    /\ Return("error")
    /\ LlmCallEnded /\ NoCommit
    /\ UNCHANGED <<cancelled, history>>

ModelFails ==
    /\ pc = "model"
    /\ \E recoverable \in BOOLEAN :
          IF recoverable /\ attempt < MaxRetries
          THEN pc' = "backoff" /\ UNCHANGED <<control, outcome>>
          ELSE Return("error")
    /\ LlmCallEnded /\ NoCommit
    /\ UNCHANGED <<cancelled, history>>

ModelCancelled ==
    /\ pc = "model" /\ Cancelled
    /\ LlmCallEnded /\ NoCommit
    /\ UNCHANGED <<cancelled, history>>

(* Mutant: retries are not counted.                                        *)
Backoff_uncounted ==
    /\ pc = "backoff"
    /\ Cancelled \/ (Continue("attempt") /\ UNCHANGED control)
    /\ NoCommit /\ UNCHANGED <<cancelled, attempts, history>>

Backoff ==
    /\ pc = "backoff"
    /\ \/ Cancelled
       \/ /\ Continue("attempt")
          /\ attempt' = attempt + 1
          /\ UNCHANGED <<turn, step, round, index, staged>>
    /\ NoCommit
    /\ UNCHANGED <<cancelled, attempts, history>>

(* AssistantFinalized: a response without text or thinking blocks commits  *)
(* no item.  A terminal response ends the Turn even when it is cancelled.  *)
AfterFinalize ==
    IF round = << >>
    THEN Return("ok")
    ELSE /\ pc' = "record" /\ index' = 1
         /\ UNCHANGED <<turn, step, attempt, round, staged, outcome>>

Finalize ==
    /\ pc = "finalize"
    /\ \/ Committed(PlainItem("assistant", turn)) /\ AfterFinalize
       \/ NoCommit /\ AfterFinalize
       \/ CommitFailed /\ Return("error")
    /\ UNCHANGED <<cancelled, attempts, history>>

-----------------------------------------------------------------------------
(* The tool round: all calls are recorded before the first one runs.       *)

RecordCall ==
    /\ pc = "record"
    /\ \/ /\ Committed(CallItem(turn, round[index]))
          /\ IF index < Len(round)
             THEN pc' = "record" /\ index' = index + 1
             ELSE pc' = "dispatch" /\ index' = 1
          /\ UNCHANGED <<turn, step, attempt, round, staged, outcome>>
       \/ CommitFailed /\ Return("error")
    /\ UNCHANGED <<cancelled, attempts, history>>

(* execute_call yields a result, and with it whether the round is aborted: *)
(* "no", by a "cancel" or by an "error".                                   *)
Stage(status, abort) ==
    /\ staged' = [status |-> status, abort |-> abort]
    /\ pc' = "commit_result"
    /\ UNCHANGED <<turn, step, attempt, round, index>>

(* Mutant: a tool that asks runs without asking.                           *)
Dispatch_unasked ==
    /\ pc = "dispatch" /\ ~ cancelled /\ round[index].name \in DOMAIN Permission
    /\ pc' = "launch" /\ NoCommit
    /\ UNCHANGED <<control, cancelled, outcome, attempts, history>>

(* The part of execute_call before approval: cancellation, registry, input *)
(* validation, permission.                                                 *)
Dispatch ==
    /\ pc = "dispatch"
    /\ LET name == round[index].name IN
       \/ cancelled /\ Stage("cancelled_user", "cancel")
       \/ /\ ~ cancelled /\ name \notin DOMAIN Permission
          /\ Stage("unknown_tool", "no")
       \/ /\ ~ cancelled /\ name \in DOMAIN Permission
          /\ Stage("invalid_arguments", "no")
       \/ /\ ~ cancelled /\ name \in DOMAIN Permission
          /\ pc' = IF Permission[name] = "ask" THEN "approval" ELSE "launch"
          /\ UNCHANGED control
    /\ NoCommit
    /\ UNCHANGED <<cancelled, outcome, attempts, history>>

(* The select is biased to the token: an answer counts only when the Turn  *)
(* is not cancelled.                                                       *)
ApprovalAnswered ==
    /\ pc = "approval" /\ ~ cancelled
    /\ \/ /\ pc' = "launch" /\ granted' = granted \union {CallPosition}
          /\ UNCHANGED control
       \/ Stage("denied", "no") /\ UNCHANGED granted
       \/ Stage("cancelled_user", "cancel") /\ UNCHANGED granted
       \/ Stage("cancelled_disposed", "error") /\ UNCHANGED granted
    /\ NoCommit
    /\ UNCHANGED <<cancelled, outcome, attempts, started, finished>>

(* Mutant: waiting for approval ignores the token.                         *)
ApprovalCancelled_deaf == FALSE

ApprovalCancelled ==
    /\ pc = "approval" /\ cancelled
    /\ Stage("cancelled_user", "cancel")
    /\ NoCommit
    /\ UNCHANGED <<cancelled, outcome, attempts, history>>

(* Mutant: the token is not read between approval and execution.           *)
Launch_unchecked ==
    /\ pc = "launch" /\ pc' = "executing"
    /\ started' = started \union {CallPosition} /\ NoCommit
    /\ UNCHANGED <<control, cancelled, outcome, attempts, granted, finished>>

(* The executor future is first polled only when the token is not set.     *)
Launch ==
    /\ pc = "launch"
    /\ \/ /\ cancelled
          /\ Stage("cancelled_user", "cancel") /\ UNCHANGED started
       \/ /\ ~ cancelled
          /\ pc' = "executing" /\ started' = started \union {CallPosition}
          /\ UNCHANGED control
    /\ NoCommit
    /\ UNCHANGED <<cancelled, outcome, attempts, granted, finished>>

(* Tool::execute accepts only these three statuses from an executor.       *)
ToolReturns ==
    /\ pc = "executing" /\ ~ cancelled
    /\ \E status \in {"succeeded", "failed", "outcome_unknown"} :
          Stage(status, "no")
    /\ finished' = finished \union {CallPosition}
    /\ NoCommit
    /\ UNCHANGED <<cancelled, outcome, attempts, granted, started>>

(* Mutant: an executor that fails is run again.                            *)
ToolErrors_retried ==
    /\ pc = "executing" /\ ~ cancelled /\ pc' = "launch" /\ NoCommit
    /\ UNCHANGED <<control, cancelled, outcome, attempts, history>>

ToolErrors ==
    /\ pc = "executing" /\ ~ cancelled
    /\ Stage("outcome_unknown", "error")
    /\ NoCommit
    /\ UNCHANGED <<cancelled, outcome, attempts, history>>

(* Mutant: an interrupted execution is reported as never begun.            *)
ToolCancelled_untold ==
    /\ pc = "executing" /\ cancelled
    /\ Stage("cancelled_user", "cancel") /\ NoCommit
    /\ UNCHANGED <<cancelled, outcome, attempts, history>>

ToolCancelled ==
    /\ pc = "executing" /\ cancelled
    /\ Stage("outcome_unknown", "cancel")
    /\ NoCommit
    /\ UNCHANGED <<cancelled, outcome, attempts, history>>

-----------------------------------------------------------------------------
(* The round is closed: results in the order of the calls, and after an    *)
(* abort or a failed append a Cancelled(Parent) for every later call.      *)

NextCall ==
    /\ pc' = "dispatch" /\ index' = index + 1 /\ staged' = NoResult
    /\ UNCHANGED <<turn, step, attempt, round, outcome>>

RoundClosed ==
    IF step + 1 = MaxSteps
    THEN Return("exhausted")
    ELSE /\ pc' = "step" /\ step' = step + 1
         /\ round' = << >> /\ index' = 0 /\ staged' = NoResult
         /\ UNCHANGED <<turn, attempt, outcome>>

(* Mutant: closing starts at the call just answered.                       *)
CloseFrom_same(next, abort) ==
    /\ pc' = "cleanup" /\ index' = next - 1
    /\ staged' = [status |-> None, abort |-> abort]
    /\ UNCHANGED <<turn, step, attempt, round, outcome>>

CloseFrom(next, abort) ==
    /\ pc' = "cleanup" /\ index' = next
    /\ staged' = [status |-> None, abort |-> abort]
    /\ UNCHANGED <<turn, step, attempt, round, outcome>>

CommitResult ==
    /\ pc = "commit_result"
    /\ \/ /\ Committed(ResultItem(turn, round[index], staged.status))
          /\ \/ staged.abort # "no" /\ CloseFrom(index + 1, staged.abort)
             \/ staged.abort = "no" /\ index < Len(round) /\ NextCall
             \/ staged.abort = "no" /\ index = Len(round) /\ RoundClosed
       \/ CommitFailed /\ CloseFrom(index + 1, "error")
    /\ UNCHANGED <<cancelled, attempts, history>>

(* commit_parent_results keeps going past an append that fails.            *)
CommitParentResult ==
    /\ pc = "cleanup" /\ index <= Len(round)
    /\ \/ /\ Committed(ResultItem(turn, round[index], "cancelled_parent"))
          /\ CloseFrom(index + 1, staged.abort)
       \/ CommitFailed /\ CloseFrom(index + 1, "error")
    /\ UNCHANGED <<cancelled, attempts, history>>

(* Mutant: the last call is not closed.                                    *)
CleanupDone_early ==
    /\ pc = "cleanup" /\ index >= Len(round) /\ Return("error") /\ NoCommit
    /\ UNCHANGED <<cancelled, attempts, history>>

CleanupDone ==
    /\ pc = "cleanup" /\ index > Len(round)
    /\ Return(IF staged.abort = "cancel" THEN "cancelled" ELSE "error")
    /\ NoCommit
    /\ UNCHANGED <<cancelled, attempts, history>>

-----------------------------------------------------------------------------
(* The process dies, and a new one loads the log (SessionStore::load).     *)

Crash ==
    /\ pc # "down" /\ crashes < MaxCrashes
    /\ pc' = "down" /\ crashes' = crashes + 1
    /\ turn' = 0 /\ step' = 0 /\ attempt' = 0 /\ attempts' = 0
    /\ round' = << >> /\ index' = 0 /\ staged' = NoResult
    /\ cancelled' = FALSE /\ outcome' = "none"
    /\ UNCHANGED <<items, history, failures>>

Resume ==
    /\ pc = "down" /\ pc' = "idle"
    /\ UNCHANGED <<items, control, cancelled, outcome, attempts, history, bounds>>

(* Steps of the loop itself, and the answers it waits for.                 *)
LoopStep ==
    \/ Preflight \/ CommitPrompt \/ BeginStep \/ StartAttempt
    \/ ModelCancelled \/ Backoff \/ Finalize \/ RecordCall \/ Dispatch
    \/ ApprovalCancelled \/ Launch \/ ToolCancelled
    \/ CommitResult \/ CommitParentResult \/ CleanupDone

Answer ==
    \/ ModelAnswers \/ ModelAnswersInvalid \/ ModelFails
    \/ ApprovalAnswered \/ ToolReturns \/ ToolErrors

Next == LoopStep \/ Answer \/ StartTurn \/ Cancel \/ Crash \/ Resume

Spec == Init /\ [][Next]_vars

(* The runtime polls a future that is ready, and a retry delay elapses.    *)
FairLoop == Spec /\ WF_vars(LoopStep)

-----------------------------------------------------------------------------
Labels ==
    {"idle", "down", "entry", "started", "step", "attempt", "model", "backoff",
     "finalize", "record", "dispatch", "approval", "launch", "executing",
     "commit_result", "cleanup"}

(* What is known of the loop variables at each label.                       *)
Running == {"dispatch", "approval", "launch", "executing", "commit_result"}

ControlOK ==
    /\ pc \in Running \union {"record", "cleanup"} => round # << >> /\ index >= 1
    /\ pc \in Running \union {"record"} => index <= Len(round)
    /\ pc \notin Running \union {"record", "cleanup"} => index = 0
    /\ pc = "commit_result" => staged.status \in Statuses
    /\ pc = "backoff" => attempt < MaxRetries

(* The Turn number of the items appended last, and of those to come.        *)
TurnOK ==
    /\ pc = "started" => turn = next_turn(items)
    /\ pc \notin {"idle", "down", "entry", "started"} =>
         items # << >> /\ items[Len(items)].turn = turn

(* The first m calls of the round follow position b of the log ...          *)
Recorded(b, m) ==
    /\ b + m <= Len(items)
    /\ \A k \in 1 .. m : items[b + k] = CallItem(turn, round[k])

(* ... and what follows them are results of calls before the current one.   *)
Answered(b) ==
    \A j \in b + Len(round) + 1 .. Len(items) :
        items[j].kind = "result" /\ \E k \in 1 .. index - 1 : items[j].id = round[k].id

Before(p) == \A i \in started : i < p

RoundOK ==
    /\ pc = "record" =>
         \E b \in 0 .. Len(items) : Recorded(b, index - 1) /\ Len(items) = b + index - 1
    /\ pc \in Running =>
         \E b \in 0 .. Len(items) : /\ Recorded(b, Len(round)) /\ Answered(b)
                       /\ Len(items) = b + Len(round) + index - 1
    /\ pc = "cleanup" =>
         \E b \in 0 .. Len(items) : Recorded(b, Len(round)) /\ Answered(b) /\ Before(b + index)

(* Which executions the current call has behind it.                         *)
BegunOK ==
    /\ pc = "record" => Before(Len(items) - index + 2)
    /\ pc \in {"dispatch", "approval", "launch"} => Before(CallPosition)
    /\ pc \in {"executing", "commit_result"} => Before(CallPosition + 1)
    /\ pc = "executing" => CallPosition \in started
    /\ pc \in {"approval", "launch"} => round[index].name \in DOMAIN Permission
    /\ pc = "launch" /\ Permission[round[index].name] = "ask" => CallPosition \in granted
    /\ pc = "commit_result" =>
         CASE staged.status \in {"succeeded", "failed"} -> CallPosition \in finished
           [] staged.status = "outcome_unknown" -> CallPosition \in started
           [] OTHER -> CallPosition \notin started

(* The calls without an answer: none where materialize has just accepted    *)
(* the log, and none before the round while its calls are recorded.         *)
OpenOK ==
    /\ pc \in {"started", "attempt", "model", "backoff", "finalize"} => OpenCalls(items) = {}
    /\ pc = "record" => OpenAt(items, Len(items) - index + 2) = {}

(* As long as no append failed and the process lives, only a round has such *)
(* calls: those recorded so far, then those from the current one on.        *)
Unbroken == failures = 0 /\ crashes = 0

UnbrokenOK ==
    Unbroken =>
      /\ pc # "down"
      /\ pc \notin Running \union {"record", "cleanup"} => OpenCalls(items) = {}
      /\ pc = "record" => OpenCalls(items) = Len(items) - index + 2 .. Len(items)
      /\ pc \in Running \union {"cleanup"} =>
           \E b \in 0 .. Len(items) : /\ Recorded(b, Len(round)) /\ Answered(b)
                                     /\ Len(items) = b + Len(round) + index - 1
                                     /\ OpenCalls(items) = b + index .. b + Len(round)

(* Every variable keeps its type, and the indices stay inside the round.   *)
TypeOK ==
    /\ items \in Seq(Item) /\ pc \in Labels
    /\ turn \in Nat /\ step \in 0 .. MaxSteps - 1 /\ attempt \in 0 .. MaxRetries
    /\ round \in Rounds \union {<< >>} /\ index \in 0 .. Len(round) + 1
    /\ staged \in [status : Statuses \union {None}, abort : {"no", "cancel", "error"}]
    /\ cancelled \in BOOLEAN /\ outcome \in Outcomes /\ attempts \in Nat
    /\ granted \subseteq Int /\ started \subseteq Int /\ finished \subseteq Int
    /\ failures \in 0 .. MaxFailures /\ crashes \in 0 .. MaxCrashes

(* `materialize` can refuse a log for one reason only, a round left open at *)
(* its end: no append ever puts a message inside an open round, opens a     *)
(* second round, or answers a call twice or out of nothing.  Holds through  *)
(* failed appends, cancellation and crashes.                                *)
LogWellFormed == WellFormed(items)

(* What a result tells the model about side effects is true: cancelled,     *)
(* denied or refused means the executor never began; succeeded or failed    *)
(* means it completed; outcome_unknown means it began.                      *)
ResultsTellTheTruth ==
    \A i, j \in 1 .. Len(items) :
        Answers(items, j, i) =>
            CASE items[j].status \in {"succeeded", "failed"} -> i \in finished
              [] items[j].status = "outcome_unknown" -> i \in started
              [] OTHER -> i \notin started

(* An executor begins only for a recorded call to a registered tool that is *)
(* allowed outright or that the approver granted for this very call.        *)
OnlyAuthorisedCallsStart ==
    \A i \in started :
        /\ i \in 1 .. Len(items) /\ IsCall(items, i)
        /\ items[i].name \in DOMAIN Permission
        /\ Permission[items[i].name] = "allow" \/ i \in granted

(* A Turn number names one prompt and the items that follow it, also when   *)
(* prompts fail to commit and after restarts (`next_turn`).                 *)
TurnNumbersNeverReused ==
    /\ items # << >> => items[1].kind = "user"
    /\ \A i \in 2 .. Len(items) :
          IF items[i].kind = "user"
          THEN items[i].turn > items[i-1].turn
          ELSE items[i].turn = items[i-1].turn

(* Every LlmCallStarted has its LlmCallEnded by the time the attempt is     *)
(* over, whether it succeeded, failed, was invalid or was cancelled.        *)
AttemptsEnd == attempts = IF pc = "model" THEN 1 ELSE 0

(* No call is executed twice, whatever is retried or restarted.             *)
NoSecondExecution ==
    [][pc # "executing" /\ pc' = "executing" => CallPosition \notin started]_vars

(* No executor begins once the Turn is cancelled.                           *)
NoStartAfterCancel == [][cancelled => started' = started]_vars

(* Cancelling a Turn ends it, whatever the model, the approver and the      *)
(* executors do: none of the places it can wait in ignores the token.       *)
CancelEndsTurn == cancelled ~> pc \in {"idle", "down"}

(* If the model, the approver and the executors answer, a Turn ends: steps  *)
(* and retries are bounded.                                                 *)
TurnEndsIfAnswered ==
    WF_vars(Answer) => (pc \notin {"idle", "down"} ~> pc \in {"idle", "down"})

(* As long as no append fails and the process lives, the loop implements    *)
(* the abstract tool-round protocol, through what materialize makes of its  *)
(* log.                                                                     *)
Protocol == INSTANCE ToolRounds WITH
    Calls   <- Call,
    running <- Unbroken /\ pc # "idle",
    phase   <- IF Unbroken THEN materialize(items).phase ELSE "broken",
    pending <- IF Unbroken THEN materialize(items).pending ELSE {}

ImplementsToolRounds == Protocol!Spec

(* DESIGN.md, loop chapter 9, cleanup rule 1: every committed ToolCall gets *)
(* a ToolResult before the Turn returns.                                    *)
EveryCommittedCallAnswered == pc = "idle" => OpenCalls(items) = {}
=============================================================================
