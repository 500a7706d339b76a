--------------------------- MODULE TurnLoop_proofs ---------------------------
(***************************************************************************)
(* Proofs about TurnLoop, for every registry, every set of rounds a model  *)
(* may answer with and every bound.                                        *)
(***************************************************************************)
EXTENDS TurnLoop, SessionItems_proofs

-----------------------------------------------------------------------------
(* The items the loop appends are items.                                    *)

LEMMA ItemTypes ==
    ASSUME NEW t \in Nat
    PROVE  /\ \A kind \in Kinds : PlainItem(kind, t) \in Item
           /\ \A call \in Call : CallItem(t, call) \in Item
           /\ \A call \in Call, status \in Statuses : ResultItem(t, call, status) \in Item
BY DEF PlainItem, CallItem, ResultItem, Item, Call, Kinds

(* Every call of a round is a call.                                         *)
LEMMA RoundTypes ==
    ASSUME NEW r \in Rounds \union {<< >>}
    PROVE  /\ r \in Seq(Call) /\ Len(r) \in Nat
           /\ \A k \in 1 .. Len(r) : r[k] \in Call
           /\ r # << >> => Len(r) >= 1
<1>1. r \in Seq(Call)
  <2>1. CASE r \in Rounds
    BY <2>1, RoundsAreClassified, Zenon
  <2>2. CASE r = << >>
    BY <2>2
  <2> QED
    BY <2>1, <2>2
<1> QED
  BY <1>1

LEMMA NextTurnType ==
    ASSUME NEW s \in Seq(Item)
    PROVE  next_turn(s) \in Nat
<1>1. CASE s = << >>
  BY <1>1 DEF next_turn
<1>2. CASE s # << >>
  <2>1. Len(s) \in 1 .. Len(s)
    BY <1>2
  <2>2. s[Len(s)] \in Item
    BY <2>1
  <2> QED
    BY <1>2, <2>2 DEF next_turn, Item
<1> QED
  BY <1>1, <1>2

-----------------------------------------------------------------------------
TypeInv == TypeOK /\ ControlOK /\ AttemptsEnd

LEMMA CommittedType ==
    ASSUME TypeOK, NEW item \in Item, Committed(item)
    PROVE  /\ items' \in Seq(Item)
           /\ failures' \in 0 .. MaxFailures /\ crashes' \in 0 .. MaxCrashes
BY DEF TypeOK, Committed, bounds

LEMMA CommitFailedType ==
    ASSUME TypeOK, CommitFailed
    PROVE  /\ items' \in Seq(Item)
           /\ failures' \in 0 .. MaxFailures /\ crashes' \in 0 .. MaxCrashes
BY BoundsAreNatural DEF TypeOK, CommitFailed

LEMMA NoCommitType ==
    ASSUME TypeOK, NoCommit
    PROVE  /\ items' \in Seq(Item)
           /\ failures' \in 0 .. MaxFailures /\ crashes' \in 0 .. MaxCrashes
BY DEF TypeOK, NoCommit, bounds

ControlType ==
    /\ pc \in Labels
    /\ turn \in Nat /\ step \in 0 .. MaxSteps - 1 /\ attempt \in 0 .. MaxRetries
    /\ round \in Rounds \union {<< >>} /\ index \in 0 .. Len(round) + 1
    /\ staged \in [status : Statuses \union {None}, abort : {"no", "cancel", "error"}]
    /\ outcome \in Outcomes

LEMMA ReturnType ==
    ASSUME NEW result \in Outcomes, Return(result)
    PROVE  ControlType' /\ ControlOK'
BY PolicyIsValid DEF Return, ControlType, ControlOK, NoResult, Labels, Running

LEMMA CancelledType ==
    ASSUME Cancelled
    PROVE  ControlType' /\ ControlOK'
BY ReturnType DEF Cancelled, Outcomes

LEMMA StageType ==
    ASSUME TypeInv, pc \in Running, UNCHANGED outcome,
           NEW status \in Statuses, NEW abort \in {"no", "cancel", "error"},
           Stage(status, abort)
    PROVE  ControlType' /\ ControlOK'
BY DEF TypeInv, TypeOK, ControlType, ControlOK, Stage, Labels, Running


(* The variables the helpers say nothing of, when an action leaves them.    *)
LEMMA RestType ==
    ASSUME TypeOK, UNCHANGED <<cancelled, history>>
    PROVE  /\ cancelled' \in BOOLEAN
           /\ granted' \subseteq Int /\ started' \subseteq Int /\ finished' \subseteq Int
BY DEF TypeOK, history

LEMMA TypeParts ==
    ASSUME ControlType',
           items' \in Seq(Item), failures' \in 0 .. MaxFailures, crashes' \in 0 .. MaxCrashes,
           cancelled' \in BOOLEAN, attempts' \in Nat,
           granted' \subseteq Int, started' \subseteq Int, finished' \subseteq Int
    PROVE  TypeOK'
BY DEF TypeOK, ControlType

LEMMA MessageType ==
    ASSUME TypeOK
    PROVE  PlainItem("user", turn) \in Item /\ PlainItem("assistant", turn) \in Item
BY ItemTypes DEF TypeOK, Kinds

LEMMA PositionType ==
    ASSUME TypeOK
    PROVE  CallPosition \in Int
BY RoundTypes DEF TypeOK, CallPosition

LEMMA TypeStep == TypeInv /\ [Next]_vars => TypeInv'
<1> SUFFICES ASSUME TypeInv, [Next]_vars PROVE TypeInv'
  OBVIOUS
<1> USE DEF TypeInv
<1>1. CASE StartTurn
  BY <1>1 DEF StartTurn, TypeOK, ControlOK, AttemptsEnd, Labels, Running, control, history, bounds
<1>2. CASE Cancel
  BY <1>2 DEF Cancel, TypeOK, ControlOK, AttemptsEnd, Labels, Running, control, history, bounds
<1>3. CASE Preflight
  <2>1. /\ ControlType' /\ ControlOK' /\ pc' # "model"
    <3>1. CASE Cancelled
      BY <1>3, <3>1, CancelledType DEF Cancelled, Return
    <3>2. CASE Return("error")
      BY <1>3, <3>2, ReturnType DEF Outcomes, Return
    <3>3. CASE Continue("started") /\ turn' = next_turn(items)
               /\ UNCHANGED <<step, attempt, round, index, staged>>
      BY <1>3, <3>3, NextTurnType DEF Preflight, Continue, TypeOK, ControlType, ControlOK, Labels, Running
    <3> QED
      BY <1>3, <3>1, <3>2, <3>3 DEF Preflight
  <2>2. attempts' \in Nat /\ AttemptsEnd'
    BY <1>3, <2>1 DEF Preflight, AttemptsEnd, TypeOK
  <2> QED
    BY <1>3, <2>1, <2>2, NoCommitType, RestType, TypeParts DEF Preflight
<1>4. CASE CommitPrompt
  <2>1. /\ ControlType' /\ ControlOK' /\ pc' # "model"
    <3>1. CASE Cancelled
      BY <1>4, <3>1, CancelledType DEF Cancelled, Return
    <3>2. CASE Return("error")
      BY <1>4, <3>2, ReturnType DEF Outcomes, Return
    <3>3. CASE Continue("step") /\ step' = 0
               /\ UNCHANGED <<turn, attempt, round, index, staged>>
      BY <1>4, <3>3, PolicyIsValid DEF CommitPrompt, Continue, TypeOK, ControlType, ControlOK, Labels, Running
    <3> QED
      BY <1>4, <3>1, <3>2, <3>3 DEF CommitPrompt
  <2>2. attempts' \in Nat /\ AttemptsEnd'
    BY <1>4, <2>1 DEF CommitPrompt, AttemptsEnd, TypeOK
  <2> QED
    BY <1>4, <2>1, <2>2, CommittedType, CommitFailedType, NoCommitType, RestType, TypeParts, MessageType DEF CommitPrompt
<1>5. CASE BeginStep
  <2>1. /\ ControlType' /\ ControlOK' /\ pc' # "model"
    <3>1. CASE Cancelled
      BY <1>5, <3>1, CancelledType DEF Cancelled, Return
    <3>2. CASE Return("error")
      BY <1>5, <3>2, ReturnType DEF Outcomes, Return
    <3>3. CASE Continue("attempt") /\ attempt' = 0
               /\ UNCHANGED <<turn, step, round, index, staged>>
      BY <1>5, <3>3, PolicyIsValid DEF BeginStep, Continue, TypeOK, ControlType, ControlOK, Labels, Running
    <3> QED
      BY <1>5, <3>1, <3>2, <3>3 DEF BeginStep
  <2>2. attempts' \in Nat /\ AttemptsEnd'
    BY <1>5, <2>1 DEF BeginStep, AttemptsEnd, TypeOK
  <2> QED
    BY <1>5, <2>1, <2>2, NoCommitType, RestType, TypeParts DEF BeginStep
<1>6. CASE StartAttempt
  <2>1. CASE Cancelled /\ UNCHANGED attempts
    <3>1. ControlType' /\ ControlOK' /\ pc' = "idle"
      BY <2>1, CancelledType DEF Cancelled, Return
    <3> QED
      BY <1>6, <2>1, <3>1, NoCommitType, RestType, TypeParts DEF StartAttempt, AttemptsEnd, TypeOK
  <2>2. CASE Continue("model") /\ attempts' = attempts + 1 /\ UNCHANGED control
    <3>1. ControlType' /\ ControlOK' /\ pc' = "model"
      BY <1>6, <2>2 DEF StartAttempt, Continue, control, TypeOK, ControlType, ControlOK, Labels, Running
    <3> QED
      BY <1>6, <2>2, <3>1, NoCommitType, RestType, TypeParts DEF StartAttempt, AttemptsEnd, TypeOK
  <2> QED
    BY <1>6, <2>1, <2>2 DEF StartAttempt
<1>7. CASE ModelAnswers
  <2>1. ControlType' /\ ControlOK' /\ pc' = "finalize"
    <3>1. PICK calls \in Rounds \union {<< >>} : 
             pc' = "finalize" /\ round' = calls
             /\ UNCHANGED <<turn, step, attempt, index, staged, outcome>>
      BY <1>7 DEF ModelAnswers
    <3>2. index = 0
      BY <1>7 DEF ModelAnswers, ControlOK, Running
    <3> QED
      BY <3>1, <3>2, RoundTypes DEF TypeOK, ControlType, ControlOK, Labels, Running
  <2>2. attempts' \in Nat /\ AttemptsEnd'
    BY <1>7, <2>1 DEF ModelAnswers, LlmCallEnded, AttemptsEnd, TypeOK
  <2> QED
    BY <1>7, <2>1, <2>2, NoCommitType, RestType, TypeParts DEF ModelAnswers
<1>8. CASE ModelAnswersInvalid
  <2>1. /\ ControlType' /\ ControlOK' /\ pc' # "model"
    <3>1. CASE Return("error")
      BY <1>8, <3>1, ReturnType DEF Outcomes, Return
    <3> QED
      BY <1>8, <3>1 DEF ModelAnswersInvalid
  <2>2. attempts' \in Nat /\ AttemptsEnd'
    BY <1>8, <2>1 DEF ModelAnswersInvalid, LlmCallEnded, AttemptsEnd, TypeOK
  <2> QED
    BY <1>8, <2>1, <2>2, NoCommitType, RestType, TypeParts DEF ModelAnswersInvalid
<1>9. CASE ModelFails
  <2>1. /\ ControlType' /\ ControlOK' /\ pc' # "model"
    <3>1. CASE Return("error")
      BY <1>9, <3>1, ReturnType DEF Outcomes, Return
    <3>2. CASE pc' = "backoff" /\ attempt < MaxRetries /\ UNCHANGED <<control, outcome>>
      BY <1>9, <3>2 DEF ModelFails, control, TypeOK, ControlType, ControlOK, Labels, Running
    <3> QED
      BY <1>9, <3>1, <3>2 DEF ModelFails
  <2>2. attempts' \in Nat /\ AttemptsEnd'
    BY <1>9, <2>1 DEF ModelFails, LlmCallEnded, AttemptsEnd, TypeOK
  <2> QED
    BY <1>9, <2>1, <2>2, NoCommitType, RestType, TypeParts DEF ModelFails
<1>10. CASE ModelCancelled
  <2>1. /\ ControlType' /\ ControlOK' /\ pc' # "model"
    <3>1. CASE Cancelled
      BY <1>10, <3>1, CancelledType DEF Cancelled, Return
    <3> QED
      BY <1>10, <3>1 DEF ModelCancelled
  <2>2. attempts' \in Nat /\ AttemptsEnd'
    BY <1>10, <2>1 DEF ModelCancelled, LlmCallEnded, AttemptsEnd, TypeOK
  <2> QED
    BY <1>10, <2>1, <2>2, NoCommitType, RestType, TypeParts DEF ModelCancelled
<1>11. CASE Backoff
  <2>1. /\ ControlType' /\ ControlOK' /\ pc' # "model"
    <3>1. CASE Cancelled
      BY <1>11, <3>1, CancelledType DEF Cancelled, Return
    <3>2. CASE Continue("attempt") /\ attempt' = attempt + 1
               /\ UNCHANGED <<turn, step, round, index, staged>>
      BY <1>11, <3>2, PolicyIsValid DEF Backoff, Continue, TypeOK, ControlType, ControlOK, Labels, Running
    <3> QED
      BY <1>11, <3>1, <3>2 DEF Backoff
  <2>2. attempts' \in Nat /\ AttemptsEnd'
    BY <1>11, <2>1 DEF Backoff, AttemptsEnd, TypeOK
  <2> QED
    BY <1>11, <2>1, <2>2, NoCommitType, RestType, TypeParts DEF Backoff
<1>12. CASE Finalize
  <2>1. /\ ControlType' /\ ControlOK' /\ pc' # "model"
    <3>1. CASE Return("error")
      BY <1>12, <3>1, ReturnType DEF Outcomes, Return
    <3>2. CASE Return("ok")
      BY <1>12, <3>2, ReturnType DEF Outcomes, Return
    <3>3. CASE round # << >> /\ pc' = "record" /\ index' = 1
               /\ UNCHANGED <<turn, step, attempt, round, staged, outcome>>
      BY <1>12, <3>3, RoundTypes DEF TypeOK, ControlType, ControlOK, Labels, Running
    <3> QED
      BY <1>12, <3>1, <3>2, <3>3 DEF Finalize, AfterFinalize
  <2>2. attempts' \in Nat /\ AttemptsEnd'
    BY <1>12, <2>1 DEF Finalize, AttemptsEnd, TypeOK
  <2> QED
    BY <1>12, <2>1, <2>2, CommittedType, CommitFailedType, NoCommitType, RestType, TypeParts, MessageType DEF Finalize
<1>13. CASE RecordCall
  <2>1. /\ ControlType' /\ ControlOK' /\ pc' # "model"
    <3>1. CASE Return("error")
      BY <1>13, <3>1, ReturnType DEF Outcomes, Return
    <3>2. CASE /\ IF index < Len(round)
                  THEN pc' = "record" /\ index' = index + 1
                  ELSE pc' = "dispatch" /\ index' = 1
               /\ UNCHANGED <<turn, step, attempt, round, staged, outcome>>
      BY <1>13, <3>2, RoundTypes DEF RecordCall, TypeOK, ControlType, ControlOK, Labels, Running
    <3> QED
      BY <1>13, <3>1, <3>2 DEF RecordCall
  <2>2. attempts' \in Nat /\ AttemptsEnd'
    BY <1>13, <2>1 DEF RecordCall, AttemptsEnd, TypeOK
  <2>3. CallItem(turn, round[index]) \in Item
    BY <1>13, ItemTypes, RoundTypes DEF RecordCall, TypeOK, ControlType, ControlOK, Labels, Running
  <2> QED
    BY <1>13, <2>1, <2>2, <2>3, CommittedType, CommitFailedType, RestType, TypeParts DEF RecordCall
<1>14. CASE Dispatch
  <2>1. /\ ControlType' /\ ControlOK' /\ pc' # "model"
    <3>1. CASE (\E status \in Statuses, abort \in {"no", "cancel", "error"} :
                 Stage(status, abort)) /\ UNCHANGED outcome
      BY <1>14, <3>1, StageType DEF Dispatch, Stage, Running
    <3>2. CASE pc' \in {"approval", "launch"} /\ UNCHANGED <<control, outcome>>
      BY <1>14, <3>2 DEF Dispatch, control, TypeOK, ControlType, ControlOK, Labels, Running
    <3> QED
      BY <1>14, <3>1, <3>2 DEF Dispatch, Statuses
  <2>2. attempts' \in Nat /\ AttemptsEnd'
    BY <1>14, <2>1 DEF Dispatch, AttemptsEnd, TypeOK
  <2> QED
    BY <1>14, <2>1, <2>2, NoCommitType, RestType, TypeParts DEF Dispatch
<1>15. CASE ApprovalAnswered
  <2>1. /\ ControlType' /\ ControlOK' /\ pc' # "model"
    <3>1. CASE (\E status \in Statuses, abort \in {"no", "cancel", "error"} :
                 Stage(status, abort)) /\ UNCHANGED outcome
      BY <1>15, <3>1, StageType DEF ApprovalAnswered, Stage, Running
    <3>2. CASE pc' = "launch" /\ UNCHANGED <<control, outcome>>
      BY <1>15, <3>2 DEF ApprovalAnswered, control, TypeOK, ControlType, ControlOK, Labels, Running
    <3> QED
      BY <1>15, <3>1, <3>2 DEF ApprovalAnswered, Statuses
  <2>2. attempts' \in Nat /\ AttemptsEnd'
    BY <1>15, <2>1 DEF ApprovalAnswered, AttemptsEnd, TypeOK
  <2>3. /\ cancelled' \in BOOLEAN
        /\ granted' \subseteq Int /\ started' \subseteq Int /\ finished' \subseteq Int
    BY <1>15, PositionType DEF ApprovalAnswered, TypeOK
  <2> QED
    BY <1>15, <2>1, <2>2, <2>3, NoCommitType, TypeParts DEF ApprovalAnswered
<1>16. CASE ApprovalCancelled
  <2>1. /\ ControlType' /\ ControlOK' /\ pc' # "model"
    <3>1. CASE (\E status \in Statuses, abort \in {"no", "cancel", "error"} :
                 Stage(status, abort)) /\ UNCHANGED outcome
      BY <1>16, <3>1, StageType DEF ApprovalCancelled, Stage, Running
    <3> QED
      BY <1>16, <3>1 DEF ApprovalCancelled, Statuses
  <2>2. attempts' \in Nat /\ AttemptsEnd'
    BY <1>16, <2>1 DEF ApprovalCancelled, AttemptsEnd, TypeOK
  <2> QED
    BY <1>16, <2>1, <2>2, NoCommitType, RestType, TypeParts DEF ApprovalCancelled
<1>17. CASE Launch
  <2>1. /\ ControlType' /\ ControlOK' /\ pc' # "model"
    <3>1. CASE (\E status \in Statuses, abort \in {"no", "cancel", "error"} :
                 Stage(status, abort)) /\ UNCHANGED outcome
      BY <1>17, <3>1, StageType DEF Launch, Stage, Running
    <3>2. CASE pc' = "executing" /\ UNCHANGED <<control, outcome>>
      BY <1>17, <3>2 DEF Launch, control, TypeOK, ControlType, ControlOK, Labels, Running
    <3> QED
      BY <1>17, <3>1, <3>2 DEF Launch, Statuses
  <2>2. attempts' \in Nat /\ AttemptsEnd'
    BY <1>17, <2>1 DEF Launch, AttemptsEnd, TypeOK
  <2>3. /\ cancelled' \in BOOLEAN
        /\ granted' \subseteq Int /\ started' \subseteq Int /\ finished' \subseteq Int
    BY <1>17, PositionType DEF Launch, TypeOK
  <2> QED
    BY <1>17, <2>1, <2>2, <2>3, NoCommitType, TypeParts DEF Launch
<1>18. CASE ToolReturns
  <2>1. /\ ControlType' /\ ControlOK' /\ pc' # "model"
    <3>1. CASE (\E status \in Statuses, abort \in {"no", "cancel", "error"} :
                 Stage(status, abort)) /\ UNCHANGED outcome
      BY <1>18, <3>1, StageType DEF ToolReturns, Stage, Running
    <3> QED
      BY <1>18, <3>1 DEF ToolReturns, Statuses
  <2>2. attempts' \in Nat /\ AttemptsEnd'
    BY <1>18, <2>1 DEF ToolReturns, AttemptsEnd, TypeOK
  <2>3. /\ cancelled' \in BOOLEAN
        /\ granted' \subseteq Int /\ started' \subseteq Int /\ finished' \subseteq Int
    BY <1>18, PositionType DEF ToolReturns, TypeOK
  <2> QED
    BY <1>18, <2>1, <2>2, <2>3, NoCommitType, TypeParts DEF ToolReturns
<1>19. CASE ToolErrors
  <2>1. /\ ControlType' /\ ControlOK' /\ pc' # "model"
    <3>1. CASE (\E status \in Statuses, abort \in {"no", "cancel", "error"} :
                 Stage(status, abort)) /\ UNCHANGED outcome
      BY <1>19, <3>1, StageType DEF ToolErrors, Stage, Running
    <3> QED
      BY <1>19, <3>1 DEF ToolErrors, Statuses
  <2>2. attempts' \in Nat /\ AttemptsEnd'
    BY <1>19, <2>1 DEF ToolErrors, AttemptsEnd, TypeOK
  <2> QED
    BY <1>19, <2>1, <2>2, NoCommitType, RestType, TypeParts DEF ToolErrors
<1>20. CASE ToolCancelled
  <2>1. /\ ControlType' /\ ControlOK' /\ pc' # "model"
    <3>1. CASE (\E status \in Statuses, abort \in {"no", "cancel", "error"} :
                 Stage(status, abort)) /\ UNCHANGED outcome
      BY <1>20, <3>1, StageType DEF ToolCancelled, Stage, Running
    <3> QED
      BY <1>20, <3>1 DEF ToolCancelled, Statuses
  <2>2. attempts' \in Nat /\ AttemptsEnd'
    BY <1>20, <2>1 DEF ToolCancelled, AttemptsEnd, TypeOK
  <2> QED
    BY <1>20, <2>1, <2>2, NoCommitType, RestType, TypeParts DEF ToolCancelled
<1>21. CASE CommitResult
  <2>1. /\ ControlType' /\ ControlOK' /\ pc' # "model"
    <3>1. CASE \E abort \in {"no", "cancel", "error"} : CloseFrom(index + 1, abort)
      BY <1>21, <3>1, RoundTypes DEF CommitResult, CloseFrom, TypeOK, ControlType, ControlOK, Labels, Running
    <3>2. CASE index < Len(round) /\ NextCall
      BY <1>21, <3>2, RoundTypes DEF CommitResult, NextCall, NoResult, TypeOK, ControlType, ControlOK, Labels, Running
    <3>3. CASE RoundClosed
      BY <1>21, <3>3, ReturnType, PolicyIsValid DEF RoundClosed, Return, Outcomes, NoResult, TypeOK, ControlType, ControlOK, Labels, Running
    <3>4. staged.abort \in {"no", "cancel", "error"}
      BY DEF TypeOK
    <3> QED
      BY <1>21, <3>1, <3>2, <3>3, <3>4 DEF CommitResult
  <2>2. attempts' \in Nat /\ AttemptsEnd'
    BY <1>21, <2>1 DEF CommitResult, AttemptsEnd, TypeOK
  <2>3. ResultItem(turn, round[index], staged.status) \in Item
    BY <1>21, ItemTypes, RoundTypes DEF CommitResult, TypeOK, ControlType, ControlOK, Labels, Running
  <2> QED
    BY <1>21, <2>1, <2>2, <2>3, CommittedType, CommitFailedType, RestType, TypeParts DEF CommitResult
<1>22. CASE CommitParentResult
  <2>1. /\ ControlType' /\ ControlOK' /\ pc' # "model"
    BY <1>22, RoundTypes DEF CommitParentResult, CloseFrom, TypeOK, ControlType, ControlOK, Labels, Running
  <2>2. attempts' \in Nat /\ AttemptsEnd'
    BY <1>22, <2>1 DEF CommitParentResult, AttemptsEnd, TypeOK
  <2>3. ResultItem(turn, round[index], "cancelled_parent") \in Item
    BY <1>22, ItemTypes, RoundTypes DEF CommitParentResult, Statuses, TypeOK, ControlType, ControlOK, Labels, Running
  <2> QED
    BY <1>22, <2>1, <2>2, <2>3, CommittedType, CommitFailedType, RestType, TypeParts
       DEF CommitParentResult
<1>23. CASE CleanupDone
  <2>1. /\ ControlType' /\ ControlOK' /\ pc' # "model"
    <3>1. CASE Return("cancelled") \/ Return("error")
      BY <1>23, <3>1, ReturnType DEF Outcomes, Return
    <3> QED
      BY <1>23, <3>1 DEF CleanupDone
  <2>2. attempts' \in Nat /\ AttemptsEnd'
    BY <1>23, <2>1 DEF CleanupDone, AttemptsEnd, TypeOK
  <2> QED
    BY <1>23, <2>1, <2>2, NoCommitType, RestType, TypeParts DEF CleanupDone
<1>24. CASE Crash
  <2>1. ControlType' /\ ControlOK'
    BY <1>24, PolicyIsValid DEF Crash, ControlType, ControlOK, Labels, Running, Outcomes, NoResult
  <2>2. crashes' \in 0 .. MaxCrashes
    BY <1>24, BoundsAreNatural DEF Crash, TypeOK
  <2>4. /\ items' \in Seq(Item) /\ cancelled' \in BOOLEAN /\ failures' \in 0 .. MaxFailures
        /\ granted' \subseteq Int /\ started' \subseteq Int /\ finished' \subseteq Int
    BY <1>24 DEF Crash, TypeOK, history
  <2>3. attempts' \in Nat /\ AttemptsEnd'
    BY <1>24 DEF Crash, AttemptsEnd
  <2> QED
    BY <2>1, <2>2, <2>3, <2>4, TypeParts
<1>25. CASE Resume
  BY <1>25 DEF Resume, TypeOK, ControlOK, AttemptsEnd, Labels, Running, control, history, bounds
<1>26. CASE UNCHANGED vars
  BY <1>26 DEF vars, TypeOK, ControlOK, AttemptsEnd, control, history, bounds
<1> QED
  BY <1>1, <1>2, <1>3, <1>4, <1>5, <1>6, <1>7, <1>8, <1>9, <1>10, <1>11, <1>12, <1>13, <1>14, <1>15, <1>16, <1>17, <1>18, <1>19, <1>20, <1>21, <1>22, <1>23, <1>24, <1>25, <1>26
     DEF Next, LoopStep, Answer

LEMMA InitType == ASSUME Init PROVE TypeInv
<1>1. ControlOK /\ AttemptsEnd
  BY DEF Init, ControlOK, AttemptsEnd, Running
<1>2. step \in 0 .. MaxSteps - 1 /\ attempt \in 0 .. MaxRetries
  BY PolicyIsValid DEF Init
<1>3. staged \in [status : Statuses \union {None}, abort : {"no", "cancel", "error"}]
  BY DEF Init, NoResult
<1>4. round \in Rounds \union {<< >>} /\ index \in 0 .. Len(round) + 1
  BY DEF Init
<1>5. failures \in 0 .. MaxFailures /\ crashes \in 0 .. MaxCrashes
  BY BoundsAreNatural DEF Init
<1>6. items \in Seq(Item)
  <2>1. << >> \in Seq(Item)
    OBVIOUS
  <2> QED
    BY <2>1 DEF Init
<1>9. attempts \in Nat /\ turn \in Nat /\ cancelled \in BOOLEAN
  BY DEF Init
<1>7. pc \in Labels /\ outcome \in Outcomes
  BY DEF Init, Labels, Outcomes
<1>8. granted \subseteq Int /\ started \subseteq Int /\ finished \subseteq Int
  BY DEF Init
<1> QED
  BY <1>1, <1>2, <1>3, <1>4, <1>5, <1>6, <1>7, <1>8, <1>9, Zenon DEF TypeInv, TypeOK

LEMMA TypeInvariant == Spec => []TypeInv
<1>1. Init => TypeInv
  BY InitType
<1> QED
  BY <1>1, TypeStep, PTL DEF Spec

(* Every variable keeps its type, and the indices stay inside the round.    *)
THEOREM TypeCorrect == Spec => []TypeOK
<1>1. TypeInv => TypeOK
  BY DEF TypeInv
<1> QED
  BY <1>1, TypeInvariant, PTL

(* Every LlmCallStarted has had its LlmCallEnded once the attempt is over.  *)
THEOREM EveryAttemptEnds == Spec => []AttemptsEnd
<1>1. TypeInv => AttemptsEnd
  BY DEF TypeInv
<1> QED
  BY <1>1, TypeInvariant, PTL

-----------------------------------------------------------------------------
(* Turn numbers.                                                            *)

Outside == {"idle", "down", "entry", "started"}

(* What a step does to the log and to the Turn number: nothing, ...         *)
Keeps ==
    /\ items' = items
    /\ pc' \in {"idle", "down", "entry"} \/ (pc \notin Outside /\ turn' = turn /\ pc' # "started")

(* ... number a Turn, ...                                                   *)
Numbers == items' = items /\ pc' = "started" /\ turn' = next_turn(items)

(* ... start its items with a prompt, ...                                   *)
Prompts ==
    /\ pc = "started" /\ pc' # "started" /\ turn' = turn
    /\ items' = Append(items, PlainItem("user", turn))

(* ... or add an item to those of the Turn.                                 *)
Adds ==
    /\ pc \notin Outside
    /\ \E item \in Item :
         item.kind # "user" /\ item.turn = turn /\ items' = Append(items, item)
    /\ pc' \in {"idle", "down", "entry"} \/ (turn' = turn /\ pc' # "started")

LEMMA LogSteps ==
    ASSUME TypeInv, Next
    PROVE  Keeps \/ Numbers \/ Prompts \/ Adds \/ UNCHANGED <<items, turn, pc>>
<1> USE DEF Outside, TypeInv
<1>1. CASE StartTurn \/ Cancel \/ Crash \/ Resume
  BY <1>1 DEF StartTurn, Cancel, Crash, Resume, Keeps, control
<1>2. CASE Preflight
  BY <1>2 DEF Preflight, NoCommit, Cancelled, Return, Continue, Keeps, Numbers
<1>3. CASE CommitPrompt
  BY <1>3 DEF CommitPrompt, Committed, CommitFailed, NoCommit, Cancelled, Return, Continue, Keeps, Prompts
<1>4. CASE BeginStep \/ StartAttempt \/ ModelCancelled \/ Backoff
  BY <1>4 DEF BeginStep, StartAttempt, ModelCancelled, Backoff, NoCommit, Cancelled, Return,
              Continue, Keeps, control
<1>5. CASE ModelAnswers \/ ModelAnswersInvalid \/ ModelFails
  BY <1>5 DEF ModelAnswers, ModelAnswersInvalid, ModelFails, NoCommit, Return, Keeps, control
<1>6. CASE Dispatch \/ ApprovalAnswered \/ ApprovalCancelled \/ Launch
  BY <1>6 DEF Dispatch, ApprovalAnswered, ApprovalCancelled, Launch, NoCommit, Stage, Keeps, control
<1>7. CASE ToolReturns \/ ToolErrors \/ ToolCancelled \/ CleanupDone
  BY <1>7 DEF ToolReturns, ToolErrors, ToolCancelled, CleanupDone, NoCommit, Stage, Return, Keeps
<1>8. CASE Finalize
  <2>1. /\ PlainItem("assistant", turn) \in Item
        /\ PlainItem("assistant", turn).kind # "user" /\ PlainItem("assistant", turn).turn = turn
    BY MessageType DEF PlainItem
  <2>2. pc' = "idle" \/ (turn' = turn /\ pc' # "started")
    BY <1>8 DEF Finalize, AfterFinalize, Return
  <2> QED
    BY <1>8, <2>1, <2>2
       DEF Finalize, AfterFinalize, Committed, CommitFailed, NoCommit, Return, Keeps, Adds
<1>9. CASE RecordCall
  <2> DEFINE item == CallItem(turn, round[index])
  <2>1. item \in Item /\ item.kind # "user" /\ item.turn = turn
    <3>1. round[index] \in Call /\ turn \in Nat
      BY <1>9, RoundTypes DEF RecordCall, TypeOK, ControlOK, Running
    <3> QED
      BY <3>1, ItemTypes DEF CallItem
  <2>2. pc' = "idle" \/ (turn' = turn /\ pc' # "started")
    BY <1>9 DEF RecordCall, Return
  <2> QED
    BY <1>9, <2>1, <2>2 DEF RecordCall, Committed, CommitFailed, Return, Keeps, Adds
<1>10. CASE CommitResult
  <2> DEFINE item == ResultItem(turn, round[index], staged.status)
  <2>1. item \in Item /\ item.kind # "user" /\ item.turn = turn
    <3>1. round[index] \in Call /\ staged.status \in Statuses /\ turn \in Nat
      BY <1>10, RoundTypes DEF CommitResult, TypeOK, ControlOK, Running
    <3> QED
      BY <3>1, ItemTypes DEF ResultItem
  <2>2. pc' = "idle" \/ (turn' = turn /\ pc' # "started")
    BY <1>10 DEF CommitResult, CloseFrom, NextCall, RoundClosed, Return
  <2> QED
    BY <1>10, <2>1, <2>2 DEF CommitResult, CloseFrom, Committed, CommitFailed, Keeps, Adds
<1>11. CASE CommitParentResult
  <2> DEFINE item == ResultItem(turn, round[index], "cancelled_parent")
  <2>1. item \in Item /\ item.kind # "user" /\ item.turn = turn
    <3>1. round[index] \in Call /\ "cancelled_parent" \in Statuses /\ turn \in Nat
      BY <1>11, RoundTypes DEF CommitParentResult, Statuses, TypeOK, ControlOK, Running
    <3> QED
      BY <3>1, ItemTypes DEF ResultItem
  <2>2. turn' = turn /\ pc' # "started"
    BY <1>11 DEF CommitParentResult, CloseFrom
  <2> QED
    BY <1>11, <2>1, <2>2 DEF CommitParentResult, Committed, CommitFailed, Keeps, Adds
<1> QED
  BY <1>1, <1>2, <1>3, <1>4, <1>5, <1>6, <1>7, <1>8, <1>9, <1>10, <1>11 DEF Next, LoopStep, Answer

TurnInv == TypeInv /\ TurnOK /\ TurnNumbersNeverReused

LEMMA TurnStep == TurnInv /\ [Next]_vars => TurnInv'
<1> SUFFICES ASSUME TurnInv, [Next]_vars PROVE TurnInv'
  OBVIOUS
<1>1. TypeInv'
  BY TypeStep DEF TurnInv
<1>2. items \in Seq(Item) /\ turn \in Nat
  BY DEF TurnInv, TypeInv, TypeOK
<1>3. CASE Keeps
  BY <1>1, <1>3 DEF TurnInv, Keeps, TurnOK, TurnNumbersNeverReused, Outside
<1>4. CASE Numbers
  BY <1>1, <1>4 DEF TurnInv, Numbers, TurnOK, TurnNumbersNeverReused
<1>5. CASE Prompts
  <2> DEFINE item == PlainItem("user", turn)
  <2>1. item \in Item /\ item.kind = "user" /\ item.turn = turn
    BY MessageType DEF PlainItem, TurnInv, TypeInv
  <2>2. /\ Len(items') = Len(items) + 1 /\ items'[Len(items) + 1] = item
        /\ \A i \in 1 .. Len(items) : items'[i] = items[i]
    BY <1>2, <1>5, <2>1, Appended DEF Prompts
  <2>3. turn = next_turn(items)
    BY <1>5 DEF Prompts, TurnInv, TurnOK
  <2>4. items # << >> => items[Len(items)].turn \in Nat /\ turn > items[Len(items)].turn
    <3>1. items # << >> => items[Len(items)] \in Item
      BY <1>2
    <3> QED
      BY <1>2, <2>3, <3>1 DEF next_turn, Item
  <2>5. TurnNumbersNeverReused'
    <3>1. items'[1].kind = "user"
      BY <1>2, <2>1, <2>2 DEF TurnInv, TurnNumbersNeverReused
    <3>2. ASSUME NEW i \in 2 .. Len(items')
          PROVE  IF items'[i].kind = "user" THEN items'[i].turn > items'[i-1].turn
                                            ELSE items'[i].turn = items'[i-1].turn
      <4>1. CASE i = Len(items) + 1
        BY <1>2, <2>1, <2>2, <2>4, <4>1
      <4>2. CASE i \in 2 .. Len(items)
        BY <1>2, <2>2, <4>2 DEF TurnInv, TurnNumbersNeverReused
      <4> QED
        BY <1>2, <2>2, <4>1, <4>2
    <3> QED
      BY <3>1, <3>2 DEF TurnNumbersNeverReused
  <2>6. TurnOK'
    <3>1. items' # << >> /\ items'[Len(items')].turn = turn /\ turn' = turn
      BY <1>2, <1>5, <2>1, <2>2 DEF Prompts
    <3>2. pc' # "started"
      BY <1>5 DEF Prompts
    <3> QED
      BY <3>1, <3>2 DEF TurnOK
  <2> QED
    BY <1>1, <2>5, <2>6 DEF TurnInv
<1>6. CASE Adds
  <2>1. PICK item \in Item :
           item.kind # "user" /\ item.turn = turn /\ items' = Append(items, item)
    BY <1>6 DEF Adds
  <2>2. /\ Len(items') = Len(items) + 1 /\ items'[Len(items) + 1] = item
        /\ \A i \in 1 .. Len(items) : items'[i] = items[i]
    BY <1>2, <2>1, Appended
  <2>3. items # << >> /\ items[Len(items)].turn = turn
    BY <1>6 DEF Adds, TurnInv, TurnOK, Outside
  <2>4. TurnNumbersNeverReused'
    <3>1. items'[1].kind = "user"
      BY <1>2, <2>2, <2>3 DEF TurnInv, TurnNumbersNeverReused
    <3>2. ASSUME NEW i \in 2 .. Len(items')
          PROVE  IF items'[i].kind = "user" THEN items'[i].turn > items'[i-1].turn
                                            ELSE items'[i].turn = items'[i-1].turn
      <4>1. CASE i = Len(items) + 1
        BY <1>2, <2>1, <2>2, <2>3, <4>1
      <4>2. CASE i \in 2 .. Len(items)
        BY <1>2, <2>2, <4>2 DEF TurnInv, TurnNumbersNeverReused
      <4> QED
        BY <1>2, <2>2, <4>1, <4>2
    <3> QED
      BY <3>1, <3>2 DEF TurnNumbersNeverReused
  <2>5. TurnOK'
    <3>1. items' # << >> /\ items'[Len(items')].turn = turn
      BY <1>2, <2>1, <2>2
    <3> QED
      BY <1>6, <3>1 DEF Adds, TurnOK
  <2> QED
    BY <1>1, <2>4, <2>5 DEF TurnInv
<1>7. CASE UNCHANGED <<items, turn, pc>>
  BY <1>1, <1>7 DEF TurnInv, TurnOK, TurnNumbersNeverReused
<1> QED
  BY <1>3, <1>4, <1>5, <1>6, <1>7, LogSteps DEF TurnInv, vars, control

(* A Turn number names one prompt and the items that follow it, whatever    *)
(* failed to be appended and however often the process was restarted        *)
(* (SessionStore::next_turn).                                               *)
THEOREM TurnNumbersOnce == Spec => []TurnNumbersNeverReused
<1>1. ASSUME Init PROVE TurnInv
  <2>1. TurnOK
    BY <1>1 DEF Init, TurnOK
  <2>2. items = << >> /\ TurnNumbersNeverReused
    BY <1>1 DEF Init, TurnNumbersNeverReused
  <2> QED
    BY <1>1, <2>1, <2>2, InitType DEF TurnInv
<1>2. TurnInv => TurnNumbersNeverReused
  BY DEF TurnInv
<1> QED
  BY <1>1, <1>2, TurnStep, PTL DEF Spec

-----------------------------------------------------------------------------
(* What was executed, on whose authority, and what the results say of it.   *)

Facts == OnlyAuthorisedCallsStart /\ ResultsTellTheTruth

RoundInv == TypeInv /\ RoundOK /\ BegunOK /\ Facts

(* Facts about a log survive an append whose own answer is true.            *)
LEMMA FactsAppend ==
    ASSUME items \in Seq(Item), Facts, NEW item \in Item, items' = Append(items, item),
           UNCHANGED history,
           ASSUME NEW i \in 1 .. Len(items), Answers(items', Len(items) + 1, i)
           PROVE  CASE item.status \in {"succeeded", "failed"} -> i \in finished
                    [] item.status = "outcome_unknown" -> i \in started
                    [] OTHER -> i \notin started
    PROVE  Facts'
<1>1. /\ items' \in Seq(Item) /\ Len(items') = Len(items) + 1
      /\ \A i \in 1 .. Len(items) : items'[i] = items[i]
      /\ items'[Len(items) + 1] = item
  BY Appended
<1>2. OnlyAuthorisedCallsStart'
  BY <1>1 DEF Facts, OnlyAuthorisedCallsStart, history, IsCall
<1>3. ASSUME NEW i \in 1 .. Len(items'), NEW j \in 1 .. Len(items'), Answers(items', j, i)
      PROVE  CASE items'[j].status \in {"succeeded", "failed"} -> i \in finished'
               [] items'[j].status = "outcome_unknown" -> i \in started'
               [] OTHER -> i \notin started'
  <2>1. i < j
    BY <1>3 DEF Answers
  <2>2. CASE j = Len(items) + 1
    BY <1>1, <1>3, <2>1, <2>2 DEF history
  <2>3. CASE j \in 1 .. Len(items)
    <3>1. i \in 1 .. Len(items)
      BY <1>1, <2>1, <2>3
    <3>2. Answers(items, j, i)
      BY <1>3, <2>3, <3>1, AnswersStay
    <3> QED
      BY <1>1, <2>3, <3>1, <3>2 DEF Facts, ResultsTellTheTruth, history
  <2> QED
    BY <1>1, <2>2, <2>3
<1> QED
  BY <1>2, <1>3 DEF Facts, ResultsTellTheTruth

LEMMA FactsStay ==
    ASSUME Facts, UNCHANGED <<items, history>>
    PROVE  Facts'
BY DEF Facts, OnlyAuthorisedCallsStart, ResultsTellTheTruth, history

(* A result that is appended next answers the current call and no other.    *)
LEMMA AnswersCurrent ==
    ASSUME TypeOK, round # << >>, index \in 1 .. Len(round),
           NEW b \in 0 .. Len(items), Recorded(b, Len(round)), Answered(b),
           NEW item \in Item, item.id = round[index].id,
           NEW i \in 1 .. Len(items), Answers(Append(items, item), Len(items) + 1, i)
    PROVE  i = b + index
<1> DEFINE log == Append(items, item)
<1>1. /\ log \in Seq(Item) /\ Len(log) = Len(items) + 1 /\ log[Len(items) + 1] = item
      /\ \A k \in 1 .. Len(items) : log[k] = items[k]
  BY Appended DEF TypeOK
<1>2. /\ IsCall(log, i) /\ log[i].id = item.id
      /\ \A k \in i+1 .. Len(items) : log[k].kind \in {"call", "result"} => log[k].id # item.id
  BY <1>1 DEF Answers
<1>3. /\ Len(round) \in Nat /\ Len(items) \in Nat /\ b + index \in 1 .. Len(items)
      /\ items[b + index] = CallItem(turn, round[index])
  BY RoundTypes DEF TypeOK, Recorded
<1>4. ~ i < b + index
  BY <1>1, <1>2, <1>3 DEF CallItem
<1>5. ~ i > b + index
  <2> SUFFICES ASSUME i > b + index PROVE FALSE
    OBVIOUS
  <2>1. i <= b + Len(round)
    <3>1. items[i].kind = "call"
      BY <1>1, <1>2 DEF IsCall
    <3> QED
      BY <1>3, <3>1 DEF Answered
  <2> DEFINE k == i - b
  <2>2. k \in 1 .. Len(round) /\ i = b + k /\ k # index
    BY <1>3, <2>1
  <2>3. items[i] = CallItem(turn, round[k])
    BY <2>2 DEF Recorded
  <2>4. round[k].id = round[index].id
    BY <1>1, <1>2, <2>3 DEF CallItem
  <2>5. round \in Rounds
    BY DEF TypeOK
  <2> QED
    BY <2>2, <2>4, <2>5, RoundsAreClassified
<1> QED
  BY <1>3, <1>4, <1>5

(* Nothing has answered the current call yet.                               *)
LEMMA CurrentUnanswered ==
    ASSUME TypeOK, round # << >>, index \in 1 .. Len(round),
           NEW b \in 0 .. Len(items), Recorded(b, Len(round)), Answered(b),
           NEW j \in 1 .. Len(items), Answers(items, j, b + index)
    PROVE  FALSE
<1>1. /\ Len(round) \in Nat /\ Len(items) \in Nat /\ b + index \in 1 .. Len(items)
      /\ items[b + index] = CallItem(turn, round[index])
  BY RoundTypes DEF TypeOK, Recorded
<1>2. j > b + index /\ items[j].kind = "result" /\ items[j].id = round[index].id
  BY <1>1 DEF Answers, IsResult, CallItem
<1>3. round \in Rounds
  BY DEF TypeOK
<1>4. CASE j <= b + Len(round)
  <2> DEFINE k == j - b
  <2>1. k \in 1 .. Len(round) /\ j = b + k
    BY <1>1, <1>2, <1>4
  <2>2. items[j] = CallItem(turn, round[k])
    BY <2>1 DEF Recorded
  <2> QED
    BY <1>2, <2>2 DEF CallItem
<1>5. CASE j > b + Len(round)
  <2>0. j \in b + Len(round) + 1 .. Len(items)
    BY <1>1, <1>5
  <2>1. PICK k \in 1 .. index - 1 : items[j].id = round[k].id
    BY <2>0 DEF Answered
  <2>2. k \in 1 .. Len(round) /\ k # index /\ round[k].id = round[index].id
    BY <1>1, <1>2, <2>1
  <2> QED
    BY <1>3, <2>2, RoundsAreClassified
<1> QED
  BY <1>1, <1>4, <1>5

InRound == Running \union {"record", "cleanup"}

(* A step that leaves the round, or stays outside one, and appends at most  *)
(* a message.                                                               *)
LEMMA AwayStep ==
    ASSUME RoundInv, TypeInv', pc' \notin InRound, UNCHANGED history,
           \/ items' = items
           \/ \E item \in Item : item.kind # "result" /\ items' = Append(items, item)
    PROVE  RoundInv'
<1>1. RoundOK' /\ BegunOK'
  BY DEF RoundOK, BegunOK, InRound, Running
<1>2. CASE items' = items
  BY <1>1, <1>2, FactsStay DEF RoundInv
<1>3. ASSUME NEW item \in Item, item.kind # "result", items' = Append(items, item)
      PROVE  Facts'
  <2>1. items \in Seq(Item)
    BY DEF RoundInv, TypeInv, TypeOK
  <2>2. ~ IsResult(items', Len(items) + 1)
    BY <1>3, <2>1, Appended DEF IsResult
  <2> QED
    BY <1>3, <2>1, <2>2, FactsAppend DEF RoundInv, Answers
<1> QED
  BY <1>1, <1>2, <1>3 DEF RoundInv

(* A step inside execute_call leaves the log and the round alone.           *)
LEMMA ExecuteStep ==
    ASSUME RoundInv, pc \in Running, pc' \in Running, UNCHANGED <<items, turn, round, index>>
    PROVE  RoundOK' /\ CallPosition' = CallPosition
<1>1. PICK b \in 0 .. Len(items) : /\ Recorded(b, Len(round)) /\ Answered(b)
                                   /\ Len(items) = b + Len(round) + index - 1
  BY DEF RoundInv, RoundOK
<1>2. Recorded(b, Len(round))' /\ Answered(b)'
  BY <1>1 DEF Recorded, Answered
<1> QED
  BY <1>1, <1>2 DEF RoundOK, CallPosition, Running

(* Where the current call is.                                               *)
LEMMA Position ==
    ASSUME RoundInv, pc \in Running
    PROVE  /\ CallPosition \in 1 .. Len(items)
           /\ items[CallPosition] = CallItem(turn, round[index])
           /\ round # << >> /\ index \in 1 .. Len(round) /\ round[index] \in Call
           /\ \E b \in 0 .. Len(items) :
                /\ Recorded(b, Len(round)) /\ Answered(b)
                /\ Len(items) = b + Len(round) + index - 1 /\ CallPosition = b + index
<1>1. PICK b \in 0 .. Len(items) : /\ Recorded(b, Len(round)) /\ Answered(b)
                                   /\ Len(items) = b + Len(round) + index - 1
  BY DEF RoundInv, RoundOK
<1>2. /\ round # << >> /\ index \in 1 .. Len(round) /\ round[index] \in Call
      /\ Len(round) \in Nat /\ Len(items) \in Nat
  BY RoundTypes DEF RoundInv, TypeInv, TypeOK, ControlOK
<1>3. CallPosition = b + index /\ CallPosition \in 1 .. Len(items)
  BY <1>1, <1>2 DEF CallPosition
<1> QED
  BY <1>1, <1>2, <1>3 DEF Recorded

(* The current call is not answered.                                        *)
LEMMA Unanswered ==
    ASSUME RoundInv, pc \in Running, NEW j \in 1 .. Len(items), Answers(items, j, CallPosition)
    PROVE  FALSE
BY Position, CurrentUnanswered DEF RoundInv, TypeInv

LEMMA StagedStep ==
    ASSUME RoundInv, pc \in Running, pc' = "commit_result", UNCHANGED <<items, turn, round, index>>,
           UNCHANGED history, Before(CallPosition + 1),
           CASE staged'.status \in {"succeeded", "failed"} -> CallPosition \in finished
             [] staged'.status = "outcome_unknown" -> CallPosition \in started
             [] OTHER -> CallPosition \notin started
    PROVE  RoundOK' /\ BegunOK' /\ Facts'
<1>1. RoundOK' /\ CallPosition' = CallPosition
  BY ExecuteStep DEF Running
<1>2. BegunOK'
  BY <1>1 DEF BegunOK, Before, history
<1> QED
  BY <1>1, <1>2, FactsStay DEF RoundInv

LEMMA BeforeNext ==
    ASSUME RoundInv, pc \in {"dispatch", "approval", "launch"}
    PROVE  Before(CallPosition) /\ Before(CallPosition + 1) /\ CallPosition \notin started
<1>1. Before(CallPosition)
  BY DEF RoundInv, BegunOK
<1>2. CallPosition \in Int /\ started \subseteq Int
  BY PositionType DEF RoundInv, TypeInv, TypeOK
<1> QED
  BY <1>1, <1>2 DEF Before

(* After the attempt to append the current call's answer the round is as it *)
(* was, one call further.                                                   *)
LEMMA AnsweredNext ==
    ASSUME TypeOK, round # << >>, index \in 1 .. Len(round),
           NEW b \in 0 .. Len(items), Recorded(b, Len(round)), Answered(b),
           UNCHANGED <<turn, round>>, index' = index + 1,
           NEW status \in Statuses,
           \/ items' = items
           \/ items' = Append(items, ResultItem(turn, round[index], status))
    PROVE  b \in 0 .. Len(items') /\ Recorded(b, Len(round))' /\ Answered(b)'
<1> DEFINE item == ResultItem(turn, round[index], status)
<1>1. /\ items \in Seq(Item) /\ Len(items) \in Nat /\ Len(round) \in Nat /\ round[index] \in Call
      /\ item \in Item /\ item.kind = "result" /\ item.id = round[index].id
  BY RoundTypes, ItemTypes DEF TypeOK, ResultItem
<1>2. CASE items' = items
  <2>1. ASSUME NEW j \in b + Len(round) + 1 .. Len(items)
        PROVE  items[j].kind = "result" /\ \E k \in 1 .. index' - 1 : items[j].id = round[k].id
    <3>1. items[j].kind = "result" /\ \E k \in 1 .. index - 1 : items[j].id = round[k].id
      BY DEF Answered
    <3>2. PICK k \in 1 .. index - 1 : items[j].id = round[k].id
      BY <3>1
    <3>3. k \in 1 .. index' - 1
      BY <1>1
    <3> QED
      BY <3>1, <3>2, <3>3
  <2> QED
    BY <1>1, <1>2, <2>1 DEF Recorded, Answered
<1>3. CASE items' = Append(items, item)
  <2>1. /\ Len(items') = Len(items) + 1 /\ items'[Len(items) + 1] = item
        /\ \A i \in 1 .. Len(items) : items'[i] = items[i]
    BY <1>1, <1>3, Appended
  <2>2. Recorded(b, Len(round))'
    <3>1. ASSUME NEW k \in 1 .. Len(round) PROVE items'[b + k] = CallItem(turn, round[k])
      <4>1. b + k \in 1 .. Len(items) /\ items[b + k] = CallItem(turn, round[k])
        BY <1>1 DEF Recorded
      <4> QED
        BY <2>1, <4>1
    <3>2. b + Len(round) <= Len(items')
      BY <1>1, <2>1 DEF Recorded
    <3> QED
      BY <3>1, <3>2 DEF Recorded
  <2>3. ASSUME NEW j \in b + Len(round) + 1 .. Len(items')
        PROVE  items'[j].kind = "result" /\ \E k \in 1 .. index' - 1 : items'[j].id = round[k].id
    <3>1. CASE j = Len(items) + 1
      BY <1>1, <2>1, <3>1
    <3>2. CASE j \in b + Len(round) + 1 .. Len(items)
      <4>1. items'[j] = items[j]
        BY <1>1, <2>1, <3>2
      <4>2. PICK k \in 1 .. index - 1 : items[j].id = round[k].id
        BY <3>2 DEF Answered
      <4> QED
        BY <1>1, <3>2, <4>1, <4>2 DEF Answered
    <3> QED
      BY <1>1, <2>1, <3>1, <3>2
  <2> QED
    BY <1>1, <2>1, <2>2, <2>3 DEF Answered
<1> QED
  BY <1>2, <1>3

LEMMA RoundStep == RoundInv /\ [Next]_vars => RoundInv'
<1> SUFFICES ASSUME RoundInv, [Next]_vars PROVE RoundInv'
  OBVIOUS
<1>0. TypeInv'
  BY TypeStep DEF RoundInv
<1>1. CASE UNCHANGED vars \/ Cancel
  <2>1. UNCHANGED <<items, pc, control, history>>
    BY <1>1 DEF vars, Cancel, control, history
  <2>2. RoundOK' /\ BegunOK'
    BY <2>1 DEF RoundInv, RoundOK, BegunOK, Recorded, Answered, Before, CallPosition, control, history
  <2> QED
    BY <1>0, <2>1, <2>2, FactsStay DEF RoundInv
<1>2. CASE StartTurn \/ Crash \/ Resume \/ Preflight \/ BeginStep \/ StartAttempt
  <2>1. pc' \notin InRound /\ items' = items /\ UNCHANGED history
    BY <1>2 DEF StartTurn, Crash, Resume, Preflight, BeginStep, StartAttempt, NoCommit, Cancelled,
                Return, Continue, InRound, Running
  <2> QED
    BY <1>0, <2>1, AwayStep
<1>3. CASE ModelAnswers \/ ModelAnswersInvalid \/ ModelFails \/ ModelCancelled \/ Backoff \/ CleanupDone
  <2>1. pc' \notin InRound /\ items' = items /\ UNCHANGED history
    BY <1>3 DEF ModelAnswers, ModelAnswersInvalid, ModelFails, ModelCancelled, Backoff, CleanupDone,
                NoCommit, Cancelled, Return, Continue, InRound, Running
  <2> QED
    BY <1>0, <2>1, AwayStep
<1>4. CASE CommitPrompt
  <2>1. pc' \notin InRound /\ UNCHANGED history
    BY <1>4 DEF CommitPrompt, Cancelled, Return, Continue, InRound, Running
  <2>2. items' = items \/ items' = Append(items, PlainItem("user", turn))
    BY <1>4 DEF CommitPrompt, NoCommit, Committed, CommitFailed
  <2>3. PlainItem("user", turn) \in Item /\ PlainItem("user", turn).kind # "result"
    BY MessageType DEF PlainItem, RoundInv, TypeInv
  <2> QED
    BY <1>0, <2>1, <2>2, <2>3, AwayStep
<1>5. CASE Finalize
  <2> DEFINE item == PlainItem("assistant", turn)
  <2>1. items' = items \/ items' = Append(items, item)
    BY <1>5 DEF Finalize, NoCommit, Committed, CommitFailed
  <2>2. item \in Item /\ item.kind # "result"
    BY MessageType DEF PlainItem, RoundInv, TypeInv
  <2>3. UNCHANGED history
    BY <1>5 DEF Finalize
  <2>4. CASE pc' \notin InRound
    BY <1>0, <2>1, <2>2, <2>3, <2>4, AwayStep
  <2>5. CASE pc' = "record" /\ index' = 1
    <3>1. items \in Seq(Item) /\ items' \in Seq(Item) /\ Len(items') \in Nat /\ Len(items') >= Len(items)
      <4>1. items \in Seq(Item) /\ items' \in Seq(Item)
        BY <1>0 DEF RoundInv, TypeInv, TypeOK
      <4>2. items' = Append(items, item) => Len(items') = Len(items) + 1
        BY <2>2, <4>1, Appended
      <4> QED
        BY <2>1, <4>1, <4>2
    <3>2. RoundOK'
      BY <2>5, <3>1 DEF RoundOK, Recorded, Running
    <3>3. \A p \in started' : p \in Int /\ p < Len(items') + 1
      BY <2>3, <3>1 DEF RoundInv, Facts, OnlyAuthorisedCallsStart, history
    <3>4. BegunOK'
      BY <2>5, <3>1, <3>3 DEF BegunOK, Before
    <3>5. Facts'
      <4>1. ~ IsResult(Append(items, item), Len(items) + 1)
        BY <2>2, <3>1, Appended DEF IsResult
      <4> QED
        BY <2>1, <2>2, <2>3, <3>1, <4>1, FactsAppend, FactsStay DEF RoundInv, Answers
    <3> QED
      BY <1>0, <3>2, <3>4, <3>5 DEF RoundInv
  <2> QED
    BY <1>5, <2>4, <2>5 DEF Finalize, AfterFinalize, Return, InRound, Running
<1>6. CASE RecordCall
  <2> DEFINE item == CallItem(turn, round[index])
  <2>1. /\ round # << >> /\ index \in 1 .. Len(round) /\ round[index] \in Call
        /\ Len(round) \in Nat /\ items \in Seq(Item) /\ turn \in Nat
    BY <1>6, RoundTypes DEF RecordCall, RoundInv, TypeInv, TypeOK, ControlOK
  <2>2. item \in Item /\ item.kind # "result"
    BY <2>1, ItemTypes DEF CallItem
  <2>3. UNCHANGED history
    BY <1>6 DEF RecordCall
  <2>4. CASE CommitFailed /\ Return("error")
    BY <1>0, <2>3, <2>4, AwayStep DEF CommitFailed, Return, InRound, Running
  <2>5. CASE /\ Committed(item) /\ UNCHANGED <<turn, round>>
             /\ \/ index < Len(round) /\ pc' = "record" /\ index' = index + 1
                \/ index = Len(round) /\ pc' = "dispatch" /\ index' = 1
    <3>1. /\ items' = Append(items, item) /\ Len(items') = Len(items) + 1
          /\ items'[Len(items) + 1] = item
          /\ \A i \in 1 .. Len(items) : items'[i] = items[i]
      BY <2>1, <2>2, <2>5, Appended DEF Committed
    <3>2. PICK b \in 0 .. Len(items) : Recorded(b, index - 1) /\ Len(items) = b + index - 1
      BY <1>6 DEF RecordCall, RoundInv, RoundOK
    <3>3. \A k \in 1 .. index : items'[b + k] = CallItem(turn, round[k])
      <4>1. ASSUME NEW k \in 1 .. index - 1 PROVE items'[b + k] = CallItem(turn, round[k])
        <5>1. items[b + k] = CallItem(turn, round[k])
          BY <3>2 DEF Recorded
        <5>2. b + k \in 1 .. Len(items)
          BY <2>1, <3>2
        <5> QED
          BY <3>1, <5>1, <5>2
      <4>2. items'[b + index] = item
        BY <2>1, <3>1, <3>2
      <4> QED
        BY <2>1, <4>1, <4>2
    <3>4. RoundOK'
      <4>1. Len(items) \in Nat /\ b \in 0 .. Len(items') /\ Len(items') = b + index
        BY <2>1, <3>1, <3>2
      <4>2. CASE pc' = "record"
        <5>1. index' - 1 = index /\ Len(items') = b + index' - 1
          BY <2>1, <2>5, <4>1, <4>2
        <5>2. Recorded(b, index - 1)'
          BY <2>5, <3>3, <4>1, <5>1 DEF Recorded
        <5> QED
          BY <4>1, <4>2, <5>1, <5>2 DEF RoundOK, Running
      <4>3. CASE pc' = "dispatch"
        <5>1. index = Len(round) /\ index' = 1 /\ round' = round /\ turn' = turn
          BY <2>5, <4>3
        <5>2. Recorded(b, Len(round))'
          BY <3>3, <4>1, <5>1 DEF Recorded
        <5>3. Answered(b)' /\ Len(items') = b + Len(round') + index' - 1
          BY <2>1, <4>1, <5>1 DEF Answered
        <5> QED
          BY <4>1, <4>3, <5>2, <5>3 DEF RoundOK, Running
      <4> QED
        BY <2>5, <4>2, <4>3
    <3>5. BegunOK'
      <4>1. Before(b + 1)
        <5>1. Before(Len(items) - index + 2)
          BY <1>6 DEF RecordCall, RoundInv, BegunOK
        <5>2. Len(items) - index + 2 = b + 1
          BY <2>1, <3>2
        <5> QED
          BY <5>1, <5>2
      <4>2. Before(b + 1)'
        BY <4>1, <2>3 DEF Before, history
      <4>3. CASE pc' = "record"
        <5>1. Len(items') - index' + 2 = b + 1
          BY <2>1, <2>5, <3>1, <3>2, <4>3
        <5> QED
          BY <4>2, <4>3, <5>1 DEF BegunOK, Before
      <4>4. CASE pc' = "dispatch"
        <5>1. CallPosition' = b + 1
          <6>1. Len(items) \in Nat /\ Len(items') = Len(items) + 1 /\ Len(items) = b + index - 1
            BY <2>1, <3>1, <3>2
          <6>2. round' = round /\ index = Len(round)
            BY <2>5, <4>4
          <6> QED
            BY <2>1, <3>2, <6>1, <6>2 DEF CallPosition
        <5> QED
          BY <4>2, <4>4, <5>1 DEF BegunOK
      <4> QED
        BY <2>5, <4>3, <4>4
    <3>6. Facts'
      <4>1. ~ IsResult(items', Len(items) + 1)
        BY <2>2, <3>1 DEF IsResult
      <4> QED
        BY <2>1, <2>2, <2>3, <3>1, <4>1, FactsAppend DEF RoundInv, Answers
    <3> QED
      BY <1>0, <3>4, <3>5, <3>6 DEF RoundInv
  <2> QED
    BY <1>6, <2>1, <2>4, <2>5 DEF RecordCall
<1>7. CASE Dispatch
  <2>1. UNCHANGED <<items, turn, round, index, history>> /\ pc \in Running /\ pc' \in Running
    BY <1>7 DEF Dispatch, NoCommit, Stage, control, history, Running
  <2>2. Before(CallPosition) /\ Before(CallPosition + 1) /\ CallPosition \notin started
    BY <1>7, BeforeNext DEF Dispatch
  <2>3. RoundOK' /\ CallPosition' = CallPosition /\ Facts'
    BY <2>1, ExecuteStep, FactsStay DEF RoundInv, history
  <2>4. BegunOK'
    <3>1. CASE pc' = "commit_result"
      <4>1. staged'.status \in {"cancelled_user", "unknown_tool", "invalid_arguments"}
        BY <1>7, <3>1 DEF Dispatch, Stage
      <4> QED
        BY <2>1, <2>2, <3>1, <4>1, StagedStep DEF history
    <3>2. CASE /\ round[index].name \in DOMAIN Permission
               /\ pc' = IF Permission[round[index].name] = "ask" THEN "approval" ELSE "launch"
      BY <2>1, <2>2, <2>3, <3>2 DEF BegunOK, Before, history
    <3> QED
      BY <1>7, <3>1, <3>2 DEF Dispatch, Stage
  <2> QED
    BY <1>0, <2>3, <2>4 DEF RoundInv
<1>8. CASE ApprovalAnswered \/ ApprovalCancelled
  <2>1. /\ UNCHANGED <<items, turn, round, index, started, finished>>
        /\ pc = "approval" /\ pc \in Running /\ pc' \in Running
    BY <1>8 DEF ApprovalAnswered, ApprovalCancelled, NoCommit, Stage, control, history, Running
  <2>2. Before(CallPosition) /\ Before(CallPosition + 1) /\ CallPosition \notin started
    BY <2>1, BeforeNext
  <2>3. RoundOK' /\ CallPosition' = CallPosition
    BY <2>1, ExecuteStep
  <2>4. Facts'
    <3>1. granted \subseteq granted'
      BY <1>8 DEF ApprovalAnswered, ApprovalCancelled, history
    <3> QED
      BY <2>1, <3>1 DEF RoundInv, Facts, OnlyAuthorisedCallsStart, ResultsTellTheTruth
  <2>5. BegunOK'
    <3>1. CASE pc' = "commit_result"
      <4>1. staged'.status \in {"denied", "cancelled_user", "cancelled_disposed"}
        BY <1>8, <3>1 DEF ApprovalAnswered, ApprovalCancelled, Stage
      <4> QED
        BY <2>1, <2>2, <2>3, <3>1, <4>1 DEF BegunOK, Before
    <3>2. CASE pc' = "launch" /\ granted' = granted \union {CallPosition}
      BY <2>1, <2>2, <2>3, <3>2 DEF RoundInv, BegunOK, Before
    <3> QED
      BY <1>8, <3>1, <3>2 DEF ApprovalAnswered, ApprovalCancelled, Stage
  <2> QED
    BY <1>0, <2>3, <2>4, <2>5 DEF RoundInv
<1>9. CASE Launch
  <2>1. /\ UNCHANGED <<items, turn, round, index, granted, finished>>
        /\ pc = "launch" /\ pc \in Running /\ pc' \in Running
    BY <1>9 DEF Launch, NoCommit, Stage, control, Running
  <2>2. Before(CallPosition) /\ Before(CallPosition + 1) /\ CallPosition \notin started
    BY <2>1, BeforeNext
  <2>3. RoundOK' /\ CallPosition' = CallPosition
    BY <2>1, ExecuteStep
  <2>4. CASE pc' = "commit_result" /\ staged'.status = "cancelled_user" /\ UNCHANGED started
    BY <1>0, <2>1, <2>2, <2>4, StagedStep DEF RoundInv, history
  <2>5. CASE pc' = "executing" /\ started' = started \union {CallPosition}
    <3>1. BegunOK'
      <4>1. CallPosition \in Int
        BY PositionType DEF RoundInv, TypeInv
      <4> QED
        BY <2>1, <2>2, <2>3, <2>5, <4>1 DEF BegunOK, Before
    <3>2. OnlyAuthorisedCallsStart'
      <4>1. /\ CallPosition \in 1 .. Len(items) /\ IsCall(items, CallPosition)
            /\ items[CallPosition].name = round[index].name
        BY <2>1, Position DEF CallItem, IsCall
      <4>2. round[index].name \in DOMAIN Permission
        BY <2>1 DEF RoundInv, BegunOK
      <4>3. Permission[round[index].name] = "allow" \/ CallPosition \in granted
        BY <2>1, <4>2, PermissionsMatchRegistry DEF RoundInv, BegunOK
      <4> QED
        BY <2>1, <2>5, <4>1, <4>2, <4>3 DEF RoundInv, Facts, OnlyAuthorisedCallsStart
    <3>3. ResultsTellTheTruth'
      BY <2>1, <2>5, Unanswered DEF RoundInv, Facts, ResultsTellTheTruth
    <3> QED
      BY <1>0, <2>3, <3>1, <3>2, <3>3 DEF RoundInv, Facts
  <2> QED
    BY <1>9, <2>4, <2>5 DEF Launch, Stage
<1>10. CASE ToolReturns \/ ToolErrors \/ ToolCancelled
  <2>1. /\ UNCHANGED <<items, turn, round, index, granted, started>>
        /\ pc = "executing" /\ pc \in Running /\ pc' = "commit_result"
    BY <1>10 DEF ToolReturns, ToolErrors, ToolCancelled, NoCommit, Stage, history, Running
  <2>2. Before(CallPosition + 1) /\ CallPosition \in started
    BY <2>1 DEF RoundInv, BegunOK
  <2>3. RoundOK' /\ CallPosition' = CallPosition
    BY <2>1, ExecuteStep DEF Running
  <2>4. CASE staged'.status = "outcome_unknown" /\ UNCHANGED history
    BY <1>0, <2>1, <2>2, <2>4, StagedStep DEF RoundInv
  <2>5. CASE /\ staged'.status \in {"succeeded", "failed", "outcome_unknown"}
             /\ finished' = finished \union {CallPosition}
    <3>1. BegunOK'
      BY <2>1, <2>2, <2>3, <2>5 DEF BegunOK, Before
    <3>2. Facts'
      BY <2>1, <2>5 DEF RoundInv, Facts, OnlyAuthorisedCallsStart, ResultsTellTheTruth
    <3> QED
      BY <1>0, <2>3, <3>1, <3>2 DEF RoundInv
  <2> QED
    BY <1>10, <2>4, <2>5 DEF ToolReturns, ToolErrors, ToolCancelled, Stage
<1>11. CASE CommitResult
  <2> DEFINE item == ResultItem(turn, round[index], staged.status)
  <2>1. PICK b \in 0 .. Len(items) :
           /\ Recorded(b, Len(round)) /\ Answered(b)
           /\ Len(items) = b + Len(round) + index - 1 /\ CallPosition = b + index
    BY <1>11, Position DEF CommitResult, Running
  <2>2. /\ round # << >> /\ index \in 1 .. Len(round) /\ round[index] \in Call
        /\ Len(round) \in Nat /\ items \in Seq(Item) /\ turn \in Nat /\ staged.status \in Statuses
        /\ TypeOK
    BY <1>11, RoundTypes DEF CommitResult, RoundInv, TypeInv, TypeOK, ControlOK, Running
  <2>3. item \in Item /\ item.id = round[index].id /\ item.status = staged.status
    BY <2>2, ItemTypes DEF ResultItem
  <2>4. /\ Before(b + index + 1)
        /\ CASE staged.status \in {"succeeded", "failed"} -> b + index \in finished
             [] staged.status = "outcome_unknown" -> b + index \in started
             [] OTHER -> b + index \notin started
    BY <1>11, <2>1 DEF CommitResult, RoundInv, BegunOK
  <2>5. UNCHANGED history
    BY <1>11 DEF CommitResult
  <2>6. items' = items \/ items' = Append(items, item)
    BY <1>11 DEF CommitResult, Committed, CommitFailed
  <2>7. Facts'
    <3>1. CASE items' = items
      BY <2>5, <3>1, FactsStay DEF RoundInv
    <3>2. CASE items' = Append(items, item)
      <4>1. ASSUME NEW i \in 1 .. Len(items), Answers(items', Len(items) + 1, i) PROVE i = b + index
        BY <2>1, <2>2, <2>3, <3>2, <4>1, AnswersCurrent
      <4> QED
        BY <2>2, <2>3, <2>4, <2>5, <3>2, <4>1, FactsAppend DEF RoundInv
    <3> QED
      BY <2>6, <3>1, <3>2
  <2>8. \A i \in started' : i < b + index + 1
    BY <2>4, <2>5 DEF Before, history
  <2>9. CASE pc' = "cleanup" /\ UNCHANGED <<turn, round>> /\ index' = index + 1
    <3>1. b \in 0 .. Len(items') /\ Recorded(b, Len(round))' /\ Answered(b)'
      BY <2>1, <2>2, <2>6, <2>9, AnsweredNext
    <3>2. b + index + 1 = b + index'
      BY <2>2, <2>9
    <3>3. Before(b + index)'
      BY <2>8, <3>2 DEF Before
    <3>4. RoundOK' /\ BegunOK'
      BY <2>9, <3>1, <3>3 DEF RoundOK, BegunOK, Running
    <3> QED
      BY <1>0, <2>7, <3>4 DEF RoundInv
  <2>10. CASE pc' = "dispatch" /\ UNCHANGED <<turn, round>> /\ index' = index + 1 /\ Committed(item)
    <3>1. b \in 0 .. Len(items') /\ Recorded(b, Len(round))' /\ Answered(b)'
      BY <2>1, <2>2, <2>6, <2>10, AnsweredNext
    <3>2. Len(items') = Len(items) + 1 /\ Len(items) \in Nat
      BY <2>2, <2>3, <2>10, Appended DEF Committed
    <3>3. Len(items') = b + Len(round') + index' - 1
      BY <2>1, <2>2, <2>10, <3>2
    <3>4. CallPosition' = b + index + 1
      BY <2>1, <2>2, <2>10, <3>3 DEF CallPosition
    <3>5. RoundOK'
      BY <2>10, <3>1, <3>3 DEF RoundOK, Running
    <3>6. BegunOK'
      BY <2>8, <2>10, <3>4 DEF BegunOK, Before
    <3> QED
      BY <1>0, <2>7, <3>5, <3>6 DEF RoundInv
  <2>11. CASE pc' \notin InRound
    <3>1. RoundOK' /\ BegunOK'
      BY <2>11 DEF RoundOK, BegunOK, InRound, Running
    <3> QED
      BY <1>0, <2>7, <3>1 DEF RoundInv
  <2> QED
    <3>1. CASE CloseFrom(index + 1, staged.abort) \/ CloseFrom(index + 1, "error")
      BY <2>9, <3>1 DEF CloseFrom
    <3>2. CASE NextCall /\ Committed(item)
      BY <2>10, <3>2 DEF NextCall
    <3>3. CASE RoundClosed
      BY <2>11, <3>3 DEF RoundClosed, Return, InRound, Running
    <3> QED
      BY <1>11, <3>1, <3>2, <3>3 DEF CommitResult
<1>12. CASE CommitParentResult
  <2> DEFINE item == ResultItem(turn, round[index], "cancelled_parent")
  <2>1. PICK b \in 0 .. Len(items) : Recorded(b, Len(round)) /\ Answered(b) /\ Before(b + index)
    BY <1>12 DEF CommitParentResult, RoundInv, RoundOK
  <2>2. /\ round # << >> /\ index \in 1 .. Len(round) /\ round[index] \in Call
        /\ Len(round) \in Nat /\ items \in Seq(Item) /\ turn \in Nat /\ TypeOK
        /\ started \subseteq Int /\ "cancelled_parent" \in Statuses
    BY <1>12, RoundTypes DEF CommitParentResult, RoundInv, TypeInv, TypeOK, ControlOK, Statuses
  <2>3. item \in Item /\ item.id = round[index].id /\ item.status = "cancelled_parent"
    BY <2>2, ItemTypes DEF ResultItem
  <2>4. b + index \notin started /\ Before(b + index + 1)
    BY <2>1, <2>2 DEF Before
  <2>5. UNCHANGED history
    BY <1>12 DEF CommitParentResult
  <2>6. items' = items \/ items' = Append(items, item)
    BY <1>12 DEF CommitParentResult, Committed, CommitFailed
  <2>7. Facts'
    <3>1. CASE items' = items
      BY <2>5, <3>1, FactsStay DEF RoundInv
    <3>2. CASE items' = Append(items, item)
      <4>1. ASSUME NEW i \in 1 .. Len(items), Answers(items', Len(items) + 1, i) PROVE i = b + index
        BY <2>1, <2>2, <2>3, <3>2, <4>1, AnswersCurrent
      <4> QED
        BY <2>2, <2>3, <2>4, <2>5, <3>2, <4>1, FactsAppend DEF RoundInv
    <3> QED
      BY <2>6, <3>1, <3>2
  <2>8. pc' = "cleanup" /\ UNCHANGED <<turn, round>> /\ index' = index + 1
    BY <1>12 DEF CommitParentResult, CloseFrom
  <2>9. b \in 0 .. Len(items') /\ Recorded(b, Len(round))' /\ Answered(b)'
    BY <2>1, <2>2, <2>6, <2>8, AnsweredNext
  <2>10. Before(b + index)'
    <3>1. b + index + 1 = b + index'
      BY <2>2, <2>8
    <3>2. \A i \in started' : i < b + index + 1
      BY <2>4, <2>5 DEF Before, history
    <3> QED
      BY <3>1, <3>2 DEF Before
  <2>11. RoundOK' /\ BegunOK'
    BY <2>8, <2>9, <2>10 DEF RoundOK, BegunOK, Running
  <2> QED
    BY <1>0, <2>7, <2>11 DEF RoundInv
<1> QED
  BY <1>1, <1>2, <1>3, <1>4, <1>5, <1>6, <1>7, <1>8, <1>9, <1>10, <1>11, <1>12
  DEF Next, LoopStep, Answer

LEMMA RoundInit == ASSUME Init PROVE RoundInv
<1>1. items = << >> /\ started = {} /\ pc = "idle"
  BY DEF Init
<1>2. RoundOK /\ BegunOK
  BY <1>1 DEF RoundOK, BegunOK, Running
<1>3. Facts
  BY <1>1 DEF Facts, OnlyAuthorisedCallsStart, ResultsTellTheTruth
<1> QED
  BY <1>2, <1>3, InitType DEF RoundInv

LEMMA RoundInvariant == Spec => []RoundInv
BY RoundInit, RoundStep, PTL DEF Spec

(* An executor begins only for a call that is recorded, registered and      *)
(* allowed or granted (ToolRuntime::execute_call).                          *)
THEOREM OnlyAuthorised == Spec => []OnlyAuthorisedCallsStart
<1>1. RoundInv => OnlyAuthorisedCallsStart
  BY DEF RoundInv, Facts
<1> QED
  BY <1>1, RoundInvariant, PTL

(* A ToolResult says what was really executed (process_tool_round and       *)
(* commit_parent_results).                                                  *)
THEOREM TruthfulResults == Spec => []ResultsTellTheTruth
<1>1. RoundInv => ResultsTellTheTruth
  BY DEF RoundInv, Facts
<1> QED
  BY <1>1, RoundInvariant, PTL

-----------------------------------------------------------------------------
(* The log stays well formed.                                               *)

LogInv == RoundInv /\ OpenOK /\ LogWellFormed

(* While the calls of a round are recorded, a further one fits: what is     *)
(* open is of this round, and no result stands behind it.                   *)
LEMMA CallFits ==
    ASSUME TypeOK, NEW b \in 0 .. Len(items), Recorded(b, index - 1), Len(items) = b + index - 1,
           round # << >>, index \in 1 .. Len(round), OpenAt(items, b + 1) = {}
    PROVE  FitsAt(Append(items, CallItem(turn, round[index])), Len(items) + 1)
<1> DEFINE item == CallItem(turn, round[index])
           log == Append(items, item)
           n == Len(items) + 1
<1>1. /\ round \in Rounds /\ Len(round) \in Nat /\ Len(items) \in Nat /\ items \in Seq(Item)
      /\ item \in Item /\ item.kind = "call" /\ item.id = round[index].id
  BY RoundTypes, ItemTypes DEF TypeOK, CallItem
<1>2. log[n] = item /\ \A k \in 1 .. Len(items) : log[k] = items[k]
  BY <1>1, Appended
<1>3. OpenAt(log, n) = OpenCalls(items)
  BY <1>1, OpenAppend
<1> HIDE DEF log
<1>4. ASSUME NEW i \in OpenCalls(items)
      PROVE  i \in 1 .. Len(items) /\ i - b \in 1 .. index - 1
  <2>1. i \in 1 .. Len(items)
    BY <1>1 DEF OpenCalls, OpenAt
  <2>2. b + 1 \in 1 .. Len(items) + 1
    BY <1>1
  <2>3. ~ i < b + 1
    BY <1>1, <2>2, OpenBefore
  <2> QED
    BY <1>1, <2>1, <2>3
<1>5. \A k \in b + 1 .. Len(items) : items[k] = CallItem(turn, round[k - b])
  <2>1. \A k \in b + 1 .. Len(items) : k - b \in 1 .. index - 1 /\ b + (k - b) = k
    BY <1>1
  <2> QED
    BY <2>1 DEF Recorded
<1>6. ASSUME NEW i \in OpenCalls(items) PROVE log[i].id # item.id
  <2>1. i \in b + 1 .. Len(items) /\ i - b \in 1 .. Len(round) /\ i - b # index
    BY <1>1, <1>4
  <2>2. log[i].id = round[i - b].id
    <3>1. items[i] = CallItem(turn, round[i - b]) /\ log[i] = items[i]
      BY <1>2, <1>4, <1>5, <2>1
    <3> QED
      BY <3>1 DEF CallItem
  <2> QED
    BY <1>1, <2>1, <2>2, RoundsAreClassified
<1>7. ASSUME NEW i \in OpenCalls(items), NEW j \in i+1 .. n-1 PROVE ~ IsResult(log, j)
  <2>1. j \in b + 1 .. Len(items)
    BY <1>1, <1>4
  <2>2. items[j] = CallItem(turn, round[j - b]) /\ j \in 1 .. Len(items)
    BY <1>1, <1>5, <2>1
  <2>3. log[j] = CallItem(turn, round[j - b])
    BY <1>2, <2>2
  <2> QED
    BY <2>3 DEF CallItem, IsResult
<1> HIDE DEF item, n
<1>8. FitsAt(log, n)
  BY <1>1, <1>2, <1>3, <1>6, <1>7 DEF FitsAt
<1> QED
  BY <1>8 DEF log, item, n

(* The current call is open, and a result for it answers it.                *)
LEMMA ResultAnswers ==
    ASSUME TypeOK, round # << >>, index \in 1 .. Len(round),
           NEW b \in 0 .. Len(items), Recorded(b, Len(round)), Answered(b), NEW status \in Statuses
    PROVE  /\ b + index \in OpenCalls(items)
           /\ Answers(Append(items, ResultItem(turn, round[index], status)),
                      Len(items) + 1, b + index)
<1> DEFINE item == ResultItem(turn, round[index], status)
           log == Append(items, item)
           n == Len(items) + 1
           i == b + index
<1>1. /\ round \in Rounds /\ Len(round) \in Nat /\ Len(items) \in Nat /\ items \in Seq(Item)
      /\ item \in Item /\ item.kind = "result"
      /\ item.id = round[index].id /\ item.name = round[index].name
      /\ i \in 1 .. Len(items) /\ items[i] = CallItem(turn, round[index])
  BY RoundTypes, ItemTypes DEF TypeOK, ResultItem, Recorded
<1>2. log[n] = item /\ \A k \in 1 .. Len(items) : log[k] = items[k]
  BY <1>1, Appended
<1>3. \A j \in i+1 .. Len(items) : ~ Answers(items, j, i)
  BY <1>1, CurrentUnanswered
<1>4. i \in OpenCalls(items)
  BY <1>1, <1>3 DEF OpenCalls, OpenAt, IsCall, CallItem
<1>5. ASSUME NEW k \in i+1 .. Len(items) PROVE items[k].id # round[index].id
  <2>1. CASE k <= b + Len(round)
    <3>1. k - b \in 1 .. Len(round) /\ k - b # index /\ b + (k - b) = k
      BY <1>1, <2>1
    <3>2. items[k] = CallItem(turn, round[k - b])
      BY <3>1 DEF Recorded
    <3>3. items[k].id = round[k - b].id
      BY <3>2 DEF CallItem
    <3> QED
      BY <1>1, <3>1, <3>3, RoundsAreClassified
  <2>2. CASE k > b + Len(round)
    <3>1. k \in b + Len(round) + 1 .. Len(items)
      BY <1>1, <2>2
    <3>2. PICK c \in 1 .. index - 1 : items[k].id = round[c].id
      BY <3>1 DEF Answered
    <3>3. c \in 1 .. Len(round) /\ c # index
      BY <1>1
    <3> QED
      BY <1>1, <3>2, <3>3, RoundsAreClassified
  <2> QED
    BY <1>1, <2>1, <2>2
<1>6. /\ log[i] = CallItem(turn, round[index]) /\ i < n /\ log[n] = item
      /\ \A k \in i+1 .. n-1 : log[k].id # round[index].id
  BY <1>1, <1>2, <1>5
<1> HIDE DEF log, item, n, i
<1>7. Answers(log, n, i)
  BY <1>1, <1>6 DEF Answers, IsCall, IsResult, CallItem
<1> QED
  BY <1>4, <1>7 DEF log, item, n, i

LEMMA ResultFits ==
    ASSUME TypeOK, round # << >>, index \in 1 .. Len(round),
           NEW b \in 0 .. Len(items), Recorded(b, Len(round)), Answered(b), NEW status \in Statuses
    PROVE  FitsAt(Append(items, ResultItem(turn, round[index], status)), Len(items) + 1)
<1> DEFINE item == ResultItem(turn, round[index], status)
           log == Append(items, item)
<1>1. /\ items \in Seq(Item) /\ item \in Item /\ item.kind = "result"
  BY RoundTypes, ItemTypes DEF TypeOK, ResultItem
<1>2. log[Len(items) + 1].kind = "result" /\ OpenAt(log, Len(items) + 1) = OpenCalls(items)
  BY <1>1, Appended, OpenAppend
<1>3. \E i \in OpenCalls(items) : Answers(log, Len(items) + 1, i)
  BY ResultAnswers
<1> QED
  BY <1>2, <1>3 DEF FitsAt

(* A message fits where no call is open, and leaves none open.              *)
LEMMA MessageFits ==
    ASSUME NEW s \in Seq(Item), NEW item \in Item, item.kind \in {"user", "assistant"},
           OpenCalls(s) = {}
    PROVE  /\ FitsAt(Append(s, item), Len(s) + 1)
           /\ OpenCalls(Append(s, item)) = {}
<1>1. Append(s, item)[Len(s) + 1] = item
  BY Appended
<1> QED
  BY <1>1, OpenAppend DEF FitsAt

(* What `materialize` accepts has no open call.                             *)
LEMMA AcceptedClosed ==
    ASSUME NEW s \in Seq(Item), Materializes(s)
    PROVE  OpenCalls(s) = {}
BY MaterializeAgrees DEF Materializes

Accepted == {"started", "attempt", "model", "backoff", "finalize"}

LEMMA LogStep == LogInv /\ [Next]_vars => LogInv'
<1> SUFFICES ASSUME LogInv, [Next]_vars PROVE LogInv'
  OBVIOUS
<1>0. RoundInv' /\ TypeOK /\ TypeOK' /\ items \in Seq(Item) /\ Len(items) \in Nat
  BY RoundStep DEF LogInv, RoundInv, TypeInv, TypeOK
<1> USE DEF LogInv, LogWellFormed
<1>1. CASE UNCHANGED vars \/ Cancel
  BY <1>0, <1>1 DEF vars, Cancel, control, OpenOK
<1>2. CASE items' = items /\ pc' \notin Accepted \union {"record"}
  BY <1>0, <1>2 DEF OpenOK, Accepted
<1>3. CASE items' = items /\ pc' \in Accepted /\ (pc \in Accepted \/ Materializes(items))
  BY <1>0, <1>3, AcceptedClosed DEF OpenOK, Accepted
<1>4. CASE CommitPrompt
  <2> DEFINE item == PlainItem("user", turn)
  <2>1. item \in Item /\ item.kind = "user"
    BY <1>0, MessageType DEF PlainItem
  <2>2. CASE Committed(item) /\ pc' = "step"
    <3>1. OpenCalls(items) = {}
      BY <1>4 DEF CommitPrompt, OpenOK
    <3>2. WellFormed(items')
      BY <1>0, <2>1, <2>2, <3>1, MessageFits, WellFormedAppend DEF Committed
    <3> QED
      BY <1>0, <2>2, <3>2 DEF OpenOK
  <2>3. CASE items' = items /\ pc' = "idle"
    BY <1>2, <2>3 DEF Accepted
  <2> QED
    BY <1>4, <2>2, <2>3 DEF CommitPrompt, Cancelled, Return, Continue, NoCommit, CommitFailed
<1>5. CASE Finalize
  <2> DEFINE item == PlainItem("assistant", turn)
  <2>1. item \in Item /\ item.kind = "assistant"
    BY <1>0, MessageType DEF PlainItem
  <2>2. OpenCalls(items) = {}
    BY <1>5 DEF Finalize, OpenOK
  <2>3. items' = items \/ items' = Append(items, item)
    BY <1>5 DEF Finalize, NoCommit, Committed, CommitFailed
  <2>4. WellFormed(items') /\ OpenCalls(items') = {}
    BY <1>0, <2>1, <2>2, <2>3, MessageFits, WellFormedAppend
  <2>5. pc' = "idle" \/ (pc' = "record" /\ index' = 1)
    BY <1>5 DEF Finalize, AfterFinalize, Return
  <2>6. OpenOK'
    <3>1. Len(items') \in Nat
      BY <1>0 DEF TypeOK
    <3>2. Len(items') - 1 + 2 = Len(items') + 1
      BY <3>1
    <3> QED
      BY <2>4, <2>5, <3>2 DEF OpenOK, OpenCalls
  <2> QED
    BY <1>0, <2>4, <2>6
<1>6. CASE RecordCall
  <2> DEFINE item == CallItem(turn, round[index])
  <2>1. /\ round # << >> /\ index \in 1 .. Len(round) /\ round[index] \in Call
        /\ Len(round) \in Nat /\ turn \in Nat
    BY <1>6, RoundTypes DEF RecordCall, RoundInv, TypeInv, TypeOK, ControlOK
  <2>2. item \in Item
    BY <2>1, ItemTypes
  <2>3. CASE items' = items /\ pc' = "idle"
    BY <1>2, <2>3 DEF Accepted
  <2>4. CASE Committed(item) /\ (pc' = "dispatch" \/ (pc' = "record" /\ index' = index + 1))
    <3>1. PICK b \in 0 .. Len(items) : Recorded(b, index - 1) /\ Len(items) = b + index - 1
      BY <1>6 DEF RecordCall, RoundInv, RoundOK
    <3>2. Len(items) - index + 2 = b + 1 /\ b + 1 \in 1 .. Len(items) + 1
      BY <1>0, <2>1, <3>1
    <3>3. OpenAt(items, b + 1) = {}
      BY <1>6, <3>2 DEF RecordCall, OpenOK
    <3>4. WellFormed(items')
      BY <1>0, <2>1, <2>2, <2>4, <3>1, <3>3, CallFits, WellFormedAppend DEF Committed
    <3>5. OpenAt(items', b + 1) = {}
      BY <1>0, <2>2, <2>4, <3>2, <3>3, OpenStays DEF Committed
    <3>6. ASSUME pc' = "record" PROVE Len(items') - index' + 2 = b + 1
      <4>1. Len(items') = Len(items) + 1
        BY <1>0, <2>2, <2>4, Appended DEF Committed
      <4> QED
        BY <1>0, <2>1, <2>4, <3>2, <3>6, <4>1
    <3>7. OpenOK'
      BY <2>4, <3>5, <3>6 DEF OpenOK
    <3> QED
      BY <1>0, <3>4, <3>7
  <2> QED
    BY <1>6, <2>3, <2>4 DEF RecordCall, CommitFailed, Return
<1>7. CASE CommitResult \/ CommitParentResult
  <2>1. pc' \notin Accepted \union {"record"}
    BY <1>7 DEF CommitResult, CommitParentResult, CloseFrom, NextCall, RoundClosed, Return, Accepted
  <2>2. CASE items' = items
    BY <1>2, <2>1, <2>2
  <2>3. ASSUME NEW status \in Statuses, items' = Append(items, ResultItem(turn, round[index], status))
        PROVE  WellFormed(items')
    <3>1. round # << >> /\ index \in 1 .. Len(round) /\ round[index] \in Call /\ turn \in Nat
      BY <1>7, RoundTypes DEF CommitResult, CommitParentResult, RoundInv, TypeInv, TypeOK, ControlOK,
                              Running
    <3>2. PICK b \in 0 .. Len(items) : Recorded(b, Len(round)) /\ Answered(b)
      BY <1>7 DEF CommitResult, CommitParentResult, RoundInv, RoundOK, Running
    <3> QED
      BY <1>0, <2>3, <3>1, <3>2, ItemTypes, ResultFits, WellFormedAppend
  <2>4. \/ items' = items
        \/ \E status \in Statuses : items' = Append(items, ResultItem(turn, round[index], status))
    <3>1. CASE CommitResult
      BY <3>1 DEF CommitResult, Committed, CommitFailed, RoundInv, TypeInv, ControlOK
    <3>2. CASE CommitParentResult
      BY <3>2 DEF CommitParentResult, Committed, CommitFailed, Statuses
    <3> QED
      BY <1>7, <3>1, <3>2
  <2>5. WellFormed(items')
    BY <2>2, <2>3, <2>4
  <2> QED
    BY <1>0, <2>1, <2>5 DEF OpenOK, Accepted
<1>8. CASE Preflight \/ BeginStep \/ StartAttempt \/ ModelFails \/ Backoff
  BY <1>2, <1>3, <1>8 DEF Preflight, BeginStep, StartAttempt, ModelFails, Backoff,
       NoCommit, Cancelled, Return, Continue, Accepted, control
<1>9. CASE \/ StartTurn \/ Crash \/ Resume \/ ModelAnswers \/ ModelAnswersInvalid
           \/ ModelCancelled \/ CleanupDone
  BY <1>2, <1>3, <1>9 DEF StartTurn, Crash, Resume, ModelAnswers, ModelAnswersInvalid, ModelCancelled,
       CleanupDone, NoCommit, Cancelled, Return, Accepted
<1>10. CASE \/ Dispatch \/ ApprovalAnswered \/ ApprovalCancelled \/ Launch
            \/ ToolReturns \/ ToolErrors \/ ToolCancelled
  BY <1>2, <1>10 DEF Dispatch, ApprovalAnswered, ApprovalCancelled, Launch, ToolReturns, ToolErrors,
       ToolCancelled, NoCommit, Stage, Accepted
<1> QED
  BY <1>1, <1>4, <1>5, <1>6, <1>7, <1>8, <1>9, <1>10 DEF Next, LoopStep, Answer

LEMMA LogInvariant == Spec => []LogInv
<1>1. ASSUME Init PROVE LogInv
  <2>1. items = << >> /\ pc = "idle"
    BY <1>1 DEF Init
  <2> QED
    BY <1>1, <2>1, RoundInit DEF LogInv, OpenOK, LogWellFormed, WellFormed
<1> QED
  BY <1>1, LogStep, PTL DEF Spec

(* Whatever fails, is cancelled or dies, no append puts a message inside an *)
(* open round, opens a second round or answers a call twice or out of       *)
(* nothing (AgentLoop::turn, process_tool_round, commit_parent_results).    *)
THEOREM LogStaysWellFormed == Spec => []LogWellFormed
<1>1. LogInv => LogWellFormed
  BY DEF LogInv
<1> QED
  BY <1>1, LogInvariant, PTL

-----------------------------------------------------------------------------
(* The loop implements ToolRounds.                                          *)

UnbrokenInv == LogInv /\ UnbrokenOK

(* A failed append and a death are not forgotten.                           *)
LEMMA StaysBroken ==
    ASSUME TypeOK, [Next]_vars, Unbroken'
    PROVE  Unbroken /\ ~ CommitFailed /\ ~ Crash
<1>1. failures \in Nat /\ crashes \in Nat
  BY BoundsAreNatural DEF TypeOK
<1>2. ~ CommitFailed /\ ~ Crash
  BY <1>1 DEF CommitFailed, Crash, Unbroken
<1>3. UNCHANGED bounds
  BY <1>2 DEF Next, LoopStep, Answer, StartTurn, Cancel, Resume, Preflight, CommitPrompt, BeginStep,
       StartAttempt, ModelAnswers, ModelAnswersInvalid, ModelFails, ModelCancelled, Backoff,
       Finalize, RecordCall, Dispatch, ApprovalAnswered, ApprovalCancelled, Launch, ToolReturns,
       ToolErrors, ToolCancelled, CommitResult, CommitParentResult, CleanupDone, NoCommit,
       Committed, vars
<1> QED
  BY <1>2, <1>3 DEF Unbroken, bounds

Within == Running \union {"record", "cleanup"}

(* A result that is appended closes the current call and no other.          *)
LEMMA ResultCloses ==
    ASSUME TypeOK, round # << >>, index \in 1 .. Len(round),
           NEW b \in 0 .. Len(items), Recorded(b, Len(round)), Answered(b),
           OpenCalls(items) = b + index .. b + Len(round),
           NEW status \in Statuses, items' = Append(items, ResultItem(turn, round[index], status))
    PROVE  OpenCalls(items') = b + index + 1 .. b + Len(round) /\ Len(items') = Len(items) + 1
<1> DEFINE item == ResultItem(turn, round[index], status)
           n == Len(items) + 1
<1>1. /\ items \in Seq(Item) /\ item \in Item /\ item.kind = "result" /\ item.id = round[index].id
      /\ Len(round) \in Nat
  BY RoundTypes, ItemTypes DEF TypeOK, ResultItem
<1>2. OpenCalls(items') = {i \in OpenCalls(items) : ~ Answers(items', n, i)}
  BY <1>1, OpenAppend
<1>3. Answers(items', n, b + index)
  BY ResultAnswers
<1>4. ASSUME NEW i \in OpenCalls(items), Answers(items', n, i) PROVE i = b + index
  <2>1. i \in 1 .. Len(items)
    BY <1>1 DEF OpenCalls, OpenAt
  <2> QED
    BY <1>1, <1>4, <2>1, AnswersCurrent
<1>5. Len(items') = Len(items) + 1
  BY <1>1, Appended
<1> HIDE DEF item, n
<1>6. OpenCalls(items') = {i \in b + index .. b + Len(round) : i # b + index}
  BY <1>2, <1>3, <1>4
<1>7. {i \in b + index .. b + Len(round) : i # b + index} = b + index + 1 .. b + Len(round)
  <2>1. b \in Int /\ index \in Int /\ Len(round) \in Int
    BY <1>1
  <2>2. \A x, y \in Int : {i \in x .. y : i # x} = x + 1 .. y
    OBVIOUS
  <2> QED
    BY <2>1, <2>2
<1> QED
  BY <1>5, <1>6, <1>7

LEMMA UnbrokenStep == UnbrokenInv /\ [Next]_vars => UnbrokenInv'
<1> SUFFICES ASSUME UnbrokenInv, [Next]_vars PROVE UnbrokenInv'
  OBVIOUS
<1>0. /\ LogInv /\ LogInv' /\ RoundInv /\ RoundInv' /\ TypeOK /\ TypeOK'
      /\ items \in Seq(Item) /\ Len(items) \in Nat
  BY LogStep DEF UnbrokenInv, LogInv, RoundInv, TypeInv, TypeOK
<1> SUFFICES ASSUME Unbroken' PROVE UnbrokenOK'
  BY <1>0 DEF UnbrokenInv, UnbrokenOK
<1>00. Unbroken /\ UnbrokenOK /\ ~ CommitFailed /\ ~ Crash /\ pc # "down"
  BY <1>0, StaysBroken DEF UnbrokenInv, UnbrokenOK
<1>1. CASE UNCHANGED vars \/ Cancel
  BY <1>00, <1>1 DEF vars, Cancel, control, UnbrokenOK, Recorded, Answered, Unbroken
<1>2. CASE /\ items' = items /\ pc \notin Within /\ pc' \notin Within \union {"down"}
  BY <1>00, <1>2 DEF UnbrokenOK, Within, Running
<1>3. CASE UNCHANGED <<items, turn, round, index>> /\ pc \in Running /\ pc' \in Running
  BY <1>00, <1>3 DEF UnbrokenOK, Running, Recorded, Answered
<1>4. CASE CommitPrompt
  <2>1. CASE Committed(PlainItem("user", turn)) /\ pc' = "step"
    <3>1. OpenCalls(items) = {}
      BY <1>00, <1>4 DEF CommitPrompt, UnbrokenOK, Running
    <3>2. OpenCalls(items') = {}
      BY <1>0, <2>1, <3>1, MessageType, MessageFits DEF Committed, PlainItem
    <3> QED
      BY <2>1, <3>2 DEF UnbrokenOK, Running
  <2>2. CASE items' = items /\ pc' = "idle"
    BY <1>2, <1>4, <2>2 DEF CommitPrompt, Within, Running
  <2> QED
    BY <1>00, <1>4, <2>1, <2>2 DEF CommitPrompt, Cancelled, Return, Continue, NoCommit
<1>5. CASE Finalize
  <2>1. OpenCalls(items) = {}
    BY <1>00, <1>5 DEF Finalize, UnbrokenOK, Running
  <2>2. items' = items \/ items' = Append(items, PlainItem("assistant", turn))
    BY <1>00, <1>5 DEF Finalize, NoCommit, Committed
  <2>3. OpenCalls(items') = {}
    BY <1>0, <2>1, <2>2, MessageType, MessageFits DEF PlainItem
  <2>4. pc' = "idle" \/ (pc' = "record" /\ index' = 1)
    BY <1>5 DEF Finalize, AfterFinalize, Return
  <2>5. Len(items') - 1 + 2 .. Len(items') = {}
    <3>1. Len(items') \in Nat
      BY <1>0 DEF TypeOK
    <3> QED
      BY <3>1
  <2> QED
    BY <2>3, <2>4, <2>5 DEF UnbrokenOK, Running
<1>6. CASE RecordCall
  <2> DEFINE item == CallItem(turn, round[index])
  <2>1. /\ round # << >> /\ index \in 1 .. Len(round) /\ round[index] \in Call
        /\ Len(round) \in Nat /\ turn \in Nat
    <3>1. round \in Rounds \union {<< >>} /\ index \in 0 .. Len(round) + 1 /\ turn \in Nat
      BY <1>0 DEF RoundInv, TypeInv, TypeOK
    <3>2. round # << >> /\ index >= 1 /\ index <= Len(round)
      BY <1>0, <1>6 DEF RecordCall, RoundInv, TypeInv, ControlOK
    <3>3. Len(round) \in Nat /\ \A k \in 1 .. Len(round) : round[k] \in Call
      BY <3>1, RoundTypes
    <3>4. index \in 1 .. Len(round)
      BY <3>1, <3>2, <3>3
    <3> QED
      BY <3>1, <3>2, <3>3, <3>4
  <2>2. item \in Item /\ item.kind = "call"
    BY <2>1, ItemTypes DEF CallItem
  <2>3. /\ items' = Append(items, item) /\ round' = round
        /\ \/ index < Len(round) /\ pc' = "record" /\ index' = index + 1
           \/ index = Len(round) /\ pc' = "dispatch" /\ index' = 1
    BY <1>00, <1>6, <2>1 DEF RecordCall, Committed
  <2>4. OpenCalls(items) = Len(items) - index + 2 .. Len(items)
    BY <1>00, <1>6 DEF RecordCall, UnbrokenOK
  <2>5. Len(items') = Len(items) + 1 /\ ~ IsResult(items', Len(items) + 1)
    BY <1>0, <2>2, <2>3, Appended DEF IsResult
  <2>6. OpenCalls(items') = OpenCalls(items) \union {Len(items) + 1}
    BY <1>0, <2>2, <2>3, <2>5, OpenAppend DEF Answers
  <2>7. OpenCalls(items') = Len(items) - index + 2 .. Len(items) + 1
    BY <1>0, <2>1, <2>4, <2>6
  <2>8. CASE pc' = "record" /\ index' = index + 1
    <3>1. Len(items') - index' + 2 = Len(items) - index + 2
      BY <1>0, <2>1, <2>5, <2>8
    <3> QED
      BY <2>5, <2>7, <2>8, <3>1 DEF UnbrokenOK, Running
  <2>9. CASE index = Len(round) /\ pc' = "dispatch" /\ index' = 1
    <3>1. PICK b \in 0 .. Len(items') : /\ Recorded(b, Len(round))' /\ Answered(b)'
                                        /\ Len(items') = b + Len(round') + index' - 1
      BY <1>0, <2>9 DEF RoundInv, RoundOK, Running
    <3>2. b + index' = Len(items) - index + 2 /\ b + Len(round') = Len(items) + 1
      BY <1>0, <2>1, <2>3, <2>5, <2>9, <3>1
    <3> QED
      BY <2>7, <2>9, <3>1, <3>2 DEF UnbrokenOK, Running
  <2> QED
    BY <2>3, <2>8, <2>9
<1>7. CASE CommitResult \/ CommitParentResult
  <2>1. PICK b \in 0 .. Len(items) : /\ Recorded(b, Len(round)) /\ Answered(b)
                                     /\ Len(items) = b + Len(round) + index - 1
                                     /\ OpenCalls(items) = b + index .. b + Len(round)
    BY <1>00, <1>7 DEF CommitResult, CommitParentResult, UnbrokenOK, Running
  <2>2. round # << >> /\ index \in 1 .. Len(round) /\ Len(round) \in Nat
    <3>1. index \in Nat /\ Len(round) \in Nat
      BY <1>0, RoundTypes DEF TypeOK
    <3>2. round # << >> /\ index >= 1 /\ index <= Len(round)
      BY <1>0, <1>7 DEF CommitResult, CommitParentResult, RoundInv, TypeInv, ControlOK, Running
    <3> QED
      BY <3>1, <3>2
  <2>3. PICK status \in Statuses : items' = Append(items, ResultItem(turn, round[index], status))
    <3>1. CASE CommitResult
      BY <1>0, <1>00, <3>1 DEF CommitResult, Committed, RoundInv, TypeInv, ControlOK
    <3>2. CASE CommitParentResult
      BY <1>00, <3>2 DEF CommitParentResult, Committed, Statuses
    <3> QED
      BY <1>7, <3>1, <3>2
  <2>4. OpenCalls(items') = b + index + 1 .. b + Len(round) /\ Len(items') = Len(items) + 1
    BY <1>0, <2>1, <2>2, <2>3, ResultCloses
  <2>5. CASE UNCHANGED <<turn, round>> /\ index' = index + 1 /\ pc' \in {"cleanup", "dispatch"}
    <3>1. b \in 0 .. Len(items') /\ Recorded(b, Len(round))' /\ Answered(b)'
      BY <1>0, <2>1, <2>2, <2>3, <2>5, AnsweredNext
    <3>2. Len(items') = b + Len(round') + index' - 1 /\ b + index' = b + index + 1
      BY <2>1, <2>2, <2>4, <2>5
    <3>3. OpenCalls(items') = b + index' .. b + Len(round')
      BY <2>4, <2>5, <3>2
    <3> QED
      BY <2>5, <3>1, <3>2, <3>3 DEF UnbrokenOK, Running
  <2>6. CASE index = Len(round) /\ pc' \in {"idle", "step"}
    <3>1. OpenCalls(items') = {}
      BY <2>1, <2>2, <2>4, <2>6
    <3> QED
      BY <2>6, <3>1 DEF UnbrokenOK, Running
  <2> QED
    BY <1>00, <1>7, <2>5, <2>6 DEF CommitResult, CommitParentResult, CloseFrom, NextCall,
                                   RoundClosed, Return
<1>8. CASE CleanupDone
  <2>1. PICK b \in 0 .. Len(items) : OpenCalls(items) = b + index .. b + Len(round)
    BY <1>00, <1>8 DEF CleanupDone, UnbrokenOK
  <2>2. OpenCalls(items) = {}
    <3>1. index \in Nat /\ Len(round) \in Nat /\ index > Len(round)
      BY <1>0, <1>8, RoundTypes DEF CleanupDone, TypeOK
    <3> QED
      BY <2>1, <3>1
  <2>3. items' = items /\ pc' = "idle"
    BY <1>8 DEF CleanupDone, NoCommit, Return
  <2> QED
    BY <2>2, <2>3 DEF UnbrokenOK, Running
<1>9. CASE \/ StartTurn \/ Resume \/ Preflight \/ BeginStep \/ StartAttempt \/ ModelAnswers
           \/ ModelAnswersInvalid \/ ModelFails \/ ModelCancelled \/ Backoff
  BY <1>00, <1>2, <1>9 DEF StartTurn, Resume, Preflight, BeginStep, StartAttempt, ModelAnswers,
       ModelAnswersInvalid, ModelFails, ModelCancelled, Backoff, NoCommit, Cancelled, Return,
       Continue, Within, Running
<1>10. CASE \/ Dispatch \/ ApprovalAnswered \/ ApprovalCancelled \/ Launch
            \/ ToolReturns \/ ToolErrors \/ ToolCancelled
  BY <1>3, <1>10 DEF Dispatch, ApprovalAnswered, ApprovalCancelled, Launch, ToolReturns, ToolErrors,
       ToolCancelled, NoCommit, Stage, Running, control
<1> QED
  BY <1>00, <1>1, <1>4, <1>5, <1>6, <1>7, <1>8, <1>9, <1>10 DEF Next, LoopStep, Answer

LEMMA UnbrokenInvariant == Spec => []UnbrokenInv
<1>1. ASSUME Init PROVE UnbrokenInv
  <2>1. items = << >> /\ pc = "idle" /\ RoundInv
    BY <1>1, RoundInit DEF Init
  <2> QED
    BY <2>1 DEF UnbrokenInv, LogInv, OpenOK, LogWellFormed, WellFormed, UnbrokenOK, Running,
                OpenCalls, OpenAt
<1> QED
  BY <1>1, UnbrokenStep, PTL DEF Spec

(* What a step does to the log while nothing broke.                         *)
Says ==
    /\ pc # "idle" /\ OpenCalls(items) = {}
    /\ \E item \in Item : item.kind \in {"user", "assistant"} /\ items' = Append(items, item)

Records ==
    /\ pc # "idle" /\ pc' # "idle" /\ turn \in Nat /\ round[index] \in Call
    /\ items' = Append(items, CallItem(turn, round[index]))

Resolves ==
    /\ pc # "idle" /\ turn \in Nat /\ round[index] \in Call
    /\ \E status \in Statuses : items' = Append(items, ResultItem(turn, round[index], status))

LEMMA UnbrokenSteps ==
    ASSUME UnbrokenInv, [Next]_vars, Unbroken'
    PROVE  items' = items \/ Says \/ Records \/ Resolves
<1>0. TypeOK /\ ControlOK /\ UnbrokenOK /\ turn \in Nat
  BY DEF UnbrokenInv, LogInv, RoundInv, TypeInv, TypeOK
<1>00. Unbroken /\ ~ CommitFailed /\ ~ Crash
  BY <1>0, StaysBroken
<1>1. CASE CommitPrompt
  <2>1. pc = "started" /\ OpenCalls(items) = {}
    BY <1>0, <1>00, <1>1 DEF CommitPrompt, UnbrokenOK, Running
  <2> QED
    BY <1>0, <1>00, <1>1, <2>1, MessageType DEF CommitPrompt, NoCommit, Committed, Says, PlainItem
<1>2. CASE Finalize
  <2>1. pc = "finalize" /\ OpenCalls(items) = {}
    BY <1>0, <1>00, <1>2 DEF Finalize, UnbrokenOK, Running
  <2> QED
    BY <1>0, <1>00, <1>2, <2>1, MessageType DEF Finalize, NoCommit, Committed, Says, PlainItem
<1>3. ASSUME pc \in {"record", "commit_result"} \/ (pc = "cleanup" /\ index <= Len(round))
      PROVE  round[index] \in Call
  <2>1. index \in Nat /\ Len(round) \in Nat
    BY <1>0, RoundTypes DEF TypeOK
  <2>2. index >= 1 /\ index <= Len(round)
    BY <1>0, <1>3 DEF ControlOK, Running
  <2>3. index \in 1 .. Len(round)
    BY <2>1, <2>2
  <2> QED
    BY <1>0, <2>3, RoundTypes DEF TypeOK
<1>4. CASE RecordCall
  BY <1>0, <1>00, <1>3, <1>4 DEF RecordCall, Committed, Records
<1>5. CASE CommitResult
  BY <1>0, <1>00, <1>3, <1>5 DEF CommitResult, Committed, Resolves, ControlOK
<1>6. CASE CommitParentResult
  BY <1>0, <1>00, <1>3, <1>6 DEF CommitParentResult, Committed, Resolves, Statuses
<1>7. CASE UNCHANGED vars
  BY <1>7 DEF vars
<1>8. CASE /\ Next
           /\ ~ (CommitPrompt \/ Finalize \/ RecordCall \/ CommitResult \/ CommitParentResult)
  BY <1>8 DEF Next, LoopStep, Answer, StartTurn, Cancel, Crash, Resume, Preflight, BeginStep,
     StartAttempt, ModelAnswers, ModelAnswersInvalid, ModelFails, ModelCancelled, Backoff, Dispatch,
     ApprovalAnswered, ApprovalCancelled, Launch, ToolReturns, ToolErrors, ToolCancelled,
     CleanupDone, NoCommit
<1> QED
  BY <1>1, <1>2, <1>4, <1>5, <1>6, <1>7, <1>8

(* What the machine knows of a log the loop has written.                    *)
LEMMA MachineNow ==
    ASSUME UnbrokenInv
    PROVE  /\ materialize(items) \in Machines /\ materialize(items).phase # "error"
           /\ OpenCalls(items) = {} =>
                materialize(items).phase = "idle" /\ materialize(items).pending = {}
<1>1. items \in Seq(Item) /\ WellFormed(items)
  BY DEF UnbrokenInv, LogInv, LogWellFormed, RoundInv, TypeInv, TypeOK
<1>2. materialize(items).phase # "error"
  BY <1>1, MaterializeAgrees
<1>3. materialize(items) \in Machines
  BY <1>1, MachineTracks DEF Tracks
<1>4. OpenCalls(items) = {} => materialize(items).phase = "idle" /\ materialize(items).pending = {}
  BY <1>1, <1>2, MaterializeAgrees
<1> QED
  BY <1>2, <1>3, <1>4

LEMMA ProtocolStep ==
    ASSUME UnbrokenInv, UnbrokenInv', [Next]_vars
    PROVE  [Protocol!Next]_(Protocol!vars)
<1>0. /\ TypeOK /\ TypeOK' /\ UnbrokenOK' /\ items \in Seq(Item)
  BY DEF UnbrokenInv, LogInv, RoundInv, TypeInv, TypeOK
<1>00. /\ materialize(items) \in Machines /\ materialize(items).phase # "error"
       /\ OpenCalls(items) = {} =>
            materialize(items).phase = "idle" /\ materialize(items).pending = {}
  BY MachineNow
<1>000. /\ materialize(items') \in Machines /\ materialize(items').phase # "error"
        /\ OpenCalls(items') = {} =>
             materialize(items').phase = "idle" /\ materialize(items').pending = {}
  <2>1. items' \in Seq(Item) /\ WellFormed(items')
    BY DEF UnbrokenInv, LogInv, LogWellFormed, RoundInv, TypeInv, TypeOK
  <2>2. materialize(items').phase # "error"
    BY <2>1, MaterializeAgrees
  <2> QED
    BY <2>1, <2>2, MaterializeAgrees, MachineTracks DEF Tracks
<1>1. CASE ~ Unbroken
  <2>1. ~ Unbroken'
    BY <1>0, <1>1, StaysBroken
  <2> QED
    BY <1>1, <2>1 DEF Protocol!vars
<1>2. CASE Unbroken /\ ~ Unbroken'
  BY <1>2 DEF Protocol!Next, Protocol!Break
<1>3. CASE Unbroken /\ Unbroken' /\ items' = items
  <2>1. CASE (pc = "idle") = (pc' = "idle")
    BY <1>3, <2>1 DEF Protocol!vars
  <2>2. CASE pc = "idle" /\ pc' # "idle"
    <3>1. OpenCalls(items) = {}
      BY <1>3, <2>2 DEF UnbrokenInv, UnbrokenOK, Running
    <3> QED
      BY <1>00, <1>3, <2>2, <3>1 DEF Protocol!Next, Protocol!Begin
  <2>3. CASE pc # "idle" /\ pc' = "idle"
    <3>1. OpenCalls(items') = {}
      BY <1>0, <1>3, <2>3 DEF UnbrokenOK, Running
    <3> QED
      BY <1>00, <1>3, <2>3, <3>1 DEF Protocol!Next, Protocol!End
  <2> QED
    BY <2>1, <2>2, <2>3
<1>4. CASE Unbroken /\ Unbroken' /\ Says
  <2>1. PICK item \in Item : item.kind \in {"user", "assistant"} /\ items' = Append(items, item)
    BY <1>4 DEF Says
  <2>2. OpenCalls(items) = {} /\ OpenCalls(items') = {} /\ pc # "idle"
    BY <1>0, <1>4, <2>1, MessageFits DEF Says
  <2>3. /\ materialize(items').phase = materialize(items).phase
        /\ materialize(items').pending = materialize(items).pending
    BY <1>00, <1>000, <2>2
  <2>4. CASE pc' # "idle"
    BY <1>4, <2>2, <2>3, <2>4 DEF Protocol!vars
  <2>5. CASE pc' = "idle"
    BY <1>00, <1>4, <2>2, <2>3, <2>5 DEF Protocol!Next, Protocol!End
  <2> QED
    BY <2>4, <2>5
<1>5. CASE Unbroken /\ Unbroken' /\ Records
  <2> DEFINE call == round[index]
             item == CallItem(turn, call)
             m == materialize(items)
             next == materialize(items')
  <2>1. /\ call \in Call /\ item \in Item /\ item.kind = "call"
        /\ call = [id |-> item.id, name |-> item.name]
    BY <1>5, ItemTypes DEF Records, CallItem, Call
  <2>2. next = MaterializeStep(m, item)
    BY <1>0, <1>5, <2>1, MaterializeAppend DEF Records
  <2>3. Fresh(m, item) /\ next.phase = "calls" /\ next.pending = m.pending \union {call}
    BY <1>00, <1>000, <2>1, <2>2, CallStep
  <2>4. m.phase \in {"idle", "calls"} /\ call \notin m.pending
    BY <2>1, <2>3 DEF Fresh
  <2>5. Protocol!Record(call)
    BY <1>5, <2>3, <2>4 DEF Records, Protocol!Record
  <2> QED
    BY <2>1, <2>5 DEF Protocol!Next
<1>6. CASE Unbroken /\ Unbroken' /\ Resolves
  <2>1. PICK status \in Statuses : items' = Append(items, ResultItem(turn, round[index], status))
    BY <1>6 DEF Resolves
  <2> DEFINE call == round[index]
             item == ResultItem(turn, call, status)
             m == materialize(items)
             next == materialize(items')
  <2>2. /\ call \in Call /\ item \in Item /\ item.kind = "result"
        /\ call = [id |-> item.id, name |-> item.name]
    BY <1>6, ItemTypes DEF Resolves, ResultItem, Call
  <2>3. next = MaterializeStep(m, item)
    BY <1>0, <2>1, <2>2, MaterializeAppend
  <2>4. /\ Expected(m, item) /\ next.pending = m.pending \ {call}
        /\ next.phase = IF m.pending = {call} THEN "idle" ELSE "results"
    BY <1>00, <1>000, <2>2, <2>3, ResultStep
  <2>5. call \in m.pending /\ (m.pending = {call} <=> next.pending = {})
    BY <2>2, <2>4 DEF Expected
  <2>6. pc' = "idle" => next.pending = {}
    BY <1>0, <1>000, <1>6 DEF UnbrokenOK, Running
  <2>7. Protocol!Close(call)
    BY <1>6, <2>4, <2>5, <2>6 DEF Resolves, Protocol!Close
  <2> QED
    BY <2>2, <2>7 DEF Protocol!Next
<1> QED
  BY <1>1, <1>2, <1>3, <1>4, <1>5, <1>6, UnbrokenSteps

(* As long as no append fails and the process lives, every step of the loop *)
(* is one of the abstract tool-round protocol, or none: a round records all *)
(* its calls, each is answered once, and no Turn ends before that.          *)
THEOREM LoopImplementsRounds == Spec => ImplementsToolRounds
<1>1. ASSUME Init PROVE Protocol!Init
  <2>1. items = << >> /\ pc = "idle" /\ Unbroken
    BY <1>1 DEF Init, Unbroken
  <2> QED
    BY <2>1, MaterializeEmpty DEF Protocol!Init, Idle
<1> QED
  BY <1>1, ProtocolStep, UnbrokenInvariant, PTL DEF Spec, ImplementsToolRounds, Protocol!Spec

-----------------------------------------------------------------------------
(* Only Launch begins an execution.                                         *)
LEMMA OnlyLaunchBegins ==
    ASSUME Next, pc # "executing", pc' = "executing"
    PROVE  Launch
BY DEF Next, LoopStep, Answer, StartTurn, Cancel, Crash, Resume, Preflight, CommitPrompt, BeginStep,
       StartAttempt, ModelAnswers, ModelAnswersInvalid, ModelFails, ModelCancelled, Backoff,
       Finalize, AfterFinalize, RecordCall, Dispatch, ApprovalAnswered, ApprovalCancelled,
       ToolReturns, ToolErrors, ToolCancelled, CommitResult, CommitParentResult, CleanupDone,
       NextCall, RoundClosed, CloseFrom, Return, Continue, Cancelled, Stage, control

(* No call is executed twice, whatever is retried, cancelled or restarted   *)
(* (process_tool_round, after a crash SessionStore::load).                  *)
THEOREM ExecutedOnce == Spec => NoSecondExecution
<1>1. ASSUME RoundInv, [Next]_vars
      PROVE  [pc # "executing" /\ pc' = "executing" => CallPosition \notin started]_vars
  <2>1. CASE UNCHANGED vars
    BY <2>1
  <2>2. ASSUME Next, pc # "executing", pc' = "executing" PROVE CallPosition \notin started
    BY <1>1, <2>2, OnlyLaunchBegins, BeforeNext DEF Launch
  <2> QED
    BY <1>1, <2>1, <2>2
<1> QED
  BY <1>1, RoundInvariant, PTL DEF Spec, NoSecondExecution

(* No executor begins once the Turn is cancelled (await_or_cancelled before *)
(* Tool::execute).                                                          *)
THEOREM NoneStartsCancelled == Spec => NoStartAfterCancel
<1>1. ASSUME [Next]_vars PROVE [cancelled => started' = started]_vars
  <2>1. CASE UNCHANGED vars
    BY <2>1
  <2>2. ASSUME Next, cancelled PROVE started' = started
    BY <2>2 DEF Next, LoopStep, Answer, StartTurn, Cancel, Crash, Resume, Preflight, CommitPrompt,
                BeginStep, StartAttempt, ModelAnswers, ModelAnswersInvalid, ModelFails,
                ModelCancelled, Backoff, Finalize, RecordCall, Dispatch, ApprovalAnswered,
                ApprovalCancelled, Launch, ToolReturns, ToolErrors, ToolCancelled,
                CommitResult, CommitParentResult, CleanupDone, history
  <2> QED
    BY <1>1, <2>1, <2>2
<1> QED
  BY <1>1, PTL DEF Spec, NoStartAfterCancel
=============================================================================
