--------------------------- MODULE TailGrantProofs ---------------------------
(***************************************************************************)
(* Theorems about TailGrant: the managers run as TagManager specifies, so  *)
(* what is proved of them holds with real grant workflows; the grants live *)
(* as GrantLifecycle promises with real managers; and what only the two    *)
(* together give: no access without approval.                              *)
(*                                                                         *)
(* GP and MP are the parts with the lemmas about them.                     *)
(***************************************************************************)
EXTENDS TailGrant, TLAPS

GP == INSTANCE GrantWorkflowProofs

MP == INSTANCE TagManagerLedgerProofs
        WITH pc <- mpc, phase <- [g \in Grants |-> Phase(g)], tries <- attempt

-----------------------------------------------------------------------------
(* The parts and the whole.                                                *)

(* The grants' constants are as GrantWorkflow assumes.                     *)
LEMMA GrantsAssumed == GP!GrantsAssumption /\ GP!LimitsAssumption
BY GrantsAssumption, LimitsAssumption, TagGrantsOnly
   DEF GP!GrantsAssumption, GP!LimitsAssumption

(* The managers' constants are as TagManager assumes.                      *)
LEMMA ManagersAssumed ==
  MP!SetsAssumption /\ MP!AssetsAssumption /\ MP!LimitsAssumption
BY DevicesAssumption, LimitsAssumption
   DEF MP!SetsAssumption, MP!AssetsAssumption, MP!LimitsAssumption, M!GrantAssets,
       MP!GrantAssets

(* GP and MP speak of the same actions as G and M do.                      *)
LEMMA SamePerson == ASSUME NEW g \in Grants, G!Person(g) PROVE GP!Person(g)
BY DEF G!Person, GP!Person, G!HandleCreateGrant, GP!HandleCreateGrant,
       G!CheckApprove, GP!CheckApprove, G!SendApprove, GP!SendApprove,
       G!HandleDenyGrant, GP!HandleDenyGrant, G!HandleRevokeGrant,
       GP!HandleRevokeGrant, G!HandleExtendGrant, GP!HandleExtendGrant,
       G!TerminateApproval, GP!TerminateApproval,
       G!Signal, GP!Signal, G!Goto, GP!Goto, G!Wakes, GP!Wakes, G!Durations,
       GP!Durations, G!Open, GP!Open, G!APCs, GP!APCs, G!Running, GP!Running,
       G!Waiting, GP!Waiting, G!stateVars, GP!stateVars, G!waitVars,
       GP!waitVars, G!childVars, GP!childVars, G!worldVars, GP!worldVars,
       G!retryVars, GP!retryVars

(* What a workflow does, in both namings.                                  *)
LEMMA SameWorkflow == ASSUME NEW g \in Grants, G!Workflow(g) PROVE GP!Workflow(g)
BY DEF G!Workflow, GP!Workflow, G!Start, GP!Start, G!BlockApproval,
       GP!BlockApproval, G!ReceiveApprove, GP!ReceiveApprove, G!ReceiveDeny,
       GP!ReceiveDeny, G!ApprovalTimerFires, GP!ApprovalTimerFires,
       G!ApprovalReturns, GP!ApprovalReturns,
       G!SignalWithStartDeviceTagManager, GP!SignalWithStartDeviceTagManager,
       G!GetUser, GP!GetUser, G!SetUserRole, GP!SetUserRole, G!RestoreUser,
       GP!RestoreUser, G!Activate, GP!Activate, G!Block, GP!Block,
       G!TimerFires, GP!TimerFires, G!Expire, GP!Expire, G!Revoke, GP!Revoke,
       G!Extend, GP!Extend, G!RevertUserRole, GP!RevertUserRole, G!SuspendUser,
       GP!SuspendUser, G!SignalRemoveGrant, GP!SignalRemoveGrant,
       G!ApproveReady, GP!ApproveReady, G!DenyReady, GP!DenyReady,
       G!TimeoutReady, GP!TimeoutReady, G!MayApprove, GP!MayApprove,
       G!ApprovalQuiet, GP!ApprovalQuiet, G!Activation, GP!Activation,
       G!Deactivation, GP!Deactivation, G!NeedsApproval, GP!NeedsApproval,
       G!Succeed, GP!Succeed, G!Fail, GP!Fail, G!RetriesLeft, GP!RetriesLeft,
       G!Call, GP!Call, G!SetRole, GP!SetRole, G!Restored, GP!Restored,
       G!Suspended, GP!Suspended, G!RoleToRestore, GP!RoleToRestore,
       G!LoopQuiet, GP!LoopQuiet, G!Arm, GP!Arm, G!RevokeReady, GP!RevokeReady,
       G!ExtendReady, GP!ExtendReady, G!Clamped, GP!Clamped, G!Goto, GP!Goto,
       G!Wakes, GP!Wakes, G!Open, GP!Open, G!APCs, GP!APCs, G!stateVars,
       GP!stateVars, G!waitVars, GP!waitVars, G!childVars, GP!childVars,
       G!worldVars, GP!worldVars, G!retryVars, GP!retryVars

(* The passing of time.                                                    *)
LEMMA SameTick == G!Tick => GP!Tick
BY DEF G!Tick, GP!Tick, G!Elapse, GP!Elapse, G!stateVars, GP!stateVars,
       G!waitVars, GP!waitVars, G!childVars, GP!childVars, G!worldVars,
       GP!worldVars, G!retryVars, GP!retryVars

(* What people, grants and the reconciler do to the managers.              *)
LEMMA SameEnvironment == M!Environment => MP!Environment
BY DEF M!Environment, MP!Environment, M!StartAdding, MP!StartAdding, M!SendAdd,
       MP!SendAdd, M!SendAddFails, MP!SendAddFails, M!SendRemove,
       MP!SendRemove, M!SendSync, MP!SendSync, M!AdminEdit, MP!AdminEdit,
       M!DeliverAdd, MP!DeliverAdd, M!DeliverSync, MP!DeliverSync, M!Wake,
       MP!Wake, M!RetriesLeft, MP!RetriesLeft, M!grantVars, MP!grantVars,
       M!channels, MP!channels, M!deviceVars, MP!deviceVars, M!budgets,
       MP!budgets

(* What a manager does.                                                    *)
LEMMA SameManager == ASSUME NEW n \in Nodes, M!Manager(n) PROVE MP!Manager(n)
BY DEF M!Manager, MP!Manager, M!Block, MP!Block, M!SelectAdd, MP!SelectAdd,
       M!SelectRemove, MP!SelectRemove, M!SelectSync, MP!SelectSync,
       M!GetDeviceTags, MP!GetDeviceTags, M!SetDeviceTags, MP!SetDeviceTags,
       M!WritePosture, MP!WritePosture, M!GetPostureAttributes,
       MP!GetPostureAttributes, M!DeleteStale, MP!DeleteStale, M!Complete,
       MP!Complete, M!ContinueAsNew, MP!ContinueAsNew, M!Loop, MP!Loop,
       M!AddReady, MP!AddReady, M!RemoveReady, MP!RemoveReady, M!SyncReady,
       MP!SyncReady, M!Handle, MP!Handle, M!NewJob, MP!NewJob, M!NoJob,
       MP!NoJob, M!AfterTags, MP!AfterTags, M!NothingToDo, MP!NothingToDo,
       M!Claimed, MP!Claimed, M!Expected, MP!Expected, M!Return, MP!Return,
       M!Fail, MP!Fail, M!InTurn, MP!InTurn, M!NoFailure, MP!NoFailure,
       M!Quiet, MP!Quiet, M!DropSignals, MP!DropSignals, M!EndHandler,
       MP!EndHandler, M!RetriesLeft, MP!RetriesLeft, M!TagsOf, MP!TagsOf,
       M!computeDesiredTags, MP!computeDesiredTags, M!CellsOf, MP!CellsOf,
       M!Reachable, MP!Reachable, M!ClaimedCells, MP!ClaimedCells,
       M!orphanedPostureAttributes, MP!orphanedPostureAttributes, M!staleCells,
       MP!staleCells, M!ZeroAssets, MP!ZeroAssets, M!resolvePostureTarget,
       MP!resolvePostureTarget, M!ToSet, MP!ToSet, M!grantVars, MP!grantVars,
       M!channels, MP!channels, M!deviceVars, MP!deviceVars, M!budgets,
       MP!budgets

-----------------------------------------------------------------------------
(* The managers find the grants as TagManager assumes.                     *)

GrantsFit == GP!Typed /\ GP!Stories /\ GP!Early

(* The grants but g are, for their managers, where they were.              *)
LEMMA OthersPhase ==
  ASSUME GrantsFit, NEW g \in Grants, G!Person(g) \/ G!Workflow(g), NEW h \in Grants \ {g}
  PROVE  Phase(h)' = Phase(h)
<1>1. GP!Same(h) /\ (h \in gaveUp' <=> h \in gaveUp)
  BY SamePerson, SameWorkflow, GrantsAssumed, GP!OthersSame, GP!GaveUpMoves DEF GrantsFit
<1>2. pc'[h] = pc[h] /\ status'[h] = status[h]
  BY <1>1 DEF GP!Same
<1> QED BY <1>1, <1>2 DEF Phase

(* The phases when one grant moves on to another.                          *)
LEMMA PhaseMoves ==
  ASSUME GrantsFit, NEW g \in Grants, G!Person(g) \/ G!Workflow(g)
  PROVE  [h \in Grants |-> Phase(h)]' = [[h \in Grants |-> Phase(h)] EXCEPT ![g] = Phase(g)']
BY OthersPhase

(* What people do and the managers do not see.                             *)
LEMMA PersonUnseen ==
  ASSUME GrantsFit, NEW g \in Grants, G!Person(g)
  PROVE  Phase(g)' = Phase(g) /\ UNCHANGED << attempt, faults, told, gaveUp >>
<1> USE DEF G!stateVars, G!waitVars, G!childVars, G!retryVars, G!worldVars
<1>1. pc \in [Grants -> GP!PCs]
  BY DEF GrantsFit, GP!Typed, GP!TypeOK
<1>2. UNCHANGED << status, attempt, faults, told, gaveUp >>
  BY DEF G!Person, G!HandleCreateGrant, G!CheckApprove, G!SendApprove, G!HandleDenyGrant,
         G!HandleRevokeGrant, G!HandleExtendGrant, G!TerminateApproval
<1>3. \/ pc'[g] = pc[g]
      \/ pc[g] = "none" /\ pc'[g] = "start"
      \/ pc[g] = "blocked" /\ pc'[g] \in {"wokenRevoke", "wokenExtend"}
  BY <1>1 DEF G!Person, G!HandleCreateGrant, G!CheckApprove, G!SendApprove,
              G!HandleDenyGrant, G!HandleRevokeGrant, G!HandleExtendGrant,
              G!TerminateApproval, G!Goto, G!Wakes
<1> QED BY <1>2, <1>3 DEF Phase, G!Waiting

(* What a grant does alone is unseen too, or gets it to its activation.    *)
LEMMA AloneUnseen ==
  ASSUME GrantsFit, NEW g \in Grants, GrantAlone(g)
  PROVE  /\ Phase(g)' = Phase(g) \/ (Phase(g) = "new" /\ Phase(g)' = "adding")
         /\ UNCHANGED << attempt, faults, told, gaveUp >>
         /\ G!Workflow(g)
<1> USE DEF G!stateVars, G!waitVars, G!childVars, G!retryVars, G!worldVars
<1>1. pc \in [Grants -> GP!PCs] /\ status \in [Grants -> GP!Statuses] /\ GP!Story(g)
  BY DEF GrantsFit, GP!Typed, GP!TypeOK, GP!Stories
<1>2. G!Workflow(g) /\ UNCHANGED << attempt, faults, told, gaveUp >>
  BY DEF GrantAlone, G!Workflow, G!Start, G!BlockApproval, G!ReceiveApprove, G!ReceiveDeny,
         G!ApprovalTimerFires, G!ApprovalReturns, G!ApprovalQuiet, G!Activate, G!Block,
         G!TimerFires, G!Expire, G!Revoke, G!Extend, G!LoopQuiet
<1>3. G!Activation(g) = "addGrant" /\ G!Deactivation(g) = "removeGrant"
  BY TagGrantsOnly DEF G!Activation, G!Deactivation
<1>4. CASE G!Start(g)
  <2>1. pc[g] = "start" /\ status' = status /\ pc'[g] \in {"child", "addGrant"}
    BY <1>1, <1>3, <1>4 DEF G!Start, G!Goto
  <2> QED BY <1>2, <2>1 DEF Phase, G!Waiting
<1>5. CASE G!ApprovalReturns(g)
  <2>1. /\ pc[g] = "child"
        /\ \/ pc'[g] \in {"addGrant", "failed"}
           \/ pc'[g] = "done" /\ status'[g] = "denied"
    BY <1>1, <1>3, <1>5 DEF G!ApprovalReturns, G!Goto
  <2>2. g \notin gaveUp'
    BY <1>2, <2>1 DEF GrantsFit, GP!Early, GP!Undecided
  <2> QED BY <1>2, <2>1, <2>2 DEF Phase, G!Waiting
<1>6. CASE \/ G!BlockApproval(g) \/ G!ReceiveApprove(g) \/ G!ReceiveDeny(g)
           \/ G!ApprovalTimerFires(g)
  <2>1. UNCHANGED << pc, status >>
    BY <1>6 DEF G!BlockApproval, G!ReceiveApprove, G!ReceiveDeny, G!ApprovalTimerFires,
                G!ApprovalQuiet
  <2> QED BY <1>2, <2>1 DEF Phase
<1>7. CASE \/ G!Activate(g) \/ G!Block(g) \/ G!TimerFires(g) \/ G!Expire(g) \/ G!Revoke(g)
           \/ G!Extend(g)
  <2>1. {pc[g], pc'[g]} \subseteq G!Waiting \cup {"activate", "removeGrant"}
    BY <1>1, <1>3, <1>7 DEF G!Activate, G!Block, G!TimerFires, G!Expire, G!Revoke, G!Extend,
                            G!Goto, G!RevokeReady, G!ExtendReady, G!Waiting
  <2>2. Phase(g) = "active" /\ Phase(g)' = "active"
    BY <2>1 DEF Phase, G!Waiting
  <2> QED BY <1>2, <2>2
<1> QED BY <1>4, <1>5, <1>6, <1>7 DEF GrantAlone

(* Real grants do what TagManager expects of grants: they signal add-grant *)
(* after their approval, as often as they retry, and remove-grant once.    *)
LEMMA NextManagers ==
  ASSUME GrantsFit, [Next]_vars
  PROVE  [M!Next]_(M!vars)
<1> USE DEF M!deviceVars, M!channels, M!budgets, M!grantVars, managerSide
<1>1. CASE Time
  <2>1. UNCHANGED << pc, status, attempt, faults, gaveUp >>
    BY <1>1 DEF Time, G!Tick, G!retryVars
  <2>2. [g \in Grants |-> Phase(g)]' = [g \in Grants |-> Phase(g)]
    BY <2>1 DEF Phase
  <2> QED BY <1>1, <2>1, <2>2 DEF Time, M!vars
<1>2. ASSUME NEW g \in Grants, Person(g)
      PROVE  UNCHANGED M!vars
  <2>1. Phase(g)' = Phase(g) /\ UNCHANGED << attempt, faults >> /\ G!Person(g)
    BY <1>2, PersonUnseen DEF Person
  <2>2. [h \in Grants |-> Phase(h)]' = [h \in Grants |-> Phase(h)]
    BY <2>1, PhaseMoves
  <2> QED BY <1>2, <2>1, <2>2 DEF Person, M!vars
<1>3. ASSUME NEW g \in Grants, GrantAlone(g)
      PROVE  [M!Next]_(M!vars)
  <2>1. UNCHANGED << attempt, faults, managerSide >> /\ G!Workflow(g)
    BY <1>3, AloneUnseen DEF GrantAlone
  <2>2. CASE Phase(g)' = Phase(g)
    <3>1. [h \in Grants |-> Phase(h)]' = [h \in Grants |-> Phase(h)]
      BY <2>1, <2>2, PhaseMoves
    <3> QED BY <2>1, <3>1 DEF M!vars
  <2>3. CASE Phase(g) = "new" /\ Phase(g)' = "adding"
    <3>1. M!StartAdding(g)
      BY <2>1, <2>3, PhaseMoves DEF M!StartAdding
    <3> QED BY <3>1 DEF M!Next, M!Environment
  <2> QED BY <1>3, <2>2, <2>3, AloneUnseen
<1>4. ASSUME NEW g \in Grants, AddGrant(g)
      PROVE  [M!Next]_(M!vars)
  <2>1. /\ pc \in [Grants -> GP!PCs] /\ attempt \in [Grants -> 0 .. MaxAttempts - 1]
        /\ G!Workflow(g) /\ status' = status /\ pc[g] = "addGrant" /\ Phase(g) = "adding"
    BY <1>4 DEF AddGrant, G!Workflow, GrantsFit, GP!Typed, GP!TypeOK, Phase,
                G!Waiting, G!SignalWithStartDeviceTagManager, G!Call, G!stateVars
  <2>2. /\ M!DeliverAdd(g) \/ (pc'[g] # "activate" /\ UNCHANGED << addCh, mpc >>)
        /\ UNCHANGED << active, removeCh, syncCh, signalCount, job, tags, posture, lost,
                        errored, edits, syncs >>
        /\ G!Succeed(g, "activate") \/ G!Fail(g, "failed")
    BY <1>4 DEF AddGrant, G!SignalWithStartDeviceTagManager, G!Call
  <2>3. CASE G!Succeed(g, "activate")
    <3>1. pc'[g] = "activate" /\ attempt' = [attempt EXCEPT ![g] = 0] /\ faults' = faults
      BY <2>1, <2>3 DEF G!Succeed, G!Goto
    <3>2. Phase(g)' = "active"
      BY <3>1 DEF Phase, G!Waiting
    <3>3. M!SendAdd(g)
      BY <2>1, <2>2, <3>1, <3>2, PhaseMoves DEF M!SendAdd
    <3> QED BY <3>3 DEF M!Next, M!Environment
  <2>4. CASE G!Fail(g, "failed")
    <3>1. /\ faults < MaxFaults /\ faults' = faults + 1
          /\ IF G!RetriesLeft(attempt[g])
               THEN attempt' = [attempt EXCEPT ![g] = @ + 1] /\ pc'[g] = pc[g]
               ELSE /\ attempt' = [attempt EXCEPT ![g] = 0]
                    /\ pc'[g] = "failed" /\ g \in gaveUp'
      BY <2>1, <2>4 DEF G!Fail, G!Goto
    <3>2. Phase(g)' = IF G!RetriesLeft(attempt[g]) THEN "adding" ELSE "failed"
      BY <2>1, <3>1 DEF Phase, G!Waiting
    <3>3. [h \in Grants |-> Phase(h)]' =
            IF G!RetriesLeft(attempt[g])
              THEN [h \in Grants |-> Phase(h)]
              ELSE [[h \in Grants |-> Phase(h)] EXCEPT ![g] = "failed"]
      BY <2>1, <3>2, PhaseMoves
    <3>4. M!RetriesLeft(attempt[g]) <=> G!RetriesLeft(attempt[g])
      BY DEF M!RetriesLeft, G!RetriesLeft
    <3>5. M!SendAddFails(g)
      BY <2>1, <2>2, <3>1, <3>3, <3>4 DEF M!SendAddFails
    <3> QED BY <3>5 DEF M!Next, M!Environment
  <2> QED BY <2>2, <2>3, <2>4
<1>5. ASSUME NEW g \in Grants, RemoveGrant(g)
      PROVE  M!Next
  <2>1. /\ pc \in [Grants -> GP!PCs] /\ G!Workflow(g) /\ UNCHANGED << status, attempt, faults >>
        /\ pc[g] = "removeGrant" /\ pc'[g] = "done" /\ GP!Story(g)
    BY <1>5 DEF RemoveGrant, G!Workflow, GrantsFit, GP!Typed, GP!TypeOK, GP!Stories,
                G!SignalRemoveGrant, G!Goto, G!stateVars, G!retryVars
  <2>2. status[g] # "denied"
    BY <2>1 DEF GP!Story, GP!Course, GP!Ending
  <2>3. Phase(g) = "active" /\ Phase(g)' = "ended"
    BY <2>1, <2>2 DEF Phase, G!Waiting
  <2>4. M!SendRemove(g)
    BY <1>5, <2>1, <2>3, PhaseMoves DEF RemoveGrant, M!SendRemove
  <2> QED BY <2>4 DEF M!Next, M!Environment
<1>6. ASSUME NEW n \in Nodes, Manager(n)
      PROVE  M!Next
  BY <1>6 DEF Manager, M!Next
<1>7. CASE UNCHANGED vars
  <2>1. [g \in Grants |-> Phase(g)]' = [g \in Grants |-> Phase(g)]
    BY <1>7 DEF vars, grantSide, Phase
  <2> QED BY <1>7, <2>1 DEF vars, grantSide, M!vars
<1> QED BY <1>1, <1>2, <1>3, <1>4, <1>5, <1>6, <1>7 DEF Next, Grant

-----------------------------------------------------------------------------
(* Both parts keep their invariants beside each other.                     *)

Fit == GrantsFit /\ MP!TypeOK /\ MP!PendingWrites /\ MP!Signals

(* The step is one of the grants' specification.                           *)
GrantsMove == GP!Tick \/ \E g \in Grants : GP!Person(g) \/ GP!Workflow(g)

(* A step of the whole is one of the grants, or of a manager that leaves   *)
(* the grants alone.                                                       *)
LEMMA EitherMoves ==
  ASSUME [Next]_vars
  PROVE  \/ GrantsMove
         \/ UNCHANGED grantSide /\ \E n \in Nodes : MP!Manager(n)
         \/ UNCHANGED vars
<1>1. CASE Time
  BY <1>1, SameTick DEF Time, GrantsMove
<1>2. ASSUME NEW g \in Grants, Person(g) \/ Grant(g)
      PROVE  GP!Person(g) \/ GP!Workflow(g)
  <2>1. G!Person(g) \/ G!Workflow(g)
    BY <1>2 DEF Person, Grant, AddGrant, RemoveGrant, GrantAlone, G!Workflow
  <2> QED BY <2>1, SamePerson, SameWorkflow
<1>3. ASSUME NEW n \in Nodes, Manager(n)
      PROVE  UNCHANGED grantSide /\ MP!Manager(n)
  BY <1>3, SameManager DEF Manager
<1> QED BY <1>1, <1>2, <1>3 DEF Next, GrantsMove

(* A step of the grants' part is one of its next-state relation.           *)
LEMMA GrantsMoveNext == GrantsMove => [GP!Next]_(GP!vars)
BY DEF GrantsMove, GP!Next

(* The grants stay as their stories say.                                   *)
LEMMA NextGrants ==
  ASSUME GrantsFit, MP!TypeOK', [Next]_vars
  PROVE  GrantsFit'
<1>1. CASE GrantsMove
  BY <1>1, GrantsMoveNext, GrantsAssumed, GP!NextType, GP!NextStories, GP!NextEarly
     DEF GrantsFit
<1>2. CASE UNCHANGED grantSide
  <2>1. faults' \in Nat
    BY LimitsAssumption DEF MP!TypeOK
  <2>2. GP!Typed'
    BY <1>2, <2>1 DEF GrantsFit, grantSide, GP!Typed, GP!TypeOK, GP!Buffered
  <2>3. GP!Stories'
    BY <1>2 DEF GrantsFit, grantSide, GP!Stories, GP!Story, GP!Course, GP!Branch,
                GP!Approval, GP!Clock, GP!MayApprove
  <2>4. GP!Early'
    BY <1>2 DEF GrantsFit, grantSide, GP!Early
  <2> QED BY <2>2, <2>3, <2>4 DEF GrantsFit
<1> QED BY <1>1, <1>2, EitherMoves DEF vars

(* The managers' step, in the words of the lemmas about them.              *)
LEMMA NextManagersProved ==
  ASSUME GrantsFit, [Next]_vars
  PROVE  [MP!Next]_(MP!vars)
<1>1. [M!Next]_(M!vars)
  BY NextManagers
<1>2. M!Next => MP!Next
  BY SameEnvironment, SameManager DEF M!Next, MP!Next
<1>3. UNCHANGED M!vars => UNCHANGED MP!vars
  BY DEF M!vars, M!grantVars, M!channels, M!deviceVars, M!budgets, MP!vars, MP!grantVars,
         MP!channels, MP!deviceVars, MP!budgets
<1> QED BY <1>1, <1>2, <1>3

(* At first everything fits.                                               *)
LEMMA InitFit == Init => Fit
<1> SUFFICES ASSUME Init
             PROVE  Fit
  OBVIOUS
<1>1. GP!Init
  BY DEF Init, G!Init, GP!Init
<1>2. MP!Init
  BY DEF Init, M!Init, MP!Init, M!NoJob, MP!NoJob, M!NewJob, MP!NewJob
<1>3. GrantsFit
  BY <1>1, GrantsAssumed, GP!InitType, GP!InitStories, GP!InitEarly DEF GrantsFit
<1>4. MP!TypeOK
  BY <1>2, ManagersAssumed, MP!InitType
<1>5. MP!PendingWrites /\ MP!Signals
  BY <1>2, ManagersAssumed, MP!InitPending, MP!InitSignals
<1> QED BY <1>3, <1>4, <1>5 DEF Fit

(* And everything goes on fitting.                                         *)
LEMMA NextFit ==
  ASSUME Fit, [Next]_vars
  PROVE  Fit'
<1>1. [MP!Next]_(MP!vars)
  BY NextManagersProved DEF Fit
<1>2. MP!TypeOK'
  BY <1>1, ManagersAssumed, MP!NextType DEF Fit
<1>3. MP!PendingWrites' /\ MP!Signals'
  BY <1>1, ManagersAssumed, MP!NextPending, MP!NextSignals DEF Fit
<1>4. GrantsFit'
  BY <1>2, NextGrants DEF Fit
<1> QED BY <1>2, <1>3, <1>4 DEF Fit

(* Types, pending writes, signals and stories, all at once.                *)
LEMMA AlwaysFit == Spec => []Fit
<1>1. Fit /\ [Next]_vars => Fit'
  BY NextFit
<1> QED BY InitFit, <1>1, PTL DEF Spec

(* What TagManager assumes of grants is what real ones do: its             *)
(* specification is implemented with grant workflows in the place of its   *)
(* environment.                                                            *)
THEOREM ManagersImplemented == Spec => ManagersAsSpecified
<1>1. Init => M!Init
  BY DEF Init
<1>2. Fit /\ [Next]_vars => [M!Next]_(M!vars)
  BY NextManagers DEF Fit
<1> QED BY <1>1, <1>2, AlwaysFit, PTL DEF Spec, ManagersAsSpecified

-----------------------------------------------------------------------------
(* What is proved of managers holds with real grants.                      *)

Beside == MP!ExactAlways /\ \A g \in Grants : MP!Kept(g)

(* Ledgers stay exact, and signals in custody.                             *)
LEMMA AlwaysBeside == Spec => []Beside
<1>1. Init => Beside
  <2> SUFFICES ASSUME Init
               PROVE  Beside
    OBVIOUS
  <2>1. MP!Init
    BY DEF Init, M!Init, MP!Init, M!NoJob, MP!NoJob, M!NewJob, MP!NewJob
  <2>2. MP!ExactAlways
    BY <2>1, ManagersAssumed, MP!InitExact
  <2>3. ASSUME NEW g \in Grants
        PROVE  MP!Kept(g)
    BY <2>1 DEF MP!Init, MP!Kept
  <2> QED BY <2>2, <2>3 DEF Beside
<1>2. Fit /\ Beside /\ [Next]_vars => Beside'
  <2> SUFFICES ASSUME Fit, Beside, [Next]_vars
               PROVE  Beside'
    OBVIOUS
  <2>1. [MP!Next]_(MP!vars)
    BY NextManagersProved DEF Fit
  <2>2. MP!ExactAlways'
    BY <2>1, ManagersAssumed, MP!NextExact DEF Fit, Beside
  <2>3. ASSUME NEW g \in Grants
        PROVE  MP!Kept(g)'
    BY <2>1, ManagersAssumed, MP!NextKept DEF Fit, Beside
  <2> QED BY <2>2, <2>3 DEF Beside
<1> QED BY <1>1, <1>2, AlwaysFit, PTL DEF Spec

(* With real grants, too, a device carries between handlers exactly its    *)
(* own tags and those of its ledger.                                       *)
THEOREM LedgerExactWithGrants == Spec => []M!LedgerExact
<1>1. Beside => MP!LedgerExact
  BY ManagersAssumed, MP!ExactSuffices DEF Beside
<1>2. MP!LedgerExact => M!LedgerExact
  BY DEF MP!LedgerExact, M!LedgerExact, MP!Ambiguous, M!Ambiguous, MP!Claimed, M!Claimed,
         MP!TagsOf, M!TagsOf, MP!Idle, M!Idle
<1> QED BY <1>1, <1>2, AlwaysBeside, PTL

(* With real grants, too, no add-grant of an active grant is mislaid, and  *)
(* no grant that is over is still known without its remove-grant waiting,  *)
(* unless a signal was dropped when a run ended.                           *)
THEOREM NothingMislaidWithGrants == Spec => [](M!Custody /\ M!NoLeak)
<1>1. Beside => M!Custody /\ M!NoLeak
  BY DEF Beside, MP!Kept, MP!Known, MP!Recall, M!Custody, M!NoLeak, MP!ToSet, M!ToSet
<1> QED BY <1>1, AlwaysBeside, PTL

(* With real grants, too, a manager strips nothing that its ledger claims. *)
THEOREM SharingIsSafeWithGrants == Spec => M!ClaimedNeverStripped
<1> DEFINE Safe == \A n \in Nodes :
                     M!Moves(n) =>
                       /\ (tags[n] \ tags'[n]) \cap M!Claimed(n) = {}
                       /\ (posture \ posture') \cap M!Expected(n) = {}
<1>1. Fit /\ [Next]_vars => [Safe]_(M!vars)
  <2> SUFFICES ASSUME Fit, [Next]_vars, ~UNCHANGED M!vars, NEW n \in Nodes, M!Moves(n)
               PROVE  /\ (tags[n] \ tags'[n]) \cap M!Claimed(n) = {}
                      /\ (posture \ posture') \cap M!Expected(n) = {}
    OBVIOUS
  <2>1. MP!Next
    BY NextManagers, SameEnvironment, SameManager DEF Fit, M!Next, MP!Next
  <2>2. MP!Moves(n)
    BY DEF M!Moves, MP!Moves
  <2>3. /\ (tags[n] \ tags'[n]) \cap MP!Claimed(n) = {}
        /\ (posture \ posture') \cap MP!Expected(n) = {}
    BY <2>1, <2>2, ManagersAssumed, MP!NextStrips DEF Fit
  <2> QED
    BY <2>3 DEF M!Claimed, MP!Claimed, M!TagsOf, MP!TagsOf, M!Expected, MP!Expected,
                M!ClaimedCells, MP!ClaimedCells, M!CellsOf, MP!CellsOf,
                M!resolvePostureTarget, MP!resolvePostureTarget
<1> QED BY <1>1, AlwaysFit, PTL DEF Spec, M!ClaimedNeverStripped

(* Beside real managers, too, every grant lives as GrantLifecycle          *)
(* promises.                                                               *)
THEOREM GrantsKeepPromise == Spec => G!KeepsPromise
<1>1. Init => GP!Promise!Init
  <2>1. Init => GP!Init
    BY DEF Init, G!Init, GP!Init
  <2> QED BY <2>1, GrantsAssumed, GP!InitPromise
<1>2. Fit /\ [Next]_vars => [GP!Promise!Next]_(GP!Promise!vars)
  <2> SUFFICES ASSUME Fit, [Next]_vars
               PROVE  [GP!Promise!Next]_(GP!Promise!vars)
    OBVIOUS
  <2>1. CASE GrantsMove
    BY <2>1, GrantsMoveNext, GrantsAssumed, GP!StepKeepsPromise DEF Fit, GrantsFit
  <2>2. CASE UNCHANGED grantSide
    BY <2>2 DEF grantSide, GP!Promise!vars, GP!Stage
  <2> QED BY <2>1, <2>2, EitherMoves DEF vars
<1>3. GP!Promise!Init => G!Promise!Init
  BY DEF GP!Promise!Init, G!Promise!Init, GP!Stage, G!Stage
<1>4. [GP!Promise!Next]_(GP!Promise!vars) => [G!Promise!Next]_(G!Promise!vars)
  <2>1. [g \in Grants |-> GP!Stage(g)] = [g \in Grants |-> G!Stage(g)]
    BY DEF GP!Stage, G!Stage
  <2>2. [g \in Grants |-> GP!Stage(g)]' = [g \in Grants |-> G!Stage(g)]'
    BY DEF GP!Stage, G!Stage
  <2>3. UNCHANGED GP!Promise!vars => UNCHANGED G!Promise!vars
    BY <2>1, <2>2 DEF GP!Promise!vars, G!Promise!vars
  <2>4. GP!Promise!Tick => G!Promise!Tick
    BY <2>1, <2>2 DEF GP!Promise!Tick, G!Promise!Tick, GP!Promise!Elapse, G!Promise!Elapse
  <2>5. ASSUME NEW g \in Grants, NEW from, NEW to, GP!Promise!Moves(g, from, to)
        PROVE  G!Promise!Moves(g, from, to)
    BY <2>1, <2>2, <2>5 DEF GP!Promise!Moves, G!Promise!Moves
  <2>6. ASSUME NEW g \in Grants,
               \/ GP!Promise!Request(g) \/ GP!Promise!Deny(g) \/ GP!Promise!Fail(g)
               \/ GP!Promise!Revoke(g) \/ GP!Promise!Expire(g)
        PROVE  \/ G!Promise!Request(g) \/ G!Promise!Deny(g) \/ G!Promise!Fail(g)
               \/ G!Promise!Revoke(g) \/ G!Promise!Expire(g)
    BY <2>5, <2>6
       DEF GP!Promise!Request, G!Promise!Request, GP!Promise!Deny, G!Promise!Deny,
           GP!Promise!Fail, G!Promise!Fail, GP!Promise!Revoke, G!Promise!Revoke,
           GP!Promise!Expire, G!Promise!Expire
  <2>7. ASSUME NEW g \in Grants, NEW p \in People, GP!Promise!Approve(g, p)
        PROVE  G!Promise!Approve(g, p)
    BY <2>1, <2>2, <2>7 DEF GP!Promise!Approve, G!Promise!Approve, GP!Promise!MayApprove,
                            G!Promise!MayApprove
  <2>8. ASSUME NEW g \in Grants, NEW d, GP!Promise!Activate(g, d) \/ GP!Promise!Extend(g, d)
        PROVE  G!Promise!Activate(g, d) \/ G!Promise!Extend(g, d)
    BY <2>1, <2>2, <2>5, <2>8 DEF GP!Promise!Activate, G!Promise!Activate,
                                  GP!Promise!Extend, G!Promise!Extend
  <2>9. GP!Promise!Next => G!Promise!Next
    BY <2>4, <2>6, <2>7, <2>8 DEF GP!Promise!Next, G!Promise!Next
  <2> QED BY <2>3, <2>9
<1> QED
  BY <1>1, <1>2, <1>3, <1>4, AlwaysFit, PTL DEF Spec, G!KeepsPromise, G!Promise!Spec

-----------------------------------------------------------------------------
(* No access without approval.                                             *)

Allowed(n) == BaseTags[n] \cup M!TagsOf(Assets, PermittedFor(n))

(* On the device, about to be written, in the ledger and in the channel    *)
(* there is only what permitted grants ask for.                            *)
Access(n) ==
  /\ active[n] \cup ToSet(addCh[n]) \subseteq PermittedFor(n)
  /\ tags[n] \subseteq Allowed(n)
  /\ mpc[n] = "setTags" => job[n].desired \subseteq Allowed(n)

AccessAlways == \A n \in Nodes : Access(n)

(* A permission is not taken back.                                         *)
LEMMA PermittedStays ==
  ASSUME Fit, [Next]_vars, NEW n \in Nodes
  PROVE  PermittedFor(n) \subseteq PermittedFor(n)' /\ Allowed(n) \subseteq Allowed(n)'
<1>1. ASSUME NEW g \in Grants, G!Permitted(g), pc[g] # "none"
      PROVE  G!Permitted(g)' /\ pc'[g] # "none"
  <2>1. CASE GrantsMove
    <3>1. GP!Permitted(g)
      BY <1>1 DEF GP!Permitted, G!Permitted, GP!Promise!MayApprove, G!Promise!MayApprove
    <3>2. GP!Permitted(g)' /\ pc'[g] # "none"
      BY <1>1, <2>1, <3>1, GrantsMoveNext, GrantsAssumed, GP!ApprovalStays DEF Fit, GrantsFit
    <3> QED
      BY <3>2 DEF GP!Permitted, G!Permitted, GP!Promise!MayApprove, G!Promise!MayApprove
  <2>2. CASE UNCHANGED grantSide
    BY <1>1, <2>2 DEF grantSide, G!Permitted, G!Promise!MayApprove
  <2> QED BY <2>1, <2>2, EitherMoves DEF vars
<1>2. PermittedFor(n) \subseteq PermittedFor(n)'
  BY <1>1 DEF PermittedFor
<1> QED BY <1>2 DEF Allowed, M!TagsOf

(* What is allowed stays allowed while nothing is added.                   *)
LEMMA AccessKept ==
  ASSUME Fit, [Next]_vars, NEW n \in Nodes, Access(n),
         active'[n] \cup ToSet(addCh'[n]) \subseteq active[n] \cup ToSet(addCh[n]),
         tags'[n] = tags[n],
         mpc'[n] = "setTags" => mpc[n] = "setTags" /\ job'[n].desired = job[n].desired
  PROVE  Access(n)'
BY PermittedStays DEF Access

(* A grant that signals add-grant is permitted.                            *)
LEMMA AddAccess ==
  ASSUME Fit, AccessAlways, NEW g \in Grants, AddGrant(g), NEW n \in Nodes
  PROVE  Access(n)'
<1>1. [Next]_vars
  BY DEF Next, Grant
<1>2. Access(n) /\ UNCHANGED << active, tags, job >>
  BY DEF AccessAlways, AddGrant
<1>3. /\ Target[g] \in Nodes /\ addCh \in [Nodes -> Seq(Grants)]
      /\ mpc \in [Nodes -> MP!Idle \cup MP!Calls \cup {"finish"}]
  BY DevicesAssumption DEF Fit, MP!TypeOK
<1>4. CASE UNCHANGED << addCh, mpc >>
  BY <1>1, <1>2, <1>4, AccessKept
<1>5. CASE M!DeliverAdd(g)
  <2>1. mpc'[n] = "setTags" => mpc[n] = "setTags"
    BY <1>3, <1>5 DEF M!DeliverAdd
  <2>2. CASE n # Target[g]
    <3>1. addCh'[n] = addCh[n]
      BY <1>3, <1>5, <2>2 DEF M!DeliverAdd
    <3> QED BY <1>1, <1>2, <2>1, <3>1, AccessKept
  <2>3. CASE n = Target[g]
    <3>1. addCh'[n] = Append(addCh[n], g)
      BY <1>3, <1>5, <2>3 DEF M!DeliverAdd
    <3>2. MP!ToSet(addCh'[n]) = MP!ToSet(addCh[n]) \cup {g}
      BY <1>3, <3>1, ManagersAssumed, MP!ToSetAppend
    <3>3. ToSet(addCh'[n]) = ToSet(addCh[n]) \cup {g}
      BY <3>2 DEF MP!ToSet, ToSet
    <3>4. pc[g] = "addGrant" /\ GP!Story(g)
      BY DEF AddGrant, G!SignalWithStartDeviceTagManager, G!Call, Fit, GrantsFit, GP!Stories
    <3>5. GP!Permitted(g)
      BY <3>4, GrantsAssumed, GP!PastTheGate DEF GP!Activating
    <3>6. g \in PermittedFor(n)
      BY <2>3, <3>4, <3>5
         DEF PermittedFor, GP!Permitted, G!Permitted, GP!Promise!MayApprove,
             G!Promise!MayApprove
    <3> QED BY <1>1, <1>2, <2>1, <3>3, <3>6, PermittedStays DEF Access
  <2> QED BY <2>2, <2>3
<1> QED BY <1>4, <1>5 DEF AddGrant

(* A manager writes and learns nothing else than it was told.              *)
LEMMA ManagerAccess ==
  ASSUME Fit, AccessAlways, NEW m \in Nodes, Manager(m), NEW n \in Nodes
  PROVE  Access(n)'
<1>1. [Next]_vars /\ MP!Manager(m) /\ MP!TypeOK
  BY SameManager DEF Next, Manager, Fit
<1>2. Access(n)
  BY DEF AccessAlways
<1>3. active'[n] \cup MP!ToSet(addCh'[n]) \subseteq active[n] \cup MP!ToSet(addCh[n])
  BY <1>1, ManagersAssumed, MP!ManagerLearns
<1>4. active'[n] \cup ToSet(addCh'[n]) \subseteq active[n] \cup ToSet(addCh[n])
  BY <1>3 DEF MP!ToSet, ToSet
<1>5. CASE n # m
  <2>1. mpc'[n] = mpc[n] /\ job'[n] = job[n] /\ tags'[n] = tags[n]
    BY <1>1, <1>5, ManagersAssumed, MP!OthersKept, MP!ManagerTags
  <2> QED BY <1>1, <1>2, <1>4, <2>1, AccessKept
<1>6. CASE n = m
  <2> DEFINE desired == MP!computeDesiredTags(tags[n], MP!Claimed(n), job[n].removed)
  <2>1. /\ tags'[n] = tags[n] \/ (mpc[n] = "setTags" /\ tags'[n] = job[n].desired)
        /\ mpc'[n] = "setTags" =>
             \/ mpc[n] = "setTags" /\ job'[n].desired = job[n].desired
             \/ job'[n].desired = desired
    BY <1>1, <1>6, ManagersAssumed, MP!TagsInHand
  <2>2. desired \subseteq Allowed(n)
    BY <1>2 DEF MP!computeDesiredTags, MP!Claimed, MP!TagsOf, M!TagsOf, Allowed, Access
  <2> HIDE DEF desired
  <2> QED BY <1>1, <1>2, <1>4, <2>1, <2>2, PermittedStays DEF Access
<1> QED BY <1>5, <1>6

(* Every step keeps access within what is permitted.                       *)
LEMMA NextAccess ==
  ASSUME Fit, AccessAlways, [Next]_vars, NEW n \in Nodes
  PROVE  Access(n)'
<1>1. Access(n)
  BY DEF AccessAlways
<1>2. CASE UNCHANGED managerSide
  BY <1>1, <1>2, AccessKept DEF managerSide
<1>3. ASSUME NEW g \in Grants, RemoveGrant(g)
      PROVE  Access(n)'
  <2>1. UNCHANGED << active, addCh, tags, job >>
    BY <1>3 DEF RemoveGrant
  <2>2. mpc'[n] = "setTags" => mpc[n] = "setTags"
    BY <1>3 DEF RemoveGrant, M!Wake, Fit, MP!TypeOK
  <2> QED BY <1>1, <2>1, <2>2, AccessKept
<1> QED
  BY <1>2, <1>3, AddAccess, ManagerAccess DEF Next, Time, Person, Grant, GrantAlone, vars

(* A device carries no tag but its own and those of grants that were       *)
(* requested for it and, if risky, approved by somebody entitled to,       *)
(* whatever is retried, repeated or dropped on the way.                    *)
THEOREM NoAccessWithoutApproval == Spec => []AccessNeedsApproval
<1>1. Init => AccessAlways
  <2> SUFFICES ASSUME Init, NEW n \in Nodes
               PROVE  Access(n)
    BY DEF AccessAlways
  <2>1. /\ active[n] = {} /\ addCh[n] = <<>> /\ tags[n] = BaseTags[n]
        /\ mpc[n] = "closed"
    BY DEF Init, M!Init
  <2>2. ToSet(addCh[n]) = {}
    BY <2>1 DEF ToSet
  <2> QED BY <2>1, <2>2 DEF Access, Allowed
<1>2. Fit /\ AccessAlways /\ [Next]_vars => AccessAlways'
  BY NextAccess DEF AccessAlways
<1>3. AccessAlways => AccessNeedsApproval
  BY DEF AccessAlways, Access, Allowed, AccessNeedsApproval
<1> QED BY <1>1, <1>2, <1>3, AlwaysFit, PTL DEF Spec

-----------------------------------------------------------------------------
(* Nothing holds on to a grant without a reason.                           *)

(* A manager knows of no grant that has not been signalled; as long as the *)
(* signalling goes on, or has failed, `told` has it.                       *)
Trace(g) ==
  /\ Phase(g) = "new" => ~Held(g)
  /\ Phase(g) \in {"adding", "failed"} /\ Held(g) => g \in told

TraceAlways == \A g \in Grants : Trace(g)

(* Only its own signal makes a manager know of a grant.                    *)
LEMMA OthersNotHeld ==
  ASSUME Fit, NEW g \in Grants, AddGrant(g), NEW h \in Grants \ {g}
  PROVE  Held(h)' => Held(h)
<1>1. /\ Target[g] \in Nodes /\ Target[h] \in Nodes /\ addCh \in [Nodes -> Seq(Grants)]
      /\ active' = active
  BY DevicesAssumption DEF Fit, MP!TypeOK, AddGrant
<1>2. CASE addCh' = addCh
  BY <1>1, <1>2 DEF Held
<1>3. CASE M!DeliverAdd(g)
  <2>1. addCh' = [addCh EXCEPT ![Target[g]] = Append(@, g)]
    BY <1>3 DEF M!DeliverAdd
  <2>2. CASE Target[g] = Target[h]
    <3>1. addCh'[Target[h]] = Append(addCh[Target[h]], g)
      BY <1>1, <2>1, <2>2
    <3>2. addCh[Target[h]] \in Seq(Grants)
      BY <1>1
    <3>3. MP!ToSet(addCh'[Target[h]]) = MP!ToSet(addCh[Target[h]]) \cup {g}
      BY <3>1, <3>2, ManagersAssumed, MP!ToSetAppend
    <3> QED BY <1>1, <3>3 DEF Held, MP!ToSet, ToSet
  <2>3. CASE Target[g] # Target[h]
    BY <1>1, <2>1, <2>3 DEF Held
  <2> QED BY <2>2, <2>3
<1> QED BY <1>2, <1>3 DEF AddGrant

(* The step of a grant leaves its own trace.                               *)
LEMMA OwnTrace ==
  ASSUME Fit, NEW g \in Grants, Trace(g), Person(g) \/ Grant(g)
  PROVE  Trace(g)'
<1>1. pc \in [Grants -> GP!PCs] /\ status \in [Grants -> GP!Statuses] /\ GP!Story(g)
  BY DEF Fit, GrantsFit, GP!Typed, GP!TypeOK, GP!Stories
<1>2. CASE Person(g) \/ GrantAlone(g)
  <2>1. /\ Phase(g)' = Phase(g) \/ (Phase(g) = "new" /\ Phase(g)' = "adding")
        /\ UNCHANGED told
    BY <1>2, PersonUnseen, AloneUnseen DEF Person, Fit
  <2>2. Held(g)' <=> Held(g)
    BY <1>2 DEF Person, GrantAlone, managerSide, Held
  <2> QED BY <2>1, <2>2 DEF Trace
<1>3. CASE AddGrant(g)
  <2>1. /\ pc[g] = "addGrant" /\ Phase(g) = "adding" /\ status' = status
        /\ told' = told \cup {g} \/ told' = told
        /\ G!Succeed(g, "activate") \/ G!Fail(g, "failed")
        /\ UNCHANGED << active, addCh >> \/ g \in told'
    BY <1>3 DEF AddGrant, G!SignalWithStartDeviceTagManager, G!Call, Phase, G!Waiting,
                G!stateVars
  <2>2. CASE G!Succeed(g, "activate")
    <3>1. pc'[g] = "activate"
      BY <1>1, <2>2 DEF G!Succeed, G!Goto
    <3>2. Phase(g)' = "active"
      BY <3>1 DEF Phase, G!Waiting
    <3> QED BY <3>1, <3>2 DEF Trace
  <2>3. CASE G!Fail(g, "failed")
    <3>1. pc'[g] = "addGrant" \/ (pc'[g] = "failed" /\ g \in gaveUp')
      BY <1>1, <2>1, <2>3 DEF G!Fail, G!Goto
    <3>2. Phase(g)' \in {"adding", "failed"}
      BY <3>1 DEF Phase, G!Waiting
    <3>3. Held(g)' => g \in told'
      BY <2>1 DEF Held, Trace
    <3> QED BY <3>1, <3>2, <3>3 DEF Trace
  <2> QED BY <2>1, <2>2, <2>3
<1>4. CASE RemoveGrant(g)
  <2>1. pc'[g] = "done" /\ status'[g] # "denied"
    BY <1>1, <1>4 DEF RemoveGrant, G!SignalRemoveGrant, G!Goto, G!stateVars, GP!Story,
                      GP!Course, GP!Ending
  <2>2. Phase(g)' = "ended"
    BY <2>1 DEF Phase, G!Waiting
  <2> QED BY <2>1, <2>2 DEF Trace
<1> QED BY <1>2, <1>3, <1>4 DEF Grant

(* Every step leaves the trace of every grant.                             *)
LEMMA NextTrace ==
  ASSUME Fit, TraceAlways, [Next]_vars, NEW h \in Grants
  PROVE  Trace(h)'
<1>1. Trace(h) /\ GrantsFit
  BY DEF TraceAlways, Fit
<1>2. CASE Time
  <2>1. UNCHANGED << pc, status, told, gaveUp, active, addCh >>
    BY <1>2 DEF Time, G!Tick, G!worldVars, G!retryVars, managerSide
  <2> QED BY <1>1, <2>1 DEF Trace, Phase, Held
<1>3. ASSUME NEW g \in Grants, Person(g) \/ Grant(g)
      PROVE  Trace(h)'
  <2>1. CASE g = h
    BY <1>1, <1>3, <2>1, OwnTrace
  <2>2. CASE g # h
    <3>1. G!Person(g) \/ G!Workflow(g)
      BY <1>3 DEF Person, Grant, AddGrant, RemoveGrant, GrantAlone, G!Workflow
    <3>2. Phase(h)' = Phase(h)
      BY <1>1, <2>2, <3>1, OthersPhase
    <3>3. h \in told <=> h \in told'
      BY <1>1, <2>2, <3>1, SamePerson, SameWorkflow, GrantsAssumed, GP!WorldMoves
         DEF GrantsFit
    <3>4. Held(h)' => Held(h)
      <4>1. CASE AddGrant(g)
        BY <2>2, <4>1, OthersNotHeld
      <4>2. CASE ~AddGrant(g)
        BY <1>3, <4>2 DEF Person, Grant, GrantAlone, RemoveGrant, managerSide, Held
      <4> QED BY <4>1, <4>2
    <3> QED BY <1>1, <3>2, <3>3, <3>4 DEF Trace
  <2> QED BY <2>1, <2>2
<1>4. ASSUME NEW n \in Nodes, Manager(n)
      PROVE  Trace(h)'
  <2>1. active'[Target[h]] \cup MP!ToSet(addCh'[Target[h]])
          \subseteq active[Target[h]] \cup MP!ToSet(addCh[Target[h]])
    BY <1>4, SameManager, ManagersAssumed, DevicesAssumption, MP!ManagerLearns
       DEF Fit, Manager
  <2>2. Held(h)' => Held(h)
    BY <2>1 DEF Held, MP!ToSet, ToSet
  <2>3. UNCHANGED << pc, status, told, gaveUp >>
    BY <1>4 DEF Manager, grantSide
  <2> QED BY <1>1, <2>2, <2>3 DEF Trace, Phase
<1>5. CASE UNCHANGED vars
  BY <1>1, <1>5 DEF vars, grantSide, managerSide, Trace, Phase, Held
<1> QED BY <1>2, <1>3, <1>4, <1>5 DEF Next

(* A grant that is over and still known to its manager is being removed,   *)
(* its removal was dropped at the end of a run, or its workflow failed     *)
(* although its add-grant was delivered: there is no other way.            *)
THEOREM NothingHeldForever == Spec => []HeldForAReason
<1>1. Init => TraceAlways
  <2> SUFFICES ASSUME Init, NEW g \in Grants
               PROVE  Trace(g)
    BY DEF TraceAlways
  <2>1. pc[g] = "none" /\ active[Target[g]] = {} /\ addCh[Target[g]] = <<>>
    BY DevicesAssumption DEF Init, G!Init, M!Init
  <2>2. ~Held(g)
    BY <2>1 DEF Held, ToSet
  <2> QED BY <2>1, <2>2 DEF Trace
<1>2. Fit /\ TraceAlways /\ [Next]_vars => TraceAlways'
  BY NextTrace DEF TraceAlways
<1>3. Fit /\ TraceAlways /\ Beside => HeldForAReason
  <2> SUFFICES ASSUME Fit, TraceAlways, Beside, NEW g \in Grants, Held(g),
                      pc[g] \notin G!Running
               PROVE  \/ g \in ToSet(removeCh[Target[g]])
                      \/ <<"remove", g>> \in lost
                      \/ pc[g] = "failed" /\ g \in gaveUp /\ g \in told
    BY DEF HeldForAReason
  <2>1. pc[g] \in GP!PCs /\ Trace(g) /\ MP!Kept(g)
    BY DEF Fit, GrantsFit, GP!Typed, GP!TypeOK, TraceAlways, Beside
  <2>2. pc[g] \in {"none", "done", "failed"}
    BY <2>1 DEF GP!PCs, GP!Running, GP!Waiting, G!Running, G!Waiting
  <2>3. CASE pc[g] = "failed"
    BY <2>1, <2>3 DEF Trace, Phase, G!Waiting
  <2>4. CASE pc[g] # "failed"
    <3>1. Phase(g) \in {"new", "ended"}
      BY <2>2, <2>4 DEF Phase, G!Waiting
    <3>2. Phase(g) = "ended"
      BY <2>1, <3>1 DEF Trace
    <3>3. g \in MP!Recall(g) \/ <<"remove", g>> \in lost
      BY <2>1, <3>2 DEF MP!Kept, MP!Known, Held, MP!ToSet, ToSet
    <3> QED BY <3>3 DEF MP!Recall, MP!ToSet, ToSet
  <2> QED BY <2>3, <2>4
<1> QED BY <1>1, <1>2, <1>3, AlwaysFit, AlwaysBeside, PTL DEF Spec
=============================================================================
