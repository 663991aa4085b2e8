---------------------------- MODULE GrantWorkflow ----------------------------
(***************************************************************************)
(* GrantWorkflow (internal/grant/workflow.go) with its child               *)
(* ApprovalWorkflow (approval.go), the HTTP handlers that create, approve, *)
(* deny, revoke and extend grants (internal/server/handlers.go) and the    *)
(* user activities (activities.go), for several grants at once.            *)
(*                                                                         *)
(* As in TagManager, code between two blocking points is atomic, pc names  *)
(* the call a workflow is at, a blocked selector takes the first event     *)
(* that arrives, and an activity attempt may take effect and still be      *)
(* reported as failed.  Timers and ExpiresAt are countdowns; a timer that  *)
(* is due fires at any later time.  The device's tag manager appears only  *)
(* as the set of grants it was told to carry out.                          *)
(***************************************************************************)
EXTENDS Naturals, SequencesExt

CONSTANTS
  Grants,           (* Grant IDs, the request and the grant type fixed:   *)
  People,           (* Login names.                                       *)
  Nobody,           (* The empty login name.                              *)
  Requester,        (* Requester[g]: login name of the requester.         *)
  Approvers,        (* Approvers[g]: of the grant type.                   *)
  Risky,            (* Grants with RiskLevel > RiskLow.                   *)
  MaxDuration,      (* MaxDuration[g]: of the grant type, in ticks.       *)
  Action,           (* Action[g]: "tag", "user_role" or "user_restore".   *)
  Users,            (* Tailnet users that grants are about.               *)
  TargetUser,       (* TargetUser[g]: TargetUserID of the request.        *)
  Roles,            (* Roles of users.                                    *)
  NoRole,           (* The empty role.                                    *)
  GrantedRole,      (* GrantedRole[g]: userAction.role of the type.       *)
  FirstRole,        (* FirstRole[u]: role before any grant.               *)
  FirstSuspended,   (* Users suspended before any grant.                  *)
  ApprovalTimeout,  (* approvalTimeout in ticks.                          *)
  MaxAttempts,      (* MaximumAttempts of the activities.                 *)
  MaxFaults,        (* Bounds the run: failed attempts in all.            *)
  MaxSignals        (* Bounds the run: signals sent by people in all.     *)

ASSUME GrantsAssumption ==
  /\ Nobody \notin People /\ NoRole \notin Roles
  /\ Requester \in [Grants -> People]
  /\ Approvers \in [Grants -> SUBSET People]
  /\ Risky \subseteq Grants
  /\ MaxDuration \in [Grants -> Nat \ {0}]
  /\ Action \in [Grants -> {"tag", "user_role", "user_restore"}]
  /\ TargetUser \in [Grants -> Users]
  /\ GrantedRole \in [Grants -> Roles]
  /\ FirstRole \in [Users -> Roles]
  /\ FirstSuspended \subseteq Users
ASSUME LimitsAssumption ==
  /\ ApprovalTimeout \in Nat \ {0}
  /\ MaxAttempts \in Nat \ {0}
  /\ MaxFaults \in Nat /\ MaxSignals \in Nat

VARIABLES
  pc,           (* pc[g]: where GrantWorkflow g is.                       *)
  status,       (* status[g]: state.Status.                               *)
  approvedBy,   (* approvedBy[g]: state.ApprovedBy.                       *)
  originalRole, (* originalRole[g]: state.OriginalRole.                   *)
  duration,     (* duration[g]: request.Duration, then `remaining`.       *)
  expiresIn,    (* expiresIn[g]: ticks from now until state.ExpiresAt.    *)
  timer,        (* timer[g]: ticks until the expiry timer is due.         *)
  revokeCh,     (* revokeCh[g]: number of buffered revoke signals.        *)
  extendCh,     (* extendCh[g]: durations of buffered extend signals.     *)
  attempt,      (* attempt[g]: failed attempts of the running activity.   *)
  apc,          (* apc[g]: where ApprovalWorkflow g is.                   *)
  approveCh,    (* approveCh[g]: who signalled approve.                   *)
  denyCh,       (* denyCh[g]: number of buffered deny signals.            *)
  approvalLeft, (* approvalLeft[g]: ticks until the approval timer is due.*)
  approvalFired,(* approvalFired[g]: the approval timer has fired.        *)
  result,       (* result[g]: ApprovedBy of the ApprovalResult, or Nobody.*)
  checked,      (* Approve requests past their check, not yet signalled.  *)
  role,         (* role[u]: the user's role on the tailnet.               *)
  suspended,    (* The users suspended on the tailnet.                    *)
  told,         (* Tag grants whose manager was told to carry them out.   *)
  gaveUp,       (* Ghost: grants one of whose activities gave up.         *)
  faults, signals   (* Budgets used.                                      *)

stateVars == << status, approvedBy, originalRole, duration, expiresIn >>
waitVars  == << timer, revokeCh, extendCh >>
childVars == << apc, approveCh, denyCh, approvalLeft, approvalFired, result >>
worldVars == << role, suspended, told >>
retryVars == << attempt, gaveUp, faults >>
vars == << pc, stateVars, waitVars, childVars, worldVars, retryVars, checked, signals >>

-----------------------------------------------------------------------------
Waiting == {"select", "blocked", "wokenTimer", "wokenRevoke", "wokenExtend"}
Running == Waiting \cup {"start", "child", "addGrant", "getUser", "setRole",
             "restoreUser", "activate", "removeGrant", "revertRole", "suspendUser"}
PCs     == {"none", "done", "failed"} \cup Running
APCs    == {"none", "select", "blocked", "wokenApprove", "wokenDeny",
             "wokenTimer", "closed", "terminated"}
Open    == APCs \ {"none", "closed", "terminated"}
Statuses == {"pending_approval", "active", "expired", "revoked", "denied"}

Durations(g) == 1 .. MaxDuration[g]

Init ==
  /\ pc = [g \in Grants |-> "none"]
  /\ status = [g \in Grants |-> "pending_approval"]
  /\ approvedBy = [g \in Grants |-> Nobody]
  /\ originalRole = [g \in Grants |-> NoRole]
  /\ duration = [g \in Grants |-> 0]
  /\ expiresIn = [g \in Grants |-> 0]
  /\ timer = [g \in Grants |-> 0]
  /\ revokeCh = [g \in Grants |-> 0]
  /\ extendCh = [g \in Grants |-> <<>>]
  /\ attempt = [g \in Grants |-> 0]
  /\ apc = [g \in Grants |-> "none"]
  /\ approveCh = [g \in Grants |-> <<>>]
  /\ denyCh = [g \in Grants |-> 0]
  /\ approvalLeft = [g \in Grants |-> 0]
  /\ approvalFired = [g \in Grants |-> FALSE]
  /\ result = [g \in Grants |-> Nobody]
  /\ checked = {}
  /\ role = FirstRole
  /\ suspended = FirstSuspended
  /\ told = {}
  /\ gaveUp = {}
  /\ faults = 0 /\ signals = 0

Goto(g, to) == pc' = [pc EXCEPT ![g] = to]

(* An event wakes a workflow g that is blocked in its selector.            *)
Wakes(at, g, woken) == [at EXCEPT ![g] = IF @ = "blocked" THEN woken ELSE @]

-----------------------------------------------------------------------------
(* HTTP handlers (handlers.go).  SignalWorkflow fails, and the handler     *)
(* answers with an error, when the workflow is not running.                *)

Signal == signals < MaxSignals /\ signals' = signals + 1

(* HandleCreateGrant: 0 < duration <= MaxDuration, then a workflow starts. *)
HandleCreateGrant(g) ==
  /\ pc[g] = "none"
  /\ \E d \in Durations(g) : duration' = [duration EXCEPT ![g] = d]
  /\ Goto(g, "start")
  /\ UNCHANGED << status, approvedBy, originalRole, expiresIn, waitVars,
                  childVars, worldVars, retryVars, checked, signals >>

(* HandleApproveGrant, first half: query the grant's status.               *)
CheckApprove(g, p) ==
  /\ pc[g] # "none"
  /\ status[g] = "pending_approval"
  /\ p # Requester[g]
  /\ Signal
  /\ checked' = checked \cup {<<g, p>>}
  /\ UNCHANGED << pc, stateVars, waitVars, childVars, worldVars, retryVars >>

(* HandleApproveGrant, second half: signal the approval workflow.          *)
SendApprove(g, p) ==
  /\ <<g, p>> \in checked
  /\ checked' = checked \ {<<g, p>>}
  /\ IF apc[g] \in Open
       THEN /\ approveCh' = [approveCh EXCEPT ![g] = Append(@, p)]
            /\ apc' = Wakes(apc, g, "wokenApprove")
       ELSE UNCHANGED << approveCh, apc >>
  /\ UNCHANGED << pc, stateVars, waitVars, denyCh, approvalLeft, approvalFired,
                  result, worldVars, retryVars, signals >>

(* HandleDenyGrant: whoever asks.                                          *)
HandleDenyGrant(g) ==
  /\ apc[g] \in Open
  /\ Signal
  /\ denyCh' = [denyCh EXCEPT ![g] = @ + 1]
  /\ apc' = Wakes(apc, g, "wokenDeny")
  /\ UNCHANGED << pc, stateVars, waitVars, approveCh, approvalLeft, approvalFired,
                  result, worldVars, retryVars, checked >>

(* HandleRevokeGrant: whoever asks, whatever the status.                   *)
HandleRevokeGrant(g) ==
  /\ pc[g] \in Running
  /\ Signal
  /\ revokeCh' = [revokeCh EXCEPT ![g] = @ + 1]
  /\ pc' = Wakes(pc, g, "wokenRevoke")
  /\ UNCHANGED << stateVars, timer, extendCh, childVars, worldVars,
                  retryVars, checked >>

(* HandleExtendGrant: any positive duration; one over the maximum stands   *)
(* for all of them.                                                        *)
HandleExtendGrant(g) ==
  /\ pc[g] \in Running
  /\ Signal
  /\ \E d \in 1 .. MaxDuration[g] + 1 :
       extendCh' = [extendCh EXCEPT ![g] = Append(@, d)]
  /\ pc' = Wakes(pc, g, "wokenExtend")
  /\ UNCHANGED << stateVars, timer, revokeCh, childVars, worldVars,
                  retryVars, checked >>

(* An operator of the Temporal service terminates the approval workflow.   *)
TerminateApproval(g) ==
  /\ apc[g] \in Open
  /\ Signal
  /\ apc' = [apc EXCEPT ![g] = "terminated"]
  /\ UNCHANGED << pc, stateVars, waitVars, approveCh, denyCh, approvalLeft,
                  approvalFired, result, worldVars, retryVars, checked >>

-----------------------------------------------------------------------------
(* ApprovalWorkflow (approval.go).                                         *)

ApproveReady(g) ==
  apc[g] = "wokenApprove" \/ (apc[g] = "select" /\ approveCh[g] # <<>>)

DenyReady(g) ==
  \/ apc[g] = "wokenDeny"
  \/ apc[g] = "select" /\ approveCh[g] = <<>> /\ denyCh[g] > 0

(* Mutant: a timer that fires while something else is handled is missed.   *)
TimeoutSeenBlocked(g) == apc[g] = "wokenTimer"

TimeoutReady(g) ==
  \/ apc[g] = "wokenTimer"
  \/ apc[g] = "select" /\ approveCh[g] = <<>> /\ denyCh[g] = 0 /\ approvalFired[g]

(* Mutant: any approver will do, the requester included.                   *)
AnyoneApproves(g, p) == Approvers[g] = {} \/ p \in People

(* Neither the requester nor, if there is a list, somebody not on it.      *)
MayApprove(g, p) ==
  p # Requester[g] /\ (p \in Approvers[g] \/ Approvers[g] = {})

ApprovalQuiet ==
  UNCHANGED << pc, stateVars, waitVars, worldVars, retryVars, checked, signals >>

BlockApproval(g) ==
  /\ apc[g] = "select"
  /\ approveCh[g] = <<>> /\ denyCh[g] = 0 /\ ~approvalFired[g]
  /\ apc' = [apc EXCEPT ![g] = "blocked"]
  /\ UNCHANGED << approveCh, denyCh, approvalLeft, approvalFired, result >>
  /\ ApprovalQuiet

(* An approval that counts decides; any other is logged and forgotten.     *)
ReceiveApprove(g) ==
  LET p == Head(approveCh[g]) IN
  /\ ApproveReady(g)
  /\ approveCh' = [approveCh EXCEPT ![g] = Tail(@)]
  /\ IF MayApprove(g, p)
       THEN /\ result' = [result EXCEPT ![g] = p]
            /\ apc' = [apc EXCEPT ![g] = "closed"]
       ELSE /\ apc' = [apc EXCEPT ![g] = "select"]
            /\ UNCHANGED result
  /\ UNCHANGED << denyCh, approvalLeft, approvalFired >>
  /\ ApprovalQuiet

(* Denied, or timed out: the ApprovalResult has Approved = false.          *)
ReceiveDeny(g) ==
  /\ DenyReady(g) \/ TimeoutReady(g)
  /\ denyCh' = [denyCh EXCEPT ![g] = IF DenyReady(g) THEN @ - 1 ELSE @]
  /\ apc' = [apc EXCEPT ![g] = "closed"]
  /\ UNCHANGED << approveCh, approvalLeft, approvalFired, result >>
  /\ ApprovalQuiet

(* The server records that the approval timer fired.                       *)
ApprovalTimerFires(g) ==
  /\ apc[g] \in Open /\ approvalLeft[g] = 0 /\ ~approvalFired[g]
  /\ approvalFired' = [approvalFired EXCEPT ![g] = TRUE]
  /\ apc' = Wakes(apc, g, "wokenTimer")
  /\ UNCHANGED << approveCh, denyCh, approvalLeft, result >>
  /\ ApprovalQuiet

-----------------------------------------------------------------------------
(* GrantWorkflow (workflow.go): approval gate.                             *)

(* Where the switch on the action type leads at activation ...             *)
Activation(g) == [ tag |-> "addGrant", user_role |-> "getUser",
                   user_restore |-> "restoreUser" ][Action[g]]

(* Mutant: whatever was done to a user is left as it is.                   *)
RemoveGrantOnly(g) == "removeGrant"

(* ... and at deactivation.                                                *)
Deactivation(g) == [ tag |-> "removeGrant", user_role |-> "revertRole",
                     user_restore |-> "suspendUser" ][Action[g]]

(* Mutant: medium risk passes ungated.                                     *)
NeedsNoApproval(g) == FALSE

NeedsApproval(g) == g \in Risky

(* The workflow starts; a risky grant starts its approval child.           *)
Start(g) ==
  /\ pc[g] = "start"
  /\ IF NeedsApproval(g)
       THEN /\ Goto(g, "child")
            /\ apc' = [apc EXCEPT ![g] = "select"]
            /\ approvalLeft' = [approvalLeft EXCEPT ![g] = ApprovalTimeout]
       ELSE /\ Goto(g, Activation(g))
            /\ UNCHANGED << apc, approvalLeft >>
  /\ UNCHANGED << stateVars, waitVars, approveCh, denyCh, approvalFired, result,
                  worldVars, retryVars, checked, signals >>

(* The child's result comes back, or the error that it has none.           *)
ApprovalReturns(g) ==
  /\ pc[g] = "child"
  /\ \/ /\ apc[g] = "closed" /\ result[g] # Nobody
        /\ approvedBy' = [approvedBy EXCEPT ![g] = result[g]]
        /\ Goto(g, Activation(g))
        /\ UNCHANGED status
     \/ /\ apc[g] = "closed" /\ result[g] = Nobody
        /\ status' = [status EXCEPT ![g] = "denied"]
        /\ Goto(g, "done")
        /\ UNCHANGED approvedBy
     \/ /\ apc[g] = "terminated"
        /\ Goto(g, "failed")
        /\ UNCHANGED << status, approvedBy >>
  /\ UNCHANGED << originalRole, duration, expiresIn, waitVars, childVars,
                  worldVars, retryVars, checked, signals >>

-----------------------------------------------------------------------------
(* Activities of GrantWorkflow.                                            *)

Succeed(g, to) ==
  /\ Goto(g, to)
  /\ attempt' = [attempt EXCEPT ![g] = 0]
  /\ UNCHANGED << gaveUp, faults >>

(* Mutant: one attempt too many.                                           *)
OneRetryMore(failed) == failed + 1 =< MaxAttempts

(* Another attempt follows one that failed after `failed` others.          *)
RetriesLeft(failed) == failed + 1 < MaxAttempts

(* A failed attempt is retried, or the workflow goes on at `to`: "failed"  *)
(* (return state, err) at activation, "done" (logged) at deactivation.     *)
Fail(g, to) ==
  /\ faults < MaxFaults
  /\ faults' = faults + 1
  /\ IF RetriesLeft(attempt[g])
       THEN /\ attempt' = [attempt EXCEPT ![g] = @ + 1]
            /\ UNCHANGED << pc, gaveUp >>
       ELSE /\ Goto(g, to)
            /\ attempt' = [attempt EXCEPT ![g] = 0]
            /\ gaveUp' = gaveUp \cup {g}

(* A call that writes to the tailnet or to a tag manager.                  *)
Call(g, at, Write, same, ok, error) ==
  /\ pc[g] = at
  /\ \/ Write /\ Succeed(g, ok)
     \/ (Write \/ UNCHANGED same) /\ Fail(g, error)
  /\ UNCHANGED << stateVars, waitVars, childVars, checked, signals >>

SetRole(g, r) == role' = [role EXCEPT ![TargetUser[g]] = r]
Restored(g)   == suspended' = suspended \ {TargetUser[g]}
Suspended(g)  == suspended' = suspended \cup {TargetUser[g]}

SignalWithStartDeviceTagManager(g) ==
  /\ Call(g, "addGrant", told' = told \cup {g}, told, "activate", "failed")
  /\ UNCHANGED << role, suspended >>

GetUser(g) ==
  /\ pc[g] = "getUser"
  /\ \/ /\ originalRole' = [originalRole EXCEPT ![g] = role[TargetUser[g]]]
        /\ Succeed(g, "setRole")
     \/ Fail(g, "failed") /\ UNCHANGED originalRole
  /\ UNCHANGED << status, approvedBy, duration, expiresIn, waitVars, childVars,
                  worldVars, checked, signals >>

SetUserRole(g) ==
  /\ Call(g, "setRole", SetRole(g, GrantedRole[g]), role, "activate", "failed")
  /\ UNCHANGED << suspended, told >>

RestoreUser(g) ==
  /\ Call(g, "restoreUser", Restored(g), suspended, "activate", "failed")
  /\ UNCHANGED << role, told >>

(* Mutant: the role to go back to is the one the grant gave.               *)
GrantedAgain(g) == GrantedRole[g]

RoleToRestore(g) == originalRole[g]

RevertUserRole(g) ==
  /\ IF originalRole[g] = NoRole
       THEN /\ pc[g] = "revertRole"
            /\ Goto(g, "done")
            /\ UNCHANGED << stateVars, waitVars, childVars, role, retryVars,
                            checked, signals >>
       ELSE Call(g, "revertRole", SetRole(g, RoleToRestore(g)), role, "done", "done")
  /\ UNCHANGED << suspended, told >>

SuspendUser(g) ==
  /\ Call(g, "suspendUser", Suspended(g), suspended, "done", "done")
  /\ UNCHANGED << role, told >>

(* SignalExternalWorkflow: delivered, or no manager runs that could hold   *)
(* the grant; the error of the latter is only logged.                      *)
SignalRemoveGrant(g) ==
  /\ pc[g] = "removeGrant"
  /\ told' = told \ {g}
  /\ Goto(g, "done")
  /\ UNCHANGED << stateVars, waitVars, childVars, role, suspended, retryVars,
                  checked, signals >>

-----------------------------------------------------------------------------
(* GrantWorkflow: active until the timer, a revocation or an extension.    *)

LoopQuiet ==
  UNCHANGED << approvedBy, originalRole, childVars, worldVars, retryVars,
               checked, signals >>

(* state.ExpiresAt and the timer are set from the same duration.           *)
Arm(g, d) ==
  /\ expiresIn' = [expiresIn EXCEPT ![g] = d]
  /\ timer' = [timer EXCEPT ![g] = d]
  /\ duration' = [duration EXCEPT ![g] = d]

Activate(g) ==
  /\ pc[g] = "activate"
  /\ status' = [status EXCEPT ![g] = "active"]
  /\ Arm(g, duration[g])
  /\ Goto(g, "select")
  /\ UNCHANGED << revokeCh, extendCh >>
  /\ LoopQuiet

RevokeReady(g) ==
  pc[g] = "wokenRevoke" \/ (pc[g] = "select" /\ revokeCh[g] > 0)

ExtendReady(g) ==
  \/ pc[g] = "wokenExtend"
  \/ pc[g] = "select" /\ revokeCh[g] = 0 /\ extendCh[g] # <<>>

Block(g) ==
  /\ pc[g] = "select" /\ revokeCh[g] = 0 /\ extendCh[g] = <<>>
  /\ Goto(g, "blocked")
  /\ UNCHANGED << status, duration, expiresIn, waitVars >>
  /\ LoopQuiet

(* The server fires a due timer.  Had another event woken the workflow,    *)
(* the loop either ends or makes a new timer, so this firing is unseen.    *)
TimerFires(g) ==
  /\ pc[g] = "blocked" /\ timer[g] = 0
  /\ Goto(g, "wokenTimer")
  /\ UNCHANGED << status, duration, expiresIn, waitVars >>
  /\ LoopQuiet

Expire(g) ==
  /\ pc[g] = "wokenTimer"
  /\ status' = [status EXCEPT ![g] = "expired"]
  /\ Goto(g, Deactivation(g))
  /\ UNCHANGED << duration, expiresIn, waitVars >>
  /\ LoopQuiet

Revoke(g) ==
  /\ RevokeReady(g)
  /\ revokeCh' = [revokeCh EXCEPT ![g] = @ - 1]
  /\ status' = [status EXCEPT ![g] = "revoked"]
  /\ Goto(g, Deactivation(g))
  /\ UNCHANGED << duration, expiresIn, timer, extendCh >>
  /\ LoopQuiet

(* Mutant: the extension is not clamped.                                   *)
Unclamped(g, d) == d

Clamped(g, d) == IF d > MaxDuration[g] THEN MaxDuration[g] ELSE d

Extend(g) ==
  /\ ExtendReady(g)
  /\ Arm(g, Clamped(g, Head(extendCh[g])))
  /\ extendCh' = [extendCh EXCEPT ![g] = Tail(@)]
  /\ Goto(g, "select")
  /\ UNCHANGED << status, revokeCh >>
  /\ LoopQuiet

-----------------------------------------------------------------------------
Elapse(left) == [g \in Grants |-> IF left[g] > 0 THEN left[g] - 1 ELSE 0]

(* Time passes, except within a workflow task: workflow.Now stands still.  *)
Tick ==
  /\ \A g \in Grants : pc[g] # "select" /\ apc[g] # "select"
  /\ expiresIn' = Elapse(expiresIn)
  /\ timer' = Elapse(timer)
  /\ approvalLeft' = Elapse(approvalLeft)
  /\ UNCHANGED << pc, status, approvedBy, originalRole, duration, revokeCh, extendCh,
                  apc, approveCh, denyCh, approvalFired, result, worldVars,
                  retryVars, checked, signals >>

Person(g) ==
  \/ HandleCreateGrant(g)
  \/ \E p \in People : CheckApprove(g, p) \/ SendApprove(g, p)
  \/ HandleDenyGrant(g)
  \/ HandleRevokeGrant(g)
  \/ HandleExtendGrant(g)
  \/ TerminateApproval(g)

Workflow(g) ==
  \/ Start(g)
  \/ BlockApproval(g)
  \/ ReceiveApprove(g)
  \/ ReceiveDeny(g)
  \/ ApprovalTimerFires(g)
  \/ ApprovalReturns(g)
  \/ SignalWithStartDeviceTagManager(g)
  \/ GetUser(g)
  \/ SetUserRole(g)
  \/ RestoreUser(g)
  \/ Activate(g)
  \/ Block(g)
  \/ TimerFires(g)
  \/ Expire(g)
  \/ Revoke(g)
  \/ Extend(g)
  \/ RevertUserRole(g)
  \/ SuspendUser(g)
  \/ SignalRemoveGrant(g)

Next == Tick \/ \E g \in Grants : Person(g) \/ Workflow(g)

(* Temporal dispatches tasks and fires due timers, and time passes; what   *)
(* people ask for is up to them.                                           *)
Fairness == WF_vars(Tick) /\ \A g \in Grants : WF_vars(Workflow(g))

Spec == Init /\ [][Next]_vars /\ Fairness

-----------------------------------------------------------------------------
(* Properties.                                                             *)

(* Types of the variables.                                                 *)
TypeOK ==
  /\ pc \in [Grants -> PCs]
  /\ status \in [Grants -> Statuses]
  /\ approvedBy \in [Grants -> People \cup {Nobody}]
  /\ originalRole \in [Grants -> Roles \cup {NoRole}]
  /\ duration \in [Grants -> Nat]
  /\ expiresIn \in [Grants -> Nat]
  /\ timer \in [Grants -> Nat]
  /\ revokeCh \in [Grants -> Nat]
  /\ extendCh \in [Grants -> Seq(Nat \ {0})]
  /\ attempt \in [Grants -> 0 .. MaxAttempts - 1]
  /\ apc \in [Grants -> APCs]
  /\ approveCh \in [Grants -> Seq(People)]
  /\ denyCh \in [Grants -> Nat]
  /\ approvalLeft \in [Grants -> Nat]
  /\ approvalFired \in [Grants -> BOOLEAN]
  /\ result \in [Grants -> People \cup {Nobody}]
  /\ checked \in SUBSET (Grants \X People)
  /\ role \in [Users -> Roles]
  /\ suspended \in SUBSET Users
  /\ told \in SUBSET Grants
  /\ gaveUp \in SUBSET Grants
  /\ faults \in Nat /\ signals \in Nat

(* A stage of GrantLifecycle: status says nothing before the request and   *)
(* when the workflow failed.                                               *)
Stage(g) ==
  IF pc[g] \in {"none", "failed"} THEN pc[g]
  ELSE IF status[g] = "pending_approval" THEN "pending" ELSE status[g]

Promise == INSTANCE GrantLifecycle
             WITH stage <- [g \in Grants |-> Stage(g)], approver <- approvedBy

(* Every grant lives as GrantLifecycle promises: approved, if risky, by an *)
(* approver who is not the requester before it becomes active, never       *)
(* expired before ExpiresAt, never set more than MaxDuration ahead by an   *)
(* activation or an extension, and final once it is over.                  *)
KeepsPromise == Promise!Spec

(* A grant that may be carried out: approved unless its risk is low.       *)
Permitted(g) == g \in Risky => approvedBy[g] # Nobody /\ Promise!MayApprove(g, approvedBy[g])

GrantsFor(u, action) == {g \in Grants : TargetUser[g] = u /\ Action[g] = action}

(* Nothing happens on the tailnet on behalf of a grant that nobody with    *)
(* the right to do so approved, whatever is retried or raced.              *)
EffectNeedsApproval ==
  /\ \A g \in told : Permitted(g)
  /\ \A u \in Users :
       /\ role[u] # FirstRole[u] =>
            \E g \in GrantsFor(u, "user_role") : pc[g] # "none" /\ Permitted(g)
       /\ u \in FirstSuspended \ suspended =>
            \E g \in GrantsFor(u, "user_restore") : pc[g] # "none" /\ Permitted(g)

(* g is the only grant of its kind about its user.                         *)
Alone(g) == GrantsFor(TargetUser[g], Action[g]) = {g}

(* The effect of g is in place, and is what was there before g.            *)
InPlace(g) ==
  CASE Action[g] = "tag"          -> g \in told
    [] Action[g] = "user_role"    -> role[TargetUser[g]] = GrantedRole[g]
    [] Action[g] = "user_restore" -> TargetUser[g] \notin suspended
Undone(g) ==
  CASE Action[g] = "tag"          -> g \notin told
    [] Action[g] = "user_role"    -> role[TargetUser[g]] = FirstRole[TargetUser[g]]
    [] Action[g] = "user_restore" ->
         TargetUser[g] \in FirstSuspended => TargetUser[g] \in suspended

(* The role to go back to is the one that was found.                       *)
Recorded(g) ==
  Action[g] = "user_role" => originalRole[g] = FirstRole[TargetUser[g]]

(* As long as no other grant touches the same user: an active grant is in  *)
(* effect, and one whose workflow returned without an activity giving up   *)
(* left the user as it was found.  One that failed left nothing, or its    *)
(* own effect with the role to go back to on record.                       *)
EffectFollowsStatus ==
  \A g \in Grants :
    Alone(g) =>
      /\ status[g] = "active" => InPlace(g)
      /\ pc[g] = "done" /\ g \notin gaveUp => Undone(g)
      /\ pc[g] = "failed" => Undone(g) \/ (InPlace(g) /\ Recorded(g))

(* A requested grant does not hang: it is denied or it fails, or it becomes*)
(* active and then ends, people's signals being finitely many.             *)
EventuallyOver ==
  \A g \in Grants : pc[g] = "start" ~> pc[g] \in {"done", "failed"}

-----------------------------------------------------------------------------
(* What the repository says of this component and the code does not do.    *)

Over(g) == pc[g] \in {"none", "done", "failed"}

(* README.md: "Elevate user role, revert on expiry".                       *)
RolesRevert ==
  \A u \in Users :
    (\A g \in GrantsFor(u, "user_role") : Over(g)) => role[u] = FirstRole[u]
=============================================================================
