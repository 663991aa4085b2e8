------------------------ MODULE GrantWorkflowProofs ------------------------
(***************************************************************************)
(* Theorems about GrantWorkflow, for every value of its constants: types,  *)
(* approval before effect, effects that follow the status, and that every  *)
(* grant lives as GrantLifecycle promises.                                 *)
(***************************************************************************)
EXTENDS GrantWorkflow, SequenceTheorems, TLAPS

(* A selector woken by a signal finds that signal buffered.                *)
Buffered ==
  \A g \in Grants :
    /\ pc[g] = "wokenRevoke" => revokeCh[g] > 0
    /\ pc[g] = "wokenExtend" => extendCh[g] # <<>>
    /\ apc[g] = "wokenApprove" => approveCh[g] # <<>>
    /\ apc[g] = "wokenDeny" => denyCh[g] > 0

-----------------------------------------------------------------------------
(* Facts about the operators.                                              *)

(* Where a grant goes on to is a place in the workflow.                    *)
LEMMA GotoType ==
  ASSUME pc \in [Grants -> PCs], NEW g \in Grants, NEW to \in PCs, Goto(g, to)
  PROVE  /\ pc' \in [Grants -> PCs]
         /\ pc'[g] = to
         /\ \A h \in Grants \ {g} : pc'[h] = pc[h]
BY DEF Goto

(* An event that arrives wakes a workflow or its child, or leaves it.      *)
LEMMA WakesType ==
  ASSUME TypeOK, NEW g \in Grants
  PROVE  /\ \A woken \in PCs :
              /\ Wakes(pc, g, woken) \in [Grants -> PCs]
              /\ \/ pc[g] = "blocked" /\ Wakes(pc, g, woken)[g] = woken
                 \/ pc[g] # "blocked" /\ Wakes(pc, g, woken)[g] = pc[g]
              /\ \A h \in Grants \ {g} : Wakes(pc, g, woken)[h] = pc[h]
         /\ \A woken \in APCs :
              /\ Wakes(apc, g, woken) \in [Grants -> APCs]
              /\ Wakes(apc, g, woken)[g] \in {apc[g], woken}
              /\ \A h \in Grants \ {g} : Wakes(apc, g, woken)[h] = apc[h]
BY DEF Wakes, TypeOK

(* What the switch on the action type leads to.                            *)
LEMMA Branches ==
  ASSUME NEW g \in Grants
  PROVE  /\ \/ Action[g] = "tag" /\ Activation(g) = "addGrant"
                                 /\ Deactivation(g) = "removeGrant"
            \/ Action[g] = "user_role" /\ Activation(g) = "getUser"
                                       /\ Deactivation(g) = "revertRole"
            \/ Action[g] = "user_restore" /\ Activation(g) = "restoreUser"
                                          /\ Deactivation(g) = "suspendUser"
         /\ Activation(g) \in PCs /\ Deactivation(g) \in PCs
BY GrantsAssumption DEF Activation, Deactivation, PCs, Running

(* The clamp keeps a positive extension within what the type allows.       *)
LEMMA ClampedRange ==
  ASSUME NEW g \in Grants, NEW d \in Nat \ {0}
  PROVE  Clamped(g, d) \in Durations(g)
BY GrantsAssumption DEF Clamped, Durations

(* Countdowns stay at zero and never go below it.                          *)
LEMMA ElapseType ==
  ASSUME NEW left \in [Grants -> Nat]
  PROVE  /\ Elapse(left) \in [Grants -> Nat]
         /\ \A g \in Grants : left[g] = 0 => Elapse(left)[g] = 0
BY DEF Elapse

-----------------------------------------------------------------------------
(* Type correctness, one lemma for each group of actions.                  *)

Typed == TypeOK /\ Buffered

(* The initial state has the right types.                                  *)
LEMMA InitType == Init => Typed
BY GrantsAssumption, LimitsAssumption
   DEF Init, Typed, TypeOK, Buffered, PCs, APCs, Statuses

(* What people do keeps the types.                                         *)
LEMMA PersonType ==
  ASSUME Typed, NEW g \in Grants, Person(g)
  PROVE  Typed'
<1> USE DEF stateVars, waitVars, childVars, worldVars, retryVars
<1>1. CASE HandleCreateGrant(g)
  <2>1. PICK d \in Durations(g) : duration' = [duration EXCEPT ![g] = d]
    BY <1>1 DEF HandleCreateGrant
  <2>2. duration' \in [Grants -> Nat]
    BY <2>1, GrantsAssumption DEF Typed, TypeOK, Durations
  <2>3. pc' \in [Grants -> PCs] /\ \A h \in Grants : pc'[h] \in {pc[h], "start"}
    BY <1>1, GotoType DEF HandleCreateGrant, Typed, TypeOK, PCs, Running
  <2> QED BY <1>1, <2>2, <2>3 DEF HandleCreateGrant, Typed, TypeOK, Buffered
<1>2. ASSUME NEW p \in People, CheckApprove(g, p)
      PROVE  Typed'
  <2>1. checked' = checked \cup {<<g, p>>} /\ signals' = signals + 1
    BY <1>2 DEF CheckApprove, Signal
  <2>2. checked \in SUBSET (Grants \X People) /\ signals \in Nat
    BY DEF Typed, TypeOK
  <2>3. <<g, p>> \in Grants \X People
    OBVIOUS
  <2>4. checked' \in SUBSET (Grants \X People) /\ signals' \in Nat
    BY <2>1, <2>2, <2>3
  <2> QED BY <1>2, <2>4 DEF CheckApprove, Typed, TypeOK, Buffered
<1>3. ASSUME NEW p \in People, SendApprove(g, p)
      PROVE  Typed'
  <2>1. checked' \in SUBSET (Grants \X People)
    BY <1>3 DEF SendApprove, Typed, TypeOK
  <2>2. CASE apc[g] \in Open
    <3>1. /\ approveCh' = [approveCh EXCEPT ![g] = Append(@, p)]
          /\ apc' = Wakes(apc, g, "wokenApprove")
      BY <1>3, <2>2 DEF SendApprove
    <3>2. approveCh[g] \in Seq(People)
      BY DEF Typed, TypeOK
    <3>3. Append(approveCh[g], p) \in Seq(People) /\ Append(approveCh[g], p) # <<>>
      BY <3>2, AppendProperties
    <3>4. approveCh' \in [Grants -> Seq(People)] /\ approveCh'[g] # <<>>
          /\ \A h \in Grants \ {g} : approveCh'[h] = approveCh[h]
      BY <3>1, <3>3 DEF Typed, TypeOK
    <3>5. /\ apc' \in [Grants -> APCs]
          /\ apc'[g] \in {apc[g], "wokenApprove"}
          /\ \A h \in Grants \ {g} : apc'[h] = apc[h]
      <4>1. "wokenApprove" \in APCs
        BY DEF APCs
      <4> QED BY <3>1, <4>1, WakesType DEF Typed
    <3> QED BY <1>3, <2>1, <3>4, <3>5 DEF SendApprove, Typed, TypeOK, Buffered
  <2>3. CASE apc[g] \notin Open
    BY <1>3, <2>1, <2>3 DEF SendApprove, Typed, TypeOK, Buffered
  <2> QED BY <2>2, <2>3
<1>4. CASE HandleDenyGrant(g)
  <2>1. denyCh' \in [Grants -> Nat] /\ \A h \in Grants : denyCh[h] > 0 => denyCh'[h] > 0
    BY <1>4 DEF HandleDenyGrant, Typed, TypeOK
  <2>2. denyCh'[g] > 0
    BY <1>4 DEF HandleDenyGrant, Typed, TypeOK
  <2>3. /\ apc' \in [Grants -> APCs]
        /\ apc'[g] \in {apc[g], "wokenDeny"}
        /\ \A h \in Grants \ {g} : apc'[h] = apc[h]
    <3>1. "wokenDeny" \in APCs
      BY DEF APCs
    <3>2. apc' = Wakes(apc, g, "wokenDeny")
      BY <1>4 DEF HandleDenyGrant
    <3> QED BY <3>1, <3>2, WakesType DEF Typed
  <2>4. signals' \in Nat
    BY <1>4 DEF HandleDenyGrant, Signal, Typed, TypeOK
  <2> QED BY <1>4, <2>1, <2>2, <2>3, <2>4 DEF HandleDenyGrant, Typed, TypeOK, Buffered
<1>5. CASE HandleRevokeGrant(g)
  <2>1. revokeCh' \in [Grants -> Nat] /\ \A h \in Grants : revokeCh[h] > 0 => revokeCh'[h] > 0
    BY <1>5 DEF HandleRevokeGrant, Typed, TypeOK
  <2>2. revokeCh'[g] > 0
    BY <1>5 DEF HandleRevokeGrant, Typed, TypeOK
  <2>3. /\ pc' \in [Grants -> PCs]
        /\ pc'[g] \in {pc[g], "wokenRevoke"}
        /\ \A h \in Grants \ {g} : pc'[h] = pc[h]
    <3>1. "wokenRevoke" \in PCs
      BY DEF PCs, Running, Waiting
    <3>2. pc' = Wakes(pc, g, "wokenRevoke")
      BY <1>5 DEF HandleRevokeGrant
    <3> QED BY <3>1, <3>2, WakesType DEF Typed
  <2>4. signals' \in Nat
    BY <1>5 DEF HandleRevokeGrant, Signal, Typed, TypeOK
  <2> QED BY <1>5, <2>1, <2>2, <2>3, <2>4 DEF HandleRevokeGrant, Typed, TypeOK, Buffered
<1>6. CASE HandleExtendGrant(g)
  <2>1. PICK d \in 1 .. MaxDuration[g] + 1 :
          extendCh' = [extendCh EXCEPT ![g] = Append(@, d)]
    BY <1>6 DEF HandleExtendGrant
  <2>2. d \in Nat \ {0} /\ extendCh[g] \in Seq(Nat \ {0})
    BY <2>1, GrantsAssumption DEF Typed, TypeOK
  <2>3. Append(extendCh[g], d) \in Seq(Nat \ {0}) /\ Append(extendCh[g], d) # <<>>
    BY <2>2, AppendProperties
  <2>4. extendCh' \in [Grants -> Seq(Nat \ {0})] /\ extendCh'[g] # <<>>
        /\ \A h \in Grants \ {g} : extendCh'[h] = extendCh[h]
    BY <2>1, <2>3 DEF Typed, TypeOK
  <2>5. /\ pc' \in [Grants -> PCs]
        /\ pc'[g] \in {pc[g], "wokenExtend"}
        /\ \A h \in Grants \ {g} : pc'[h] = pc[h]
    <3>1. "wokenExtend" \in PCs
      BY DEF PCs, Running, Waiting
    <3>2. pc' = Wakes(pc, g, "wokenExtend")
      BY <1>6 DEF HandleExtendGrant
    <3> QED BY <3>1, <3>2, WakesType DEF Typed
  <2>6. signals' \in Nat
    BY <1>6 DEF HandleExtendGrant, Signal, Typed, TypeOK
  <2>7. UNCHANGED << stateVars, timer, revokeCh, childVars, worldVars, retryVars, checked >>
    BY <1>6 DEF HandleExtendGrant
  <2>8. TypeOK'
    BY <2>4, <2>5, <2>6, <2>7 DEF Typed, TypeOK
  <2>9. Buffered'
    BY <2>4, <2>5, <2>7 DEF Typed, Buffered
  <2> QED BY <2>8, <2>9 DEF Typed
<1>7. CASE TerminateApproval(g)
  <2>1. /\ apc' \in [Grants -> APCs] /\ apc'[g] = "terminated"
        /\ \A h \in Grants \ {g} : apc'[h] = apc[h]
    BY <1>7 DEF TerminateApproval, Typed, TypeOK, APCs
  <2>2. signals' \in Nat
    BY <1>7 DEF TerminateApproval, Signal, Typed, TypeOK
  <2> QED BY <1>7, <2>1, <2>2 DEF TerminateApproval, Typed, TypeOK, Buffered
<1> QED BY <1>1, <1>2, <1>3, <1>4, <1>5, <1>6, <1>7 DEF Person

(* The approval workflow, its start and its return keep the types.         *)
LEMMA ApprovalType ==
  ASSUME Typed, NEW g \in Grants,
         \/ Start(g) \/ BlockApproval(g) \/ ReceiveApprove(g) \/ ReceiveDeny(g)
         \/ ApprovalTimerFires(g) \/ ApprovalReturns(g)
  PROVE  Typed'
<1> USE DEF stateVars, waitVars, childVars, worldVars, retryVars
<1>1. CASE Start(g)
  <2>1. /\ pc' \in [Grants -> PCs] /\ pc'[g] \notin {"wokenRevoke", "wokenExtend"}
        /\ \A h \in Grants \ {g} : pc'[h] = pc[h]
    <3> pc \in [Grants -> PCs]
      BY DEF Typed, TypeOK
    <3>1. CASE Goto(g, "child")
      <4>1. "child" \in PCs
        BY DEF PCs, Running
      <4> QED BY <3>1, <4>1, GotoType
    <3>2. CASE Goto(g, Activation(g))
      BY <3>2, GotoType, Branches
    <3> QED BY <1>1, <3>1, <3>2 DEF Start
  <2>2. /\ apc' \in [Grants -> APCs] /\ \A h \in Grants : apc'[h] \in {apc[h], "select"}
        /\ approvalLeft' \in [Grants -> Nat]
    <3>1. /\ apc \in [Grants -> APCs] /\ approvalLeft \in [Grants -> Nat]
          /\ "select" \in APCs /\ ApprovalTimeout \in Nat
      BY LimitsAssumption DEF Typed, TypeOK, APCs
    <3>2. \/ /\ apc' = [apc EXCEPT ![g] = "select"]
             /\ approvalLeft' = [approvalLeft EXCEPT ![g] = ApprovalTimeout]
          \/ UNCHANGED << apc, approvalLeft >>
      BY <1>1 DEF Start
    <3> QED BY <3>1, <3>2
  <2> QED BY <1>1, <2>1, <2>2 DEF Start, Typed, TypeOK, Buffered
<1>2. CASE BlockApproval(g)
  BY <1>2 DEF BlockApproval, ApprovalQuiet, Typed, TypeOK, Buffered, APCs
<1>3. CASE ReceiveApprove(g)
  <2>1. approveCh[g] # <<>> /\ approveCh[g] \in Seq(People)
    BY <1>3 DEF ReceiveApprove, ApproveReady, Typed, TypeOK, Buffered
  <2>2. Head(approveCh[g]) \in People /\ Tail(approveCh[g]) \in Seq(People)
    BY <2>1
  <2>3. /\ approveCh' \in [Grants -> Seq(People)]
        /\ \A h \in Grants \ {g} : approveCh'[h] = approveCh[h]
    BY <1>3, <2>2 DEF ReceiveApprove, Typed, TypeOK
  <2>4. /\ result' \in [Grants -> People \cup {Nobody}]
        /\ apc' \in [Grants -> APCs] /\ apc'[g] \in {"closed", "select"}
        /\ \A h \in Grants \ {g} : apc'[h] = apc[h]
    <3>1. /\ \/ result' = [result EXCEPT ![g] = Head(approveCh[g])] \/ UNCHANGED result
          /\ \E to \in {"closed", "select"} : apc' = [apc EXCEPT ![g] = to]
      BY <1>3 DEF ReceiveApprove
    <3>2. result \in [Grants -> People \cup {Nobody}] /\ apc \in [Grants -> APCs]
      BY DEF Typed, TypeOK
    <3>3. {"closed", "select"} \subseteq APCs
      BY DEF APCs
    <3> QED BY <2>2, <3>1, <3>2, <3>3
  <2> QED BY <1>3, <2>3, <2>4 DEF ReceiveApprove, ApprovalQuiet, Typed, TypeOK, Buffered
<1>4. CASE ReceiveDeny(g)
  <2>1. DenyReady(g) => denyCh[g] > 0
    BY DEF DenyReady, Typed, Buffered
  <2>2. /\ denyCh' \in [Grants -> Nat]
        /\ \A h \in Grants \ {g} : denyCh'[h] = denyCh[h]
    BY <1>4, <2>1 DEF ReceiveDeny, Typed, TypeOK
  <2>3. /\ apc' \in [Grants -> APCs] /\ apc'[g] = "closed"
        /\ \A h \in Grants \ {g} : apc'[h] = apc[h]
    BY <1>4 DEF ReceiveDeny, Typed, TypeOK, APCs
  <2> QED BY <1>4, <2>2, <2>3 DEF ReceiveDeny, ApprovalQuiet, Typed, TypeOK, Buffered
<1>5. CASE ApprovalTimerFires(g)
  <2>1. "wokenTimer" \in APCs
    BY DEF APCs
  <2>2. apc' = Wakes(apc, g, "wokenTimer")
    BY <1>5 DEF ApprovalTimerFires
  <2>3. /\ apc' \in [Grants -> APCs] /\ apc'[g] \in {apc[g], "wokenTimer"}
        /\ \A h \in Grants \ {g} : apc'[h] = apc[h]
    BY <2>1, <2>2, WakesType DEF Typed
  <2> QED BY <1>5, <2>3 DEF ApprovalTimerFires, ApprovalQuiet, Typed, TypeOK, Buffered
<1>6. CASE ApprovalReturns(g)
  <2>1. /\ approvedBy' \in [Grants -> People \cup {Nobody}]
        /\ status' \in [Grants -> Statuses]
    BY <1>6 DEF ApprovalReturns, Typed, TypeOK, Statuses
  <2>2. /\ pc' \in [Grants -> PCs] /\ pc'[g] \notin {"wokenRevoke", "wokenExtend"}
        /\ \A h \in Grants \ {g} : pc'[h] = pc[h]
    <3> pc \in [Grants -> PCs]
      BY DEF Typed, TypeOK
    <3>1. CASE Goto(g, "done") \/ Goto(g, "failed")
      <4>1. {"done", "failed"} \subseteq PCs
        BY DEF PCs
      <4> QED BY <3>1, <4>1, GotoType
    <3>2. CASE Goto(g, Activation(g))
      BY <3>2, GotoType, Branches
    <3> QED BY <1>6, <3>1, <3>2 DEF ApprovalReturns
  <2> QED BY <1>6, <2>1, <2>2 DEF ApprovalReturns, Typed, TypeOK, Buffered
<1> QED BY <1>1, <1>2, <1>3, <1>4, <1>5, <1>6

(* A call that returns, or an attempt that fails, for good or not.         *)
LEMMA CallReturns ==
  ASSUME Typed, NEW g \in Grants, NEW to \in PCs, Succeed(g, to) \/ Fail(g, to)
  PROVE  /\ pc' \in [Grants -> PCs] /\ pc'[g] \in {pc[g], to}
         /\ \A h \in Grants \ {g} : pc'[h] = pc[h]
         /\ attempt' \in [Grants -> 0 .. MaxAttempts - 1]
         /\ gaveUp' \in SUBSET Grants /\ faults' \in Nat
<1>1. CASE Succeed(g, to)
  <2>1. attempt' \in [Grants -> 0 .. MaxAttempts - 1]
    BY <1>1, LimitsAssumption DEF Succeed, Typed, TypeOK
  <2>2. Goto(g, to) /\ gaveUp' \in SUBSET Grants /\ faults' \in Nat
    BY <1>1 DEF Succeed, Typed, TypeOK
  <2> QED BY <2>1, <2>2, GotoType DEF Typed, TypeOK
<1>2. CASE Fail(g, to)
  <2>1. faults' \in Nat
    BY <1>2 DEF Fail, Typed, TypeOK
  <2>2. CASE RetriesLeft(attempt[g])
    <3>1. attempt[g] + 1 \in 0 .. MaxAttempts - 1
      BY <2>2, LimitsAssumption DEF RetriesLeft, Typed, TypeOK
    <3> QED BY <1>2, <2>1, <2>2, <3>1 DEF Fail, Typed, TypeOK
  <2>3. CASE ~RetriesLeft(attempt[g])
    <3>1. attempt' \in [Grants -> 0 .. MaxAttempts - 1]
      <4>1. 0 \in 0 .. MaxAttempts - 1
        BY LimitsAssumption
      <4>2. attempt' = [attempt EXCEPT ![g] = 0]
        BY <1>2, <2>3 DEF Fail
      <4> QED BY <4>1, <4>2 DEF Typed, TypeOK
    <3>2. Goto(g, to) /\ gaveUp' \in SUBSET Grants
      BY <1>2, <2>3 DEF Fail, Typed, TypeOK
    <3> QED BY <2>1, <3>1, <3>2, GotoType DEF Typed, TypeOK
  <2> QED BY <2>2, <2>3
<1> QED BY <1>1, <1>2

(* What a call changes besides its own bookkeeping.                        *)
LEMMA CallFrame ==
  ASSUME Typed, NEW g \in Grants, NEW to \in PCs, Succeed(g, to) \/ Fail(g, to),
         to \notin {"wokenRevoke", "wokenExtend"},
         UNCHANGED << status, approvedBy, duration, expiresIn, waitVars, childVars,
                      checked, signals >>,
         originalRole' \in [Grants -> Roles \cup {NoRole}], role' \in [Users -> Roles],
         suspended' \in SUBSET Users, told' \in SUBSET Grants
  PROVE  Typed'
<1>1. /\ pc' \in [Grants -> PCs] /\ pc'[g] \in {pc[g], to}
      /\ \A h \in Grants \ {g} : pc'[h] = pc[h]
      /\ attempt' \in [Grants -> 0 .. MaxAttempts - 1]
      /\ gaveUp' \in SUBSET Grants /\ faults' \in Nat
  BY CallReturns
<1> QED BY <1>1 DEF Typed, TypeOK, Buffered, waitVars, childVars

(* The activities keep the types.                                          *)
LEMMA ActivityType ==
  ASSUME Typed, NEW g \in Grants,
         \/ SignalWithStartDeviceTagManager(g) \/ GetUser(g) \/ SetUserRole(g)
         \/ RestoreUser(g) \/ RevertUserRole(g) \/ SuspendUser(g) \/ SignalRemoveGrant(g)
  PROVE  Typed'
<1> USE DEF stateVars
<1>0. {"activate", "failed", "setRole", "done"} \subseteq PCs
  BY DEF PCs, Running
<1>1. TargetUser[g] \in Users /\ GrantedRole[g] \in Roles
  BY GrantsAssumption
<1>2. CASE SignalWithStartDeviceTagManager(g)
  <2>1. /\ Succeed(g, "activate") \/ Fail(g, "failed")
        /\ told' \in SUBSET Grants
        /\ UNCHANGED << status, approvedBy, duration, expiresIn, waitVars, childVars,
                        checked, signals, originalRole, role, suspended >>
    BY <1>2 DEF SignalWithStartDeviceTagManager, Call, Typed, TypeOK
  <2>2. /\ originalRole' \in [Grants -> Roles \cup {NoRole}] /\ role' \in [Users -> Roles]
        /\ suspended' \in SUBSET Users
    BY <2>1 DEF Typed, TypeOK
  <2> QED BY <1>0, <2>1, <2>2, CallFrame
<1>3. CASE GetUser(g)
  <2>1. /\ Succeed(g, "setRole") \/ Fail(g, "failed")
        /\ originalRole' = [originalRole EXCEPT ![g] = role[TargetUser[g]]]
           \/ UNCHANGED originalRole
        /\ UNCHANGED << status, approvedBy, duration, expiresIn, waitVars, childVars,
                        checked, signals, role, suspended, told >>
    BY <1>3 DEF GetUser, worldVars
  <2>2. /\ originalRole' \in [Grants -> Roles \cup {NoRole}] /\ role' \in [Users -> Roles]
        /\ suspended' \in SUBSET Users /\ told' \in SUBSET Grants
    BY <1>1, <2>1 DEF Typed, TypeOK
  <2> QED BY <1>0, <2>1, <2>2, CallFrame
<1>4. CASE SetUserRole(g)
  <2>1. /\ Succeed(g, "activate") \/ Fail(g, "failed")
        /\ SetRole(g, GrantedRole[g]) \/ UNCHANGED role
        /\ UNCHANGED << status, approvedBy, duration, expiresIn, waitVars, childVars,
                        checked, signals, originalRole, told, suspended >>
    BY <1>4 DEF SetUserRole, Call
  <2>2. /\ originalRole' \in [Grants -> Roles \cup {NoRole}] /\ role' \in [Users -> Roles]
        /\ suspended' \in SUBSET Users /\ told' \in SUBSET Grants
    BY <1>1, <2>1 DEF Typed, TypeOK, SetRole
  <2> QED BY <1>0, <2>1, <2>2, CallFrame
<1>5. CASE RestoreUser(g)
  <2>1. /\ Succeed(g, "activate") \/ Fail(g, "failed")
        /\ Restored(g) \/ UNCHANGED suspended
        /\ UNCHANGED << status, approvedBy, duration, expiresIn, waitVars, childVars,
                        checked, signals, originalRole, told, role >>
    BY <1>5 DEF RestoreUser, Call
  <2>2. /\ originalRole' \in [Grants -> Roles \cup {NoRole}] /\ role' \in [Users -> Roles]
        /\ suspended' \in SUBSET Users /\ told' \in SUBSET Grants
    BY <1>1, <2>1 DEF Typed, TypeOK, Restored
  <2> QED BY <1>0, <2>1, <2>2, CallFrame
<1>6. CASE RevertUserRole(g)
  <2>1. CASE originalRole[g] = NoRole
    <3>1. Goto(g, "done")
      BY <1>6, <2>1 DEF RevertUserRole
    <3>2. /\ pc' \in [Grants -> PCs] /\ pc'[g] = "done"
          /\ \A h \in Grants \ {g} : pc'[h] = pc[h]
      BY <1>0, <3>1, GotoType DEF Typed, TypeOK
    <3> QED
      BY <1>6, <2>1, <3>2 DEF RevertUserRole, Typed, TypeOK, Buffered, waitVars, childVars,
                              retryVars
  <2>2. CASE originalRole[g] # NoRole
    <3>1. /\ Succeed(g, "done") \/ Fail(g, "done")
          /\ SetRole(g, originalRole[g]) \/ UNCHANGED role
          /\ UNCHANGED << status, approvedBy, duration, expiresIn, waitVars, childVars,
                          checked, signals, originalRole, told, suspended >>
      BY <1>6, <2>2 DEF RevertUserRole, RoleToRestore, Call
    <3>2. /\ originalRole' \in [Grants -> Roles \cup {NoRole}] /\ role' \in [Users -> Roles]
          /\ suspended' \in SUBSET Users /\ told' \in SUBSET Grants
      BY <1>1, <2>2, <3>1 DEF Typed, TypeOK, SetRole
    <3> QED BY <1>0, <3>1, <3>2, CallFrame
  <2> QED BY <2>1, <2>2
<1>7. CASE SuspendUser(g)
  <2>1. /\ Succeed(g, "done") \/ Fail(g, "done")
        /\ Suspended(g) \/ UNCHANGED suspended
        /\ UNCHANGED << status, approvedBy, duration, expiresIn, waitVars, childVars,
                        checked, signals, originalRole, told, role >>
    BY <1>7 DEF SuspendUser, Call
  <2>2. /\ originalRole' \in [Grants -> Roles \cup {NoRole}] /\ role' \in [Users -> Roles]
        /\ suspended' \in SUBSET Users /\ told' \in SUBSET Grants
    BY <1>1, <2>1 DEF Typed, TypeOK, Suspended
  <2> QED BY <1>0, <2>1, <2>2, CallFrame
<1>8. CASE SignalRemoveGrant(g)
  <2>1. /\ pc' \in [Grants -> PCs] /\ pc'[g] = "done"
        /\ \A h \in Grants \ {g} : pc'[h] = pc[h]
    BY <1>0, <1>8, GotoType DEF SignalRemoveGrant, Typed, TypeOK
  <2> QED
    BY <1>8, <2>1 DEF SignalRemoveGrant, Typed, TypeOK, Buffered, waitVars, childVars,
                      retryVars
<1> QED BY <1>2, <1>3, <1>4, <1>5, <1>6, <1>7, <1>8

(* Activation, expiry, revocation and extension keep the types.            *)
LEMMA LoopType ==
  ASSUME Typed, NEW g \in Grants,
         \/ Activate(g) \/ Block(g) \/ TimerFires(g) \/ Expire(g) \/ Revoke(g) \/ Extend(g)
  PROVE  Typed'
<1> USE DEF waitVars, childVars, worldVars, retryVars, LoopQuiet
<1>1. ASSUME NEW d \in Nat, Arm(g, d)
      PROVE  expiresIn' \in [Grants -> Nat] /\ timer' \in [Grants -> Nat]
             /\ duration' \in [Grants -> Nat]
  BY <1>1 DEF Arm, Typed, TypeOK
<1>2. ASSUME NEW to \in {"select", "blocked", "wokenTimer", Deactivation(g)}, Goto(g, to)
      PROVE  /\ pc' \in [Grants -> PCs] /\ pc'[g] \notin {"wokenRevoke", "wokenExtend"}
             /\ \A h \in Grants \ {g} : pc'[h] = pc[h]
  <2>1. to \in PCs /\ to \notin {"wokenRevoke", "wokenExtend"}
    BY Branches DEF PCs, Running, Waiting
  <2> QED BY <1>2, <2>1, GotoType DEF Typed, TypeOK
<1>3. CASE Activate(g)
  <2>1. duration[g] \in Nat
    BY DEF Typed, TypeOK
  <2>2. status' \in [Grants -> Statuses]
    BY <1>3 DEF Activate, Typed, TypeOK, Statuses
  <2> QED BY <1>1, <1>2, <1>3, <2>1, <2>2 DEF Activate, Typed, TypeOK, Buffered
<1>4. CASE Block(g)
  BY <1>2, <1>4 DEF Block, Typed, TypeOK, Buffered
<1>5. CASE TimerFires(g)
  BY <1>2, <1>5 DEF TimerFires, Typed, TypeOK, Buffered
<1>6. CASE Expire(g)
  <2>1. status' \in [Grants -> Statuses]
    BY <1>6 DEF Expire, Typed, TypeOK, Statuses
  <2> QED BY <1>2, <1>6, <2>1 DEF Expire, Typed, TypeOK, Buffered
<1>7. CASE Revoke(g)
  <2>1. revokeCh[g] > 0
    BY <1>7 DEF Revoke, RevokeReady, Typed, Buffered
  <2>2. /\ revokeCh' \in [Grants -> Nat]
        /\ \A h \in Grants \ {g} : revokeCh'[h] = revokeCh[h]
        /\ status' \in [Grants -> Statuses]
    BY <1>7, <2>1 DEF Revoke, Typed, TypeOK, Statuses
  <2> QED BY <1>2, <1>7, <2>2 DEF Revoke, Typed, TypeOK, Buffered
<1>8. CASE Extend(g)
  <2>1. extendCh[g] # <<>> /\ extendCh[g] \in Seq(Nat \ {0})
    BY <1>8 DEF Extend, ExtendReady, Typed, TypeOK, Buffered
  <2>2. Head(extendCh[g]) \in Nat \ {0} /\ Tail(extendCh[g]) \in Seq(Nat \ {0})
    BY <2>1
  <2>3. /\ extendCh' \in [Grants -> Seq(Nat \ {0})]
        /\ \A h \in Grants \ {g} : extendCh'[h] = extendCh[h]
    BY <1>8, <2>2 DEF Extend, Typed, TypeOK
  <2>4. Clamped(g, Head(extendCh[g])) \in Nat
    BY <2>2, ClampedRange DEF Durations
  <2> QED BY <1>1, <1>2, <1>8, <2>3, <2>4 DEF Extend, Typed, TypeOK, Buffered
<1> QED BY <1>3, <1>4, <1>5, <1>6, <1>7, <1>8

(* Time keeps the types.                                                   *)
LEMMA TickType ==
  ASSUME Typed, Tick
  PROVE  Typed'
<1>1. /\ expiresIn' \in [Grants -> Nat] /\ timer' \in [Grants -> Nat]
      /\ approvalLeft' \in [Grants -> Nat]
  BY ElapseType DEF Tick, Typed, TypeOK
<1> QED BY <1>1 DEF Tick, Typed, TypeOK, Buffered, worldVars, retryVars

(* Every step keeps the types.                                             *)
LEMMA NextType ==
  ASSUME Typed, [Next]_vars
  PROVE  Typed'
<1>1. CASE Next
  BY <1>1, PersonType, ApprovalType, ActivityType, LoopType, TickType DEF Next, Workflow
<1>2. CASE UNCHANGED vars
  BY <1>2 DEF vars, Typed, TypeOK, Buffered, stateVars, waitVars, childVars, worldVars,
              retryVars
<1> QED BY <1>1, <1>2

(* Types of the variables, and that a workflow never receives from an      *)
(* empty channel.                                                          *)
THEOREM TypeCorrect == Spec => [](TypeOK /\ Buffered)
<1>1. Init => Typed
  BY InitType
<1>2. Typed /\ [Next]_vars => Typed'
  BY NextType
<1> QED BY <1>1, <1>2, PTL DEF Spec, Typed

-----------------------------------------------------------------------------
(* The story of a grant: what its workflow's place says about the rest of  *)
(* its state.                                                              *)

Undecided  == {"none", "start", "child"}
Activating == {"addGrant", "getUser", "setRole", "restoreUser", "activate"}
Ending     == {"removeGrant", "revertRole", "suspendUser"}

(* The status belongs to the place.                                        *)
Course(g) ==
  /\ pc[g] \in Undecided \cup Activating \cup {"failed"} => status[g] = "pending_approval"
  /\ pc[g] \in Waiting => status[g] = "active"
  /\ pc[g] \in Ending => status[g] \in {"expired", "revoked"}
  /\ pc[g] = "done" => status[g] \in {"expired", "revoked", "denied"}

(* Only the calls that belong to the grant's action type are made.         *)
Branch(g) ==
  /\ pc[g] \in {"addGrant", "removeGrant"} => Action[g] = "tag"
  /\ pc[g] \in {"getUser", "setRole", "revertRole"} => Action[g] = "user_role"
  /\ pc[g] \in {"restoreUser", "suspendUser"} => Action[g] = "user_restore"

(* Whoever approved was entitled to, nobody has approved before the child  *)
(* returns, and a risky grant gets on from there only approved.            *)
Approval(g) ==
  /\ result[g] # Nobody => MayApprove(g, result[g])
  /\ approvedBy[g] # Nobody => MayApprove(g, approvedBy[g])
  /\ pc[g] \in Undecided => approvedBy[g] = Nobody
  /\ g \in Risky /\ pc[g] \notin Undecided \cup {"failed"} /\ status[g] # "denied" =>
       approvedBy[g] # Nobody

(* The timer runs out when ExpiresAt is reached, not before.               *)
Clock(g) ==
  /\ pc[g] # "none" => duration[g] \in Durations(g)
  /\ pc[g] \in Waiting => timer[g] = expiresIn[g]
  /\ pc[g] = "wokenTimer" => expiresIn[g] = 0

Story(g) == Course(g) /\ Branch(g) /\ Approval(g) /\ Clock(g)

Stories == \A g \in Grants : Story(g)

(* What the effects on the tailnet are at each place, for a grant that is  *)
(* the only one of its kind about its user.                                *)
TagEffect(g) ==
  /\ pc[g] \in Undecided \cup {"done"} => g \notin told
  /\ pc[g] \in {"activate", "removeGrant"} \cup Waiting => g \in told

RoleEffect(g) ==
  LET u == TargetUser[g] IN
  /\ pc[g] \in Undecided \cup {"getUser"} => role[u] = FirstRole[u]
  /\ pc[g] \in {"setRole", "activate", "revertRole"} \cup Waiting =>
       originalRole[g] = FirstRole[u]
  /\ pc[g] \in {"setRole", "revertRole"} => role[u] \in {FirstRole[u], GrantedRole[g]}
  /\ pc[g] \in {"activate"} \cup Waiting => role[u] = GrantedRole[g]
  /\ pc[g] = "done" /\ g \notin gaveUp => role[u] = FirstRole[u]
  /\ pc[g] = "failed" =>
       \/ role[u] = FirstRole[u]
       \/ role[u] = GrantedRole[g] /\ originalRole[g] = FirstRole[u]

RestoreEffect(g) ==
  LET u == TargetUser[g] IN
  /\ pc[g] \in Undecided /\ u \in FirstSuspended => u \in suspended
  /\ pc[g] \in {"activate"} \cup Waiting => u \notin suspended
  /\ pc[g] = "done" /\ g \notin gaveUp /\ u \in FirstSuspended => u \in suspended

Effect(g) ==
  Alone(g) =>
    /\ Action[g] = "tag" => TagEffect(g)
    /\ Action[g] = "user_role" => RoleEffect(g)
    /\ Action[g] = "user_restore" => RestoreEffect(g)

Effects == \A g \in Grants : Effect(g)

-----------------------------------------------------------------------------
(* Every step keeps every grant's story.                                   *)

(* Nothing that a grant's story is about changes.                          *)
Same(h) ==
  /\ pc'[h] = pc[h] /\ status'[h] = status[h] /\ approvedBy'[h] = approvedBy[h]
  /\ originalRole'[h] = originalRole[h] /\ duration'[h] = duration[h]
  /\ expiresIn'[h] = expiresIn[h] /\ timer'[h] = timer[h] /\ result'[h] = result[h]

(* Only the grant that takes a step is affected by it.                     *)
LEMMA OthersSame ==
  ASSUME Typed, NEW g \in Grants, Person(g) \/ Workflow(g), NEW h \in Grants \ {g}
  PROVE  Same(h)
<1> USE DEF stateVars, waitVars, childVars
<1>1. CASE Person(g)
  BY <1>1 DEF Person, HandleCreateGrant, CheckApprove, SendApprove, HandleDenyGrant,
     HandleRevokeGrant, HandleExtendGrant, TerminateApproval, Goto, Wakes, Same, Typed, TypeOK
<1>2. ASSUME NEW to, Goto(g, to) \/ Succeed(g, to) \/ Fail(g, to)
      PROVE  pc'[h] = pc[h]
  BY <1>2 DEF Goto, Succeed, Fail, Typed, TypeOK
<1>3. CASE \/ Start(g) \/ ApprovalReturns(g) \/ BlockApproval(g) \/ ReceiveApprove(g)
           \/ ReceiveDeny(g) \/ ApprovalTimerFires(g)
  <2>1. CASE Start(g) \/ ApprovalReturns(g)
    BY <1>2, <2>1 DEF Start, ApprovalReturns, Same, Typed, TypeOK
  <2>2. CASE BlockApproval(g) \/ ReceiveApprove(g) \/ ReceiveDeny(g) \/ ApprovalTimerFires(g)
    <3>1. UNCHANGED << pc, stateVars, waitVars >>
      BY <2>2 DEF BlockApproval, ReceiveApprove, ReceiveDeny, ApprovalTimerFires, ApprovalQuiet
    <3>2. result' = result \/ \E p : result' = [result EXCEPT ![g] = p]
      BY <2>2 DEF BlockApproval, ReceiveApprove, ReceiveDeny, ApprovalTimerFires
    <3>3. result'[h] = result[h]
      BY <3>2 DEF Typed, TypeOK
    <3> QED BY <3>1, <3>3 DEF Same
  <2> QED BY <1>3, <2>1, <2>2
<1>4. CASE \/ SignalWithStartDeviceTagManager(g) \/ SetUserRole(g) \/ RestoreUser(g)
           \/ SuspendUser(g)
  <2>1. /\ \E to : Succeed(g, to) \/ Fail(g, to)
        /\ UNCHANGED << stateVars, waitVars, childVars >>
    BY <1>4 DEF SignalWithStartDeviceTagManager, SetUserRole, RestoreUser, SuspendUser, Call
  <2> QED BY <1>2, <2>1 DEF Same
<1>5. CASE GetUser(g)
  BY <1>2, <1>5 DEF GetUser, Same, Typed, TypeOK
<1>6. CASE RevertUserRole(g) \/ SignalRemoveGrant(g)
  BY <1>2, <1>6 DEF RevertUserRole, SignalRemoveGrant, Call, Same
<1>7. CASE \/ Activate(g) \/ Block(g) \/ TimerFires(g) \/ Expire(g) \/ Revoke(g)
           \/ Extend(g)
  BY <1>2, <1>7 DEF Activate, Block, TimerFires, Expire, Revoke, Extend, Arm, LoopQuiet,
     Same, Typed, TypeOK
<1> QED BY <1>1, <1>3, <1>4, <1>5, <1>6, <1>7 DEF Workflow

(* A story goes on as it was while nothing in it changes.                  *)
LEMMA SameStory ==
  ASSUME NEW h \in Grants, Story(h), Same(h)
  PROVE  Story(h)'
BY DEF Same, Story, Course, Branch, Approval, Clock

(* What people do to a grant fits its story.                               *)
LEMMA PersonStory ==
  ASSUME Typed, NEW g \in Grants, Story(g), Person(g)
  PROVE  Story(g)'
<1> USE DEF stateVars, waitVars, childVars
<1>1. CASE HandleCreateGrant(g)
  <2>1. PICK d \in Durations(g) : duration' = [duration EXCEPT ![g] = d]
    BY <1>1 DEF HandleCreateGrant
  <2>2. /\ pc[g] = "none" /\ pc'[g] = "start" /\ duration'[g] \in Durations(g)
        /\ status'[g] = status[g] /\ approvedBy'[g] = approvedBy[g]
        /\ result'[g] = result[g]
    BY <1>1, <2>1 DEF HandleCreateGrant, Goto, Typed, TypeOK
  <2> QED
    BY <2>2 DEF Story, Course, Branch, Approval, Clock, Undecided, Activating, Ending, Waiting
<1>2. ASSUME NEW p \in People, CheckApprove(g, p) \/ SendApprove(g, p)
      PROVE  Story(g)'
  BY <1>2, SameStory DEF CheckApprove, SendApprove, Same
<1>3. CASE HandleDenyGrant(g) \/ TerminateApproval(g)
  BY <1>3, SameStory DEF HandleDenyGrant, TerminateApproval, Same
<1>4. CASE HandleRevokeGrant(g) \/ HandleExtendGrant(g)
  <2>1. /\ \/ pc'[g] = pc[g]
           \/ pc[g] = "blocked" /\ pc'[g] \in {"wokenRevoke", "wokenExtend"}
        /\ status'[g] = status[g] /\ approvedBy'[g] = approvedBy[g]
        /\ duration'[g] = duration[g] /\ expiresIn'[g] = expiresIn[g]
        /\ timer'[g] = timer[g] /\ result'[g] = result[g]
    BY <1>4 DEF HandleRevokeGrant, HandleExtendGrant, Wakes, Typed, TypeOK
  <2> QED
    BY <2>1 DEF Story, Course, Branch, Approval, Clock, Undecided, Activating, Ending, Waiting
<1> QED BY <1>1, <1>2, <1>3, <1>4 DEF Person

(* So does what the approval workflow makes of it.                         *)
LEMMA ApprovalStory ==
  ASSUME Typed, NEW g \in Grants, Story(g),
         \/ Start(g) \/ BlockApproval(g) \/ ReceiveApprove(g) \/ ReceiveDeny(g)
         \/ ApprovalTimerFires(g) \/ ApprovalReturns(g)
  PROVE  Story(g)'
<1> USE DEF stateVars, waitVars, childVars
<1>1. CASE Start(g)
  <2>1. /\ pc[g] = "start"
        /\ \/ g \in Risky /\ pc'[g] = "child"
           \/ g \notin Risky /\ pc'[g] = Activation(g)
        /\ status'[g] = status[g] /\ approvedBy'[g] = approvedBy[g]
        /\ duration'[g] = duration[g] /\ result'[g] = result[g]
    BY <1>1 DEF Start, NeedsApproval, Goto, Typed, TypeOK
  <2> QED
    BY <2>1, Branches DEF Story, Course, Branch, Approval, Clock, Undecided, Activating,
                          Ending, Waiting
<1>2. CASE BlockApproval(g) \/ ReceiveDeny(g) \/ ApprovalTimerFires(g)
  BY <1>2, SameStory DEF BlockApproval, ReceiveDeny, ApprovalTimerFires, ApprovalQuiet, Same
<1>3. CASE ReceiveApprove(g)
  <2>1. result'[g] = result[g] \/ MayApprove(g, result'[g])
    BY <1>3 DEF ReceiveApprove, Typed, TypeOK
  <2>2. UNCHANGED << pc, status, approvedBy, duration, expiresIn, timer >>
    BY <1>3 DEF ReceiveApprove, ApprovalQuiet
  <2> QED BY <2>1, <2>2 DEF Story, Course, Branch, Approval, Clock, MayApprove
<1>4. CASE ApprovalReturns(g)
  <2>1. /\ pc[g] = "child" /\ duration'[g] = duration[g] /\ result'[g] = result[g]
        /\ \/ /\ result[g] # Nobody /\ approvedBy'[g] = result[g]
              /\ pc'[g] = Activation(g) /\ status'[g] = status[g]
           \/ /\ pc'[g] = "done" /\ status'[g] = "denied"
              /\ approvedBy'[g] = approvedBy[g]
           \/ /\ pc'[g] = "failed" /\ status'[g] = status[g]
              /\ approvedBy'[g] = approvedBy[g]
    BY <1>4 DEF ApprovalReturns, Goto, Typed, TypeOK
  <2> QED
    BY <2>1, Branches DEF Story, Course, Branch, Approval, Clock, Undecided, Activating,
                          Ending, Waiting, MayApprove
<1> QED BY <1>1, <1>2, <1>3, <1>4

(* What an activity attempt does to the place of its workflow.             *)
LEMMA CallPlace ==
  ASSUME Typed, NEW g \in Grants, NEW ok, NEW error, Succeed(g, ok) \/ Fail(g, error)
  PROVE  pc'[g] \in {pc[g], ok, error}
BY DEF Succeed, Fail, Goto, Typed, TypeOK

(* Where the calls lead.                                                   *)
LEMMA ActivityPlace ==
  ASSUME Typed, NEW g \in Grants,
         \/ SignalWithStartDeviceTagManager(g) \/ GetUser(g) \/ SetUserRole(g)
         \/ RestoreUser(g) \/ RevertUserRole(g) \/ SuspendUser(g) \/ SignalRemoveGrant(g)
  PROVE  \/ pc[g] \in Activating /\ pc'[g] = pc[g]
         \/ pc[g] \in Ending /\ pc'[g] = pc[g]
         \/ pc[g] = "addGrant" /\ pc'[g] \in {"activate", "failed"}
         \/ pc[g] = "getUser" /\ pc'[g] \in {"setRole", "failed"}
         \/ pc[g] = "setRole" /\ pc'[g] \in {"activate", "failed"}
         \/ pc[g] = "restoreUser" /\ pc'[g] \in {"activate", "failed"}
         \/ pc[g] \in Ending /\ pc'[g] = "done"
<1> USE DEF Activating, Ending
<1>1. CASE SignalWithStartDeviceTagManager(g)
  BY <1>1, CallPlace DEF SignalWithStartDeviceTagManager, Call
<1>2. CASE GetUser(g)
  BY <1>2, CallPlace DEF GetUser
<1>3. CASE SetUserRole(g)
  BY <1>3, CallPlace DEF SetUserRole, Call
<1>4. CASE RestoreUser(g)
  BY <1>4, CallPlace DEF RestoreUser, Call
<1>5. CASE RevertUserRole(g)
  <2>1. CASE originalRole[g] = NoRole
    BY <1>5, <2>1 DEF RevertUserRole, Goto, Typed, TypeOK
  <2>2. CASE originalRole[g] # NoRole
    BY <1>5, <2>2, CallPlace DEF RevertUserRole, Call
  <2> QED BY <2>1, <2>2
<1>6. CASE SuspendUser(g)
  BY <1>6, CallPlace DEF SuspendUser, Call
<1>7. CASE SignalRemoveGrant(g)
  BY <1>7 DEF SignalRemoveGrant, Goto, Typed, TypeOK
<1> QED BY <1>1, <1>2, <1>3, <1>4, <1>5, <1>6, <1>7

(* The activities lead on as the story says.                               *)
LEMMA ActivityStory ==
  ASSUME Typed, NEW g \in Grants, Story(g),
         \/ SignalWithStartDeviceTagManager(g) \/ GetUser(g) \/ SetUserRole(g)
         \/ RestoreUser(g) \/ RevertUserRole(g) \/ SuspendUser(g) \/ SignalRemoveGrant(g)
  PROVE  Story(g)'
<1> USE DEF stateVars, waitVars, childVars
<1>1. UNCHANGED << status, approvedBy, duration, expiresIn, timer, result >>
  BY DEF SignalWithStartDeviceTagManager, GetUser, SetUserRole, RestoreUser,
         RevertUserRole, SuspendUser, SignalRemoveGrant, Call
<1> QED
  BY <1>1, ActivityPlace DEF Story, Course, Branch, Approval, Clock, Undecided, Activating,
                             Ending, Waiting

(* From the activation to the end of the grant.                            *)
LEMMA LoopStory ==
  ASSUME Typed, NEW g \in Grants, Story(g),
         \/ Activate(g) \/ Block(g) \/ TimerFires(g) \/ Expire(g) \/ Revoke(g) \/ Extend(g)
  PROVE  Story(g)'
<1> USE DEF waitVars, childVars
<1>1. approvedBy' = approvedBy /\ result' = result
  BY DEF Activate, Block, TimerFires, Expire, Revoke, Extend, LoopQuiet
<1>2. ASSUME NEW d, Arm(g, d)
      PROVE  expiresIn'[g] = d /\ timer'[g] = d /\ duration'[g] = d
  BY <1>2 DEF Arm, Typed, TypeOK
<1>3. CASE Activate(g)
  <2>1. /\ pc[g] = "activate" /\ pc'[g] = "select" /\ status'[g] = "active"
        /\ expiresIn'[g] = duration[g] /\ timer'[g] = duration[g] /\ duration'[g] = duration[g]
    BY <1>2, <1>3 DEF Activate, Goto, Typed, TypeOK
  <2> QED
    BY <1>1, <2>1 DEF Story, Course, Branch, Approval, Clock, Undecided, Activating, Ending,
                      Waiting
<1>4. CASE Block(g) \/ TimerFires(g)
  <2>1. /\ \/ pc[g] = "select" /\ pc'[g] = "blocked"
           \/ pc[g] = "blocked" /\ pc'[g] = "wokenTimer" /\ timer[g] = 0
        /\ UNCHANGED << status, duration, expiresIn, timer >>
    BY <1>4 DEF Block, TimerFires, Goto, Typed, TypeOK
  <2> QED
    BY <1>1, <2>1 DEF Story, Course, Branch, Approval, Clock, Undecided, Activating, Ending,
                      Waiting
<1>5. CASE Expire(g) \/ Revoke(g)
  <2>1. /\ pc[g] \in Waiting /\ pc'[g] = Deactivation(g)
        /\ status'[g] \in {"expired", "revoked"} /\ UNCHANGED duration
    BY <1>5 DEF Expire, Revoke, RevokeReady, Waiting, Goto, Typed, TypeOK
  <2> QED
    BY <1>1, <2>1, Branches DEF Story, Course, Branch, Approval, Clock, Undecided,
                                Activating, Ending, Waiting
<1>6. CASE Extend(g)
  <2> DEFINE d == Clamped(g, Head(extendCh[g]))
  <2>1. extendCh[g] # <<>> /\ extendCh[g] \in Seq(Nat \ {0})
    BY <1>6 DEF Extend, ExtendReady, Typed, TypeOK, Buffered
  <2>2. d \in Durations(g)
    BY <2>1, ClampedRange
  <2>3. /\ pc[g] \in {"select", "wokenExtend"} /\ pc'[g] = "select" /\ UNCHANGED status
        /\ expiresIn'[g] = d /\ timer'[g] = d /\ duration'[g] = d
    BY <1>2, <1>6 DEF Extend, ExtendReady, Goto, Typed, TypeOK
  <2> HIDE DEF d
  <2> QED
    BY <1>1, <2>2, <2>3 DEF Story, Course, Branch, Approval, Clock, Undecided, Activating,
                            Ending, Waiting
<1> QED BY <1>3, <1>4, <1>5, <1>6

(* Timer and ExpiresAt run down together.                                  *)
LEMMA TickStory ==
  ASSUME Typed, NEW g \in Grants, Story(g), Tick
  PROVE  Story(g)'
<1>1. /\ UNCHANGED << pc, status, approvedBy, duration, result >>
      /\ timer[g] = expiresIn[g] => timer'[g] = expiresIn'[g]
      /\ expiresIn[g] = 0 => expiresIn'[g] = 0
  BY DEF Tick, Elapse, Typed, TypeOK
<1> QED BY <1>1 DEF Story, Course, Branch, Approval, Clock

(* Stories is inductive, given the types.                                  *)
LEMMA NextStories ==
  ASSUME Typed, Stories, [Next]_vars
  PROVE  Stories'
<1>1. CASE Tick
  BY <1>1, TickStory DEF Stories
<1>2. ASSUME NEW g \in Grants, Person(g) \/ Workflow(g)
      PROVE  Stories'
  <2>1. Story(g)'
    BY <1>2, PersonStory, ApprovalStory, ActivityStory, LoopStory DEF Workflow, Stories
  <2>2. ASSUME NEW h \in Grants \ {g}
        PROVE  Story(h)'
    BY <1>2, OthersSame, SameStory DEF Stories
  <2> QED BY <2>1, <2>2 DEF Stories
<1>3. CASE UNCHANGED vars
  BY <1>3, SameStory DEF vars, stateVars, waitVars, childVars, Same, Stories
<1> QED BY <1>1, <1>2, <1>3 DEF Next

(* Every grant starts its story at the beginning.                          *)
LEMMA InitStories == Init => Stories
BY DEF Init, Stories, Story, Course, Branch, Approval, Clock, Undecided, Activating,
       Ending, Waiting

(* At every place of its workflow a grant has the status that belongs to   *)
(* it, makes only the calls of its action type, is approved if it is risky *)
(* and past the gate, and its timer and ExpiresAt agree.                   *)
THEOREM StoriesHold == Spec => []Stories
BY InitStories, NextStories, TypeCorrect, PTL DEF Spec, Typed

-----------------------------------------------------------------------------
(* Approval before effect.                                                 *)

(* A grant past the gate may be carried out.                               *)
LEMMA PastTheGate ==
  ASSUME NEW g \in Grants, Story(g), pc[g] \in Activating \cup Waiting \cup Ending
  PROVE  Permitted(g)
<1>1. status[g] # "denied" /\ pc[g] \notin Undecided \cup {"failed"}
  BY DEF Story, Course, Activating, Waiting, Ending, Undecided
<1> QED
  BY <1>1 DEF Story, Approval, Permitted, MayApprove, Promise!MayApprove

(* Nobody's approval is taken back, nor changed to somebody else's.        *)
LEMMA ApprovalStays ==
  ASSUME Typed, Stories, [Next]_vars, NEW h \in Grants, Permitted(h)
  PROVE  Permitted(h)' /\ (pc[h] # "none" => pc'[h] # "none")
<1>1. CASE UNCHANGED vars \/ Tick
  BY <1>1 DEF vars, stateVars, Tick, Permitted, Promise!MayApprove
<1>2. ASSUME NEW g \in Grants, g # h, Person(g) \/ Workflow(g)
      PROVE  Permitted(h)' /\ (pc[h] # "none" => pc'[h] # "none")
  BY <1>2, OthersSame DEF Same, Permitted, Promise!MayApprove
<1>3. CASE ApprovalReturns(h)
  <2>1. pc'[h] # "none"
    BY <1>3, Branches DEF ApprovalReturns, Goto, Typed, TypeOK, PCs, Running, Waiting
  <2>2. h \in Risky => approvedBy[h] = Nobody
    BY <1>3 DEF ApprovalReturns, Stories, Story, Approval, Undecided
  <2> QED
    BY <2>1, <2>2 DEF Permitted
<1>4. CASE Person(h) \/ (Workflow(h) /\ ~ApprovalReturns(h))
  <2>1. approvedBy' = approvedBy
    BY <1>4 DEF Person, HandleCreateGrant, CheckApprove, SendApprove, HandleDenyGrant,
       HandleRevokeGrant, HandleExtendGrant, TerminateApproval, Workflow, Start,
       BlockApproval, ReceiveApprove,
       ReceiveDeny, ApprovalTimerFires, ApprovalQuiet, SignalWithStartDeviceTagManager,
       GetUser, SetUserRole, RestoreUser, RevertUserRole, SuspendUser, SignalRemoveGrant,
       Call, Activate, Block, TimerFires, Expire, Revoke, Extend, LoopQuiet, stateVars
  <2>2. ASSUME NEW to, Goto(h, to) \/ Succeed(h, to) \/ Fail(h, to), to # "none",
               pc[h] # "none"
        PROVE  pc'[h] # "none"
    BY <2>2 DEF Goto, Succeed, Fail, Typed, TypeOK
  <2>3. Activation(h) # "none" /\ Deactivation(h) # "none"
    BY Branches
  <2>4. pc[h] # "none" => pc'[h] # "none"
    <3>1. CASE Person(h)
      BY <2>2, <3>1 DEF Person, HandleCreateGrant, CheckApprove, SendApprove,
         HandleDenyGrant, HandleRevokeGrant, HandleExtendGrant, TerminateApproval, Wakes,
         Typed, TypeOK
    <3>2. CASE \/ Start(h) \/ BlockApproval(h) \/ ReceiveApprove(h) \/ ReceiveDeny(h)
               \/ ApprovalTimerFires(h)
      BY <2>2, <2>3, <3>2 DEF Start, BlockApproval, ReceiveApprove, ReceiveDeny,
         ApprovalTimerFires, ApprovalQuiet
    <3>3. CASE \/ SignalWithStartDeviceTagManager(h) \/ GetUser(h) \/ SetUserRole(h)
               \/ RestoreUser(h) \/ SuspendUser(h)
      BY <2>2, <3>3 DEF SignalWithStartDeviceTagManager, GetUser, SetUserRole, RestoreUser,
         SuspendUser, Call
    <3>4. CASE RevertUserRole(h) \/ SignalRemoveGrant(h)
      BY <2>2, <3>4 DEF RevertUserRole, SignalRemoveGrant, Call
    <3>5. CASE \/ Activate(h) \/ Block(h) \/ TimerFires(h) \/ Expire(h) \/ Revoke(h)
               \/ Extend(h)
      BY <2>2, <2>3, <3>5 DEF Activate, Block, TimerFires, Expire, Revoke, Extend
    <3> QED BY <1>4, <3>1, <3>2, <3>3, <3>4, <3>5 DEF Workflow
  <2> QED BY <2>1, <2>4 DEF Permitted, Promise!MayApprove
<1> QED BY <1>1, <1>2, <1>3, <1>4 DEF Next

(* What a step of a grant may do on the tailnet, and where it does it.     *)
LEMMA WorldMoves ==
  ASSUME Typed, NEW g \in Grants, Person(g) \/ Workflow(g)
  PROVE  /\ \/ told' = told
            \/ pc[g] = "addGrant" /\ told' = told \cup {g}
            \/ pc[g] = "removeGrant" /\ told' = told \ {g}
         /\ \/ role' = role
            \/ /\ pc[g] \in {"setRole", "revertRole"}
               /\ \A u \in Users \ {TargetUser[g]} : role'[u] = role[u]
         /\ \/ suspended' = suspended
            \/ pc[g] = "restoreUser" /\ suspended' = suspended \ {TargetUser[g]}
            \/ pc[g] = "suspendUser" /\ suspended' = suspended \cup {TargetUser[g]}
<1> USE DEF worldVars
<1>1. CASE Person(g)
  BY <1>1 DEF Person, HandleCreateGrant, CheckApprove, SendApprove, HandleDenyGrant,
     HandleRevokeGrant, HandleExtendGrant, TerminateApproval
<1>2. CASE \/ Start(g) \/ ApprovalReturns(g) \/ BlockApproval(g) \/ ReceiveApprove(g)
           \/ ReceiveDeny(g) \/ ApprovalTimerFires(g)
  BY <1>2 DEF Start, ApprovalReturns, BlockApproval, ReceiveApprove, ReceiveDeny,
     ApprovalTimerFires, ApprovalQuiet
<1>3. CASE SignalWithStartDeviceTagManager(g) \/ SignalRemoveGrant(g) \/ GetUser(g)
  BY <1>3 DEF SignalWithStartDeviceTagManager, SignalRemoveGrant, GetUser, Call
<1>4. CASE SetUserRole(g)
  BY <1>4 DEF SetUserRole, Call, SetRole, Typed, TypeOK
<1>5. CASE RestoreUser(g) \/ SuspendUser(g)
  BY <1>5 DEF RestoreUser, SuspendUser, Call, Restored, Suspended
<1>6. CASE RevertUserRole(g)
  BY <1>6 DEF RevertUserRole, Call, SetRole, Typed, TypeOK
<1>7. CASE Activate(g) \/ Block(g) \/ TimerFires(g) \/ Expire(g) \/ Revoke(g) \/ Extend(g)
  BY <1>7 DEF Activate, Block, TimerFires, Expire, Revoke, Extend, LoopQuiet
<1> QED BY <1>1, <1>2, <1>3, <1>4, <1>5, <1>6, <1>7 DEF Workflow

(* Nothing on the tailnet is owed to a grant that is not permitted.        *)
LEMMA NextApproval ==
  ASSUME Typed, Stories, EffectNeedsApproval, [Next]_vars
  PROVE  EffectNeedsApproval'
<1> DEFINE Owed(h) == pc[h] # "none" /\ Permitted(h)
<1>1. ASSUME NEW h \in Grants
      PROVE  /\ Permitted(h) => Permitted(h)'
             /\ Owed(h) => Owed(h)'
  BY ApprovalStays
<1>2. ASSUME NEW h \in Grants, pc[h] \in Activating \cup Ending
      PROVE  Owed(h)
  BY <1>2, PastTheGate DEF Stories, Activating, Ending
<1>3. ASSUME UNCHANGED worldVars
      PROVE  EffectNeedsApproval'
  <2>1. \A h \in told' : Permitted(h)'
    BY <1>1, <1>3 DEF EffectNeedsApproval, worldVars, Typed, TypeOK
  <2>2. ASSUME NEW u \in Users
        PROVE  /\ role'[u] # FirstRole[u] =>
                    \E h \in GrantsFor(u, "user_role") : Owed(h)'
               /\ u \in FirstSuspended \ suspended' =>
                    \E h \in GrantsFor(u, "user_restore") : Owed(h)'
    BY <1>1, <1>3 DEF EffectNeedsApproval, worldVars, GrantsFor
  <2> QED BY <2>1, <2>2 DEF EffectNeedsApproval
<1>4. CASE UNCHANGED vars \/ Tick
  BY <1>3, <1>4 DEF vars, Tick
<1>5. ASSUME NEW g \in Grants, Person(g) \/ Workflow(g)
      PROVE  EffectNeedsApproval'
  <2>1. Story(g)
    BY DEF Stories
  <2>2. \A h \in told' : Permitted(h)'
    <3>1. told' \subseteq told \cup {g} /\ (g \in told' \ told => pc[g] = "addGrant")
      BY <1>5, WorldMoves
    <3>2. told \subseteq Grants
      BY DEF Typed, TypeOK
    <3> QED BY <1>1, <1>2, <3>1, <3>2 DEF EffectNeedsApproval, Activating
  <2>3. ASSUME NEW u \in Users, role'[u] # FirstRole[u]
        PROVE  \E h \in GrantsFor(u, "user_role") : Owed(h)'
    <3>1. CASE role'[u] = role[u]
      BY <1>1, <2>3, <3>1 DEF EffectNeedsApproval, GrantsFor
    <3>2. CASE role'[u] # role[u]
      <4>1. pc[g] \in {"setRole", "revertRole"} /\ TargetUser[g] = u
        BY <1>5, <3>2, WorldMoves
      <4>2. g \in GrantsFor(u, "user_role")
        BY <2>1, <4>1 DEF Story, Branch, GrantsFor
      <4>3. Owed(g)'
        BY <1>1, <1>2, <4>1 DEF Activating, Ending
      <4> QED BY <4>2, <4>3
    <3> QED BY <3>1, <3>2
  <2>4. ASSUME NEW u \in Users, u \in FirstSuspended \ suspended'
        PROVE  \E h \in GrantsFor(u, "user_restore") : Owed(h)'
    <3>1. CASE u \notin suspended
      BY <1>1, <2>4, <3>1 DEF EffectNeedsApproval, GrantsFor
    <3>2. CASE u \in suspended
      <4>1. pc[g] = "restoreUser" /\ TargetUser[g] = u
        BY <1>5, <2>4, <3>2, WorldMoves
      <4>2. g \in GrantsFor(u, "user_restore")
        BY <2>1, <4>1 DEF Story, Branch, GrantsFor
      <4>3. Owed(g)'
        BY <1>1, <1>2, <4>1 DEF Activating
      <4> QED BY <4>2, <4>3
    <3> QED BY <3>1, <3>2
  <2> QED BY <2>2, <2>3, <2>4 DEF EffectNeedsApproval
<1> QED BY <1>4, <1>5 DEF Next

(* No device, role or suspension is touched on behalf of a grant that      *)
(* nobody with the right to do so approved, whatever is retried or raced.  *)
THEOREM ApprovalBeforeEffect == Spec => []EffectNeedsApproval
<1>1. Init => EffectNeedsApproval
  BY DEF Init, EffectNeedsApproval
<1>2. Typed /\ Stories /\ EffectNeedsApproval /\ [Next]_vars => EffectNeedsApproval'
  BY NextApproval
<1> QED BY <1>1, <1>2, TypeCorrect, StoriesHold, PTL DEF Spec, Typed

-----------------------------------------------------------------------------
(* A grant at the gate has not had a call give up: one that fails there    *)
(* fails because its approval did.                                         *)

Early == \A g \in Grants : pc[g] \in Undecided => g \notin gaveUp

(* Whose calls gave up is recorded of the grant that made them only.       *)
LEMMA GaveUpMoves ==
  ASSUME Typed, NEW g \in Grants, Person(g) \/ Workflow(g)
  PROVE  gaveUp' = gaveUp \/ gaveUp' = gaveUp \cup {g}
<1> USE DEF retryVars
<1>1. ASSUME NEW to, Succeed(g, to) \/ Fail(g, to)
      PROVE  gaveUp' = gaveUp \/ gaveUp' = gaveUp \cup {g}
  BY <1>1 DEF Succeed, Fail
<1>2. CASE Person(g)
  BY <1>2 DEF Person, HandleCreateGrant, CheckApprove, SendApprove, HandleDenyGrant,
     HandleRevokeGrant, HandleExtendGrant, TerminateApproval
<1>3. CASE \/ Start(g) \/ ApprovalReturns(g) \/ BlockApproval(g) \/ ReceiveApprove(g)
           \/ ReceiveDeny(g) \/ ApprovalTimerFires(g)
  BY <1>3 DEF Start, ApprovalReturns, BlockApproval, ReceiveApprove, ReceiveDeny,
     ApprovalTimerFires, ApprovalQuiet
<1>4. CASE SignalWithStartDeviceTagManager(g) \/ GetUser(g) \/ SetUserRole(g)
  BY <1>1, <1>4 DEF SignalWithStartDeviceTagManager, GetUser, SetUserRole, Call
<1>5. CASE RestoreUser(g) \/ SuspendUser(g) \/ RevertUserRole(g) \/ SignalRemoveGrant(g)
  BY <1>1, <1>5 DEF RestoreUser, SuspendUser, RevertUserRole, SignalRemoveGrant, Call
<1>6. CASE Activate(g) \/ Block(g) \/ TimerFires(g) \/ Expire(g) \/ Revoke(g) \/ Extend(g)
  BY <1>6 DEF Activate, Block, TimerFires, Expire, Revoke, Extend, LoopQuiet
<1> QED BY <1>2, <1>3, <1>4, <1>5, <1>6 DEF Workflow

(* The steps of a grant that make no call.                                 *)
Quiet(g) ==
  \/ Person(g) \/ Start(g) \/ BlockApproval(g) \/ ReceiveApprove(g)
  \/ ReceiveDeny(g) \/ ApprovalTimerFires(g) \/ ApprovalReturns(g)
  \/ Activate(g) \/ Block(g) \/ TimerFires(g) \/ Expire(g) \/ Revoke(g) \/ Extend(g)

(* What makes no call touches nothing on the tailnet; where it leads.      *)
LEMMA QuietPlace ==
  ASSUME Typed, NEW g \in Grants, Quiet(g)
  PROVE  /\ UNCHANGED << originalRole, worldVars, gaveUp >>
         /\ \/ pc'[g] = pc[g]
            \/ pc[g] \in Undecided /\ pc'[g] \in Undecided
            \/ pc[g] \in {"activate"} \cup Waiting /\ pc'[g] \in {"activate"} \cup Waiting
            \/ /\ pc[g] \in Undecided
               /\ pc'[g] \in {"addGrant", "getUser", "restoreUser", "done", "failed"}
            \/ pc[g] \in Waiting /\ pc'[g] \in Ending /\ pc'[g] = Deactivation(g)
<1>1. UNCHANGED << originalRole, worldVars, gaveUp >>
  BY DEF Quiet, Person, HandleCreateGrant, CheckApprove, SendApprove, HandleDenyGrant,
     HandleRevokeGrant, HandleExtendGrant, TerminateApproval, Start, BlockApproval,
     ReceiveApprove, ReceiveDeny, ApprovalTimerFires, ApprovalQuiet, ApprovalReturns,
     Activate, Block, TimerFires, Expire, Revoke, Extend, LoopQuiet, stateVars, retryVars
<1>2. CASE Person(g)
  BY <1>1, <1>2 DEF Person, HandleCreateGrant, CheckApprove, SendApprove, HandleDenyGrant,
     HandleRevokeGrant, HandleExtendGrant, TerminateApproval, Goto, Wakes, Undecided, Waiting,
     Typed, TypeOK
<1>3. CASE BlockApproval(g) \/ ReceiveApprove(g) \/ ReceiveDeny(g) \/ ApprovalTimerFires(g)
  BY <1>1, <1>3 DEF BlockApproval, ReceiveApprove, ReceiveDeny, ApprovalTimerFires,
     ApprovalQuiet
<1>4. CASE Start(g) \/ ApprovalReturns(g)
  <2>1. Activation(g) \in {"addGrant", "getUser", "restoreUser"}
    BY Branches
  <2> QED
    BY <1>1, <1>4, <2>1 DEF Start, ApprovalReturns, Goto, Undecided, Typed, TypeOK
<1>5. CASE Activate(g) \/ Block(g) \/ TimerFires(g) \/ Extend(g)
  BY <1>1, <1>5 DEF Activate, Block, TimerFires, Extend, ExtendReady, Goto, Waiting, Typed,
     TypeOK
<1>6. CASE Expire(g) \/ Revoke(g)
  BY <1>1, <1>6, Branches DEF Expire, Revoke, RevokeReady, Goto, Waiting, Ending, Typed,
     TypeOK
<1> QED BY <1>2, <1>3, <1>4, <1>5, <1>6 DEF Quiet

(* A grant never comes back to the gate, and its calls come after it.      *)
LEMMA NextEarly ==
  ASSUME Typed, Early, [Next]_vars
  PROVE  Early'
<1>1. CASE Tick \/ UNCHANGED vars
  BY <1>1 DEF Tick, vars, retryVars, Early
<1>2. ASSUME NEW g \in Grants, Person(g) \/ Workflow(g), NEW h \in Grants,
             pc'[h] \in Undecided
      PROVE  h \notin gaveUp'
  <2>1. CASE h # g
    BY <1>2, <2>1, OthersSame, GaveUpMoves DEF Same, Early
  <2>2. CASE h = g /\ Quiet(g)
    BY <1>2, <2>2, QuietPlace DEF Early, Undecided, Waiting, Ending
  <2>3. CASE h = g /\ ~Quiet(g)
    BY <1>2, <2>3, ActivityPlace DEF Quiet, Workflow, Undecided, Activating, Ending
  <2> QED BY <2>1, <2>2, <2>3
<1> QED BY <1>1, <1>2 DEF Next, Early

(* Before anything happened, no call has given up.                         *)
LEMMA InitEarly == Init => Early
BY DEF Init, Early

-----------------------------------------------------------------------------
(* Effects follow the status.                                              *)

(* A grant that is alone keeps its effect while others take steps.         *)
LEMMA OthersEffect ==
  ASSUME Typed, Stories, NEW g \in Grants, Person(g) \/ Workflow(g),
         NEW h \in Grants \ {g}, Effect(h)
  PROVE  Effect(h)'
<1> SUFFICES ASSUME Alone(h)
             PROVE  /\ Action[h] = "tag" => TagEffect(h)'
                    /\ Action[h] = "user_role" => RoleEffect(h)'
                    /\ Action[h] = "user_restore" => RestoreEffect(h)'
  BY DEF Effect, Alone, GrantsFor
<1>1. Same(h) /\ (h \in gaveUp' <=> h \in gaveUp)
  BY OthersSame, GaveUpMoves
<1>2. Story(g) /\ TargetUser[h] \in Users
  BY GrantsAssumption DEF Stories
<1>3. Action[h] = "tag" => TagEffect(h)'
  <2>1. h \in told' <=> h \in told
    BY WorldMoves
  <2> QED BY <1>1, <2>1 DEF Effect, TagEffect, Same
<1>4. ASSUME Action[h] = "user_role"
      PROVE  RoleEffect(h)'
  <2>1. ~(Action[g] = "user_role" /\ TargetUser[g] = TargetUser[h])
    BY <1>4 DEF Alone, GrantsFor
  <2>2. role'[TargetUser[h]] = role[TargetUser[h]]
    BY <1>2, <2>1, WorldMoves DEF Story, Branch
  <2> QED BY <1>1, <1>4, <2>2 DEF Effect, RoleEffect, Same
<1>5. ASSUME Action[h] = "user_restore"
      PROVE  RestoreEffect(h)'
  <2>1. ~(Action[g] = "user_restore" /\ TargetUser[g] = TargetUser[h])
    BY <1>5 DEF Alone, GrantsFor
  <2>2. TargetUser[h] \in suspended' <=> TargetUser[h] \in suspended
    BY <1>2, <2>1, WorldMoves DEF Story, Branch
  <2> QED BY <1>1, <1>5, <2>2 DEF Effect, RestoreEffect, Same
<1> QED BY <1>3, <1>4, <1>5

(* A step that changes nothing on the tailnet keeps a grant's effect, if   *)
(* the places before and after it ask for the same.                        *)
LEMMA SamePlace ==
  ASSUME Typed, NEW g \in Grants, Effect(g), originalRole'[g] = originalRole[g],
         UNCHANGED worldVars,
         g \in gaveUp => g \in gaveUp',
         \/ pc'[g] = pc[g]
         \/ pc[g] \in Undecided /\ pc'[g] \in Undecided
         \/ pc[g] \in {"activate"} \cup Waiting /\ pc'[g] \in {"activate"} \cup Waiting
         \/ pc[g] \in Undecided /\ pc'[g] \in {"addGrant", "getUser", "restoreUser", "done",
                                              "failed"}
         \/ pc[g] \in Waiting /\ pc'[g] \in Ending /\ pc'[g] = Deactivation(g)
  PROVE  Effect(g)'
BY Branches DEF Effect, Alone, GrantsFor, TagEffect, RoleEffect, RestoreEffect, worldVars,
   Undecided, Waiting, Ending

(* Requests, approvals, extensions and the end of a grant touch nothing.   *)
LEMMA QuietEffect ==
  ASSUME Typed, NEW g \in Grants, Story(g), Effect(g), Quiet(g)
  PROVE  Effect(g)'
BY QuietPlace, SamePlace

(* The activities leave what the next place asks for.                      *)
LEMMA ActivityEffect ==
  ASSUME Typed, NEW g \in Grants, Story(g), Effect(g),
         \/ SignalWithStartDeviceTagManager(g) \/ GetUser(g) \/ SetUserRole(g)
         \/ RestoreUser(g) \/ RevertUserRole(g) \/ SuspendUser(g) \/ SignalRemoveGrant(g)
  PROVE  Effect(g)'
<1> SUFFICES ASSUME Alone(g)
             PROVE  /\ Action[g] = "tag" => TagEffect(g)'
                    /\ Action[g] = "user_role" => RoleEffect(g)'
                    /\ Action[g] = "user_restore" => RestoreEffect(g)'
  BY DEF Effect, Alone, GrantsFor
<1> DEFINE u == TargetUser[g]
<1>1. u \in Users /\ GrantedRole[g] \in Roles /\ FirstRole[u] \in Roles /\ NoRole \notin Roles
  BY GrantsAssumption
<1>2. CASE SignalWithStartDeviceTagManager(g) \/ SignalRemoveGrant(g)
  <2>1. Action[g] = "tag"
    BY <1>2 DEF SignalWithStartDeviceTagManager, SignalRemoveGrant, Call, Story, Branch
  <2>2. \/ pc'[g] \in {"addGrant", "failed"}
        \/ pc'[g] = "activate" /\ g \in told'
        \/ pc'[g] = "done" /\ g \notin told'
    BY <1>2 DEF SignalWithStartDeviceTagManager, SignalRemoveGrant, Call, Succeed, Fail,
                Goto, Typed, TypeOK
  <2> QED BY <2>1, <2>2 DEF TagEffect, Undecided, Waiting
<1>3. CASE GetUser(g)
  <2>1. Action[g] = "user_role"
    BY <1>3 DEF GetUser, Story, Branch
  <2>2. role[u] = FirstRole[u]
    BY <1>3, <2>1 DEF GetUser, Effect, RoleEffect
  <2>3. \/ pc'[g] = "setRole" /\ originalRole'[g] = role[u]
        \/ pc'[g] \in {"getUser", "failed"}
    BY <1>3 DEF GetUser, Succeed, Fail, Goto, Typed, TypeOK
  <2>4. role' = role
    BY <1>3 DEF GetUser, worldVars
  <2> QED BY <2>1, <2>2, <2>3, <2>4 DEF RoleEffect, Undecided, Waiting
<1>4. CASE SetUserRole(g)
  <2>1. Call(g, "setRole", SetRole(g, GrantedRole[g]), role, "activate", "failed")
    BY <1>4 DEF SetUserRole
  <2>2. pc[g] = "setRole" /\ Action[g] = "user_role" /\ originalRole' = originalRole
    BY <2>1 DEF Call, Story, Branch, stateVars
  <2>3. originalRole[g] = FirstRole[u] /\ role[u] \in {FirstRole[u], GrantedRole[g]}
    BY <2>2 DEF Effect, RoleEffect
  <2>4. \/ pc'[g] = "activate" /\ role'[u] = GrantedRole[g]
        \/ pc'[g] \in {"setRole", "failed"} /\ role'[u] \in {role[u], GrantedRole[g]}
    BY <1>1, <2>1 DEF Call, SetRole, Succeed, Fail, Goto, Typed, TypeOK
  <2> QED BY <2>2, <2>3, <2>4 DEF RoleEffect, Undecided, Waiting
<1>5. CASE RestoreUser(g)
  <2>1. Call(g, "restoreUser", Restored(g), suspended, "activate", "failed")
    BY <1>5 DEF RestoreUser
  <2>2. Action[g] = "user_restore"
    BY <2>1 DEF Call, Story, Branch
  <2>3. \/ pc'[g] = "activate" /\ u \notin suspended'
        \/ pc'[g] \in {"restoreUser", "failed"}
    BY <2>1 DEF Call, Restored, Succeed, Fail, Goto, Typed, TypeOK
  <2> QED BY <2>2, <2>3 DEF RestoreEffect, Undecided, Waiting
<1>6. CASE RevertUserRole(g)
  <2>1. pc[g] = "revertRole" /\ Action[g] = "user_role"
    BY <1>6 DEF RevertUserRole, Call, Story, Branch
  <2>2. originalRole[g] = FirstRole[u] /\ role[u] \in {FirstRole[u], GrantedRole[g]}
    BY <2>1 DEF Effect, RoleEffect
  <2>3. Call(g, "revertRole", SetRole(g, FirstRole[u]), role, "done", "done")
    BY <1>1, <1>6, <2>2 DEF RevertUserRole, RoleToRestore
  <2>4. /\ originalRole' = originalRole
        /\ \/ pc'[g] = "done" /\ role'[u] = FirstRole[u]
           \/ pc'[g] = "revertRole" /\ role'[u] \in {role[u], FirstRole[u]}
           \/ pc'[g] = "done" /\ g \in gaveUp'
    BY <1>1, <2>3 DEF Call, SetRole, Succeed, Fail, Goto, Typed, TypeOK, stateVars
  <2> QED BY <2>1, <2>2, <2>4 DEF RoleEffect, Undecided, Waiting
<1>7. CASE SuspendUser(g)
  <2>1. Call(g, "suspendUser", Suspended(g), suspended, "done", "done")
    BY <1>7 DEF SuspendUser
  <2>2. Action[g] = "user_restore"
    BY <2>1 DEF Call, Story, Branch
  <2>3. \/ pc'[g] = "done" /\ u \in suspended'
        \/ pc'[g] = "suspendUser"
        \/ pc'[g] = "done" /\ g \in gaveUp'
    BY <2>1 DEF Call, Suspended, Succeed, Fail, Goto, Typed, TypeOK
  <2> QED BY <2>2, <2>3 DEF RestoreEffect, Undecided, Waiting
<1> QED BY <1>2, <1>3, <1>4, <1>5, <1>6, <1>7

(* Effects is inductive, given the types and the stories.                  *)
LEMMA NextEffects ==
  ASSUME Typed, Stories, Effects, [Next]_vars
  PROVE  Effects'
<1>1. CASE Tick \/ UNCHANGED vars
  <2>1. UNCHANGED << pc, originalRole, gaveUp, worldVars >>
    BY <1>1 DEF Tick, vars, stateVars, retryVars
  <2> QED
    BY <2>1, SamePlace DEF Effects
<1>2. ASSUME NEW g \in Grants, Person(g) \/ Workflow(g)
      PROVE  Effects'
  <2>1. Effect(g)'
    BY <1>2, QuietEffect, ActivityEffect DEF Quiet, Workflow, Effects, Stories
  <2>2. ASSUME NEW h \in Grants \ {g}
        PROVE  Effect(h)'
    BY <1>2, OthersEffect DEF Effects
  <2> QED BY <2>1, <2>2 DEF Effects
<1> QED BY <1>1, <1>2 DEF Next

(* Before anything happened, nothing is in effect.                         *)
LEMMA InitEffects == Init => Effects
BY GrantsAssumption
   DEF Init, Effects, Effect, TagEffect, RoleEffect, RestoreEffect, Undecided, Waiting

(* What the places ask for is what the status promises.                    *)
LEMMA EffectsSuffice ==
  ASSUME Typed, Stories, Effects
  PROVE  EffectFollowsStatus
<1> SUFFICES ASSUME NEW g \in Grants, Alone(g)
             PROVE  /\ status[g] = "active" => InPlace(g)
                    /\ pc[g] = "done" /\ g \notin gaveUp => Undone(g)
                    /\ pc[g] = "failed" => Undone(g) \/ (InPlace(g) /\ Recorded(g))
  BY DEF EffectFollowsStatus
<1>1. Story(g) /\ Effect(g) /\ pc[g] \in PCs
  BY DEF Stories, Effects, Typed, TypeOK
<1>2. status[g] = "active" => pc[g] \in Waiting
  BY <1>1 DEF Story, Course, PCs, Running, Undecided, Activating, Ending
<1>3. CASE Action[g] = "tag"
  BY <1>1, <1>2, <1>3 DEF Effect, TagEffect, InPlace, Undone, Recorded, Undecided
<1>4. CASE Action[g] = "user_role"
  BY <1>1, <1>2, <1>4 DEF Effect, RoleEffect, InPlace, Undone, Recorded, Undecided
<1>5. CASE Action[g] = "user_restore"
  BY <1>1, <1>2, <1>5 DEF Effect, RestoreEffect, InPlace, Undone, Recorded, Undecided
<1> QED BY <1>3, <1>4, <1>5, GrantsAssumption

(* A grant that no other grant interferes with is in effect while active,  *)
(* and undone when it is over, unless an activity gave up.                 *)
THEOREM EffectsFollow == Spec => []EffectFollowsStatus
<1>1. Typed /\ Stories /\ Effects /\ [Next]_vars => Effects'
  BY NextEffects
<1>2. Typed /\ Stories /\ Effects => EffectFollowsStatus
  BY EffectsSuffice
<1> QED BY <1>1, <1>2, InitEffects, TypeCorrect, StoriesHold, PTL DEF Spec, Typed

-----------------------------------------------------------------------------
(* GrantWorkflow implements GrantLifecycle.                                *)

(* The abstract state changes only where the grant that moved is.          *)
LEMMA StageMoves ==
  ASSUME Typed, NEW g \in Grants, Person(g) \/ Workflow(g)
  PROVE  /\ [h \in Grants |-> Stage(h)]' = [[h \in Grants |-> Stage(h)] EXCEPT ![g] = Stage(g)']
         /\ approvedBy' = [approvedBy EXCEPT ![g] = approvedBy'[g]]
         /\ expiresIn' = [expiresIn EXCEPT ![g] = expiresIn'[g]]
<1>1. \A h \in Grants \ {g} : Same(h)
  BY OthersSame
<1>2. \A h \in Grants \ {g} : Stage(h)' = Stage(h)
  BY <1>1 DEF Same, Stage
<1>3. /\ approvedBy' \in [Grants -> People \cup {Nobody}] /\ approvedBy \in [Grants -> People \cup {Nobody}]
      /\ expiresIn' \in [Grants -> Nat] /\ expiresIn \in [Grants -> Nat]
  BY NextType DEF Next, Typed, TypeOK
<1>4. [h \in Grants |-> Stage(h)]' = [[h \in Grants |-> Stage(h)] EXCEPT ![g] = Stage(g)']
  BY <1>2
<1> QED BY <1>1, <1>3, <1>4 DEF Same

(* What GrantLifecycle lets one grant do, said of that grant alone.        *)
Turns(g, from, to) ==
  Stage(g) = from /\ Stage(g)' = to /\ approvedBy'[g] = approvedBy[g]

Lives(g) ==
  \/ Turns(g, Stage(g), Stage(g)) /\ expiresIn'[g] = expiresIn[g]
  \/ /\ expiresIn'[g] = expiresIn[g]
     /\ \/ Turns(g, "none", "pending") \/ Turns(g, "pending", "denied")
        \/ Turns(g, "pending", "failed") \/ Turns(g, "active", "revoked")
        \/ Turns(g, "active", "expired") /\ expiresIn[g] = 0
  \/ /\ Stage(g) = "pending" /\ Stage(g)' = "pending" /\ expiresIn'[g] = expiresIn[g]
     /\ approvedBy[g] = Nobody /\ approvedBy'[g] \in People
     /\ Promise!MayApprove(g, approvedBy'[g])
  \/ /\ expiresIn'[g] \in 1 .. MaxDuration[g]
     /\ \/ Turns(g, "pending", "active") /\ (g \in Risky => approvedBy[g] # Nobody)
        \/ Turns(g, "active", "active")

(* Such a step is one of GrantLifecycle, or none that it can see.          *)
LEMMA LivesSuffices ==
  ASSUME Typed, NEW g \in Grants, Person(g) \/ Workflow(g), Lives(g)
  PROVE  [Promise!Next]_(Promise!vars)
<1> DEFINE stage == [h \in Grants |-> Stage(h)]
<1>1. /\ stage' = [stage EXCEPT ![g] = Stage(g)']
      /\ approvedBy' = [approvedBy EXCEPT ![g] = approvedBy'[g]]
      /\ expiresIn' = [expiresIn EXCEPT ![g] = expiresIn'[g]]
  BY StageMoves
<1>2. /\ approvedBy \in [Grants -> People \cup {Nobody}] /\ expiresIn \in [Grants -> Nat]
      /\ stage[g] = Stage(g) /\ stage = [stage EXCEPT ![g] = Stage(g)]
  BY DEF Typed, TypeOK
<1>3. ASSUME approvedBy'[g] = approvedBy[g]
      PROVE  approvedBy' = approvedBy
  BY <1>1, <1>2, <1>3
<1>4. ASSUME expiresIn'[g] = expiresIn[g]
      PROVE  expiresIn' = expiresIn
  BY <1>1, <1>2, <1>4
<1>5. CASE Turns(g, Stage(g), Stage(g)) /\ expiresIn'[g] = expiresIn[g]
  BY <1>1, <1>2, <1>3, <1>4, <1>5 DEF Turns, Promise!vars
<1>6. CASE /\ expiresIn'[g] = expiresIn[g]
           /\ \/ Turns(g, "none", "pending") \/ Turns(g, "pending", "denied")
              \/ Turns(g, "pending", "failed") \/ Turns(g, "active", "revoked")
              \/ Turns(g, "active", "expired") /\ expiresIn[g] = 0
  <2>1. \/ Promise!Request(g) \/ Promise!Deny(g) \/ Promise!Fail(g) \/ Promise!Revoke(g)
        \/ Promise!Expire(g)
    BY <1>1, <1>2, <1>3, <1>4, <1>6 DEF Turns, Promise!Request, Promise!Deny, Promise!Fail,
       Promise!Revoke, Promise!Expire, Promise!Moves
  <2> QED BY <2>1 DEF Promise!Next
<1>7. CASE /\ Stage(g) = "pending" /\ Stage(g)' = "pending" /\ expiresIn'[g] = expiresIn[g]
           /\ approvedBy[g] = Nobody /\ approvedBy'[g] \in People
           /\ Promise!MayApprove(g, approvedBy'[g])
  <2>1. Promise!Approve(g, approvedBy'[g])
    BY <1>1, <1>2, <1>4, <1>7 DEF Promise!Approve
  <2> QED BY <1>7, <2>1 DEF Promise!Next
<1>8. CASE /\ expiresIn'[g] \in 1 .. MaxDuration[g]
           /\ \/ Turns(g, "pending", "active") /\ (g \in Risky => approvedBy[g] # Nobody)
              \/ Turns(g, "active", "active")
  <2>1. Promise!Activate(g, expiresIn'[g]) \/ Promise!Extend(g, expiresIn'[g])
    BY <1>1, <1>2, <1>3, <1>8 DEF Turns, Promise!Activate, Promise!Extend, Promise!Moves
  <2> QED BY <1>8, <2>1 DEF Promise!Next
<1> QED BY <1>5, <1>6, <1>7, <1>8 DEF Lives

(* What people do is at most a request.                                    *)
LEMMA PersonLives ==
  ASSUME Typed, NEW g \in Grants, Story(g), Person(g)
  PROVE  Lives(g)
<1> USE DEF stateVars, waitVars
<1>1. CASE HandleCreateGrant(g)
  <2>1. /\ pc[g] = "none" /\ pc'[g] = "start"
        /\ UNCHANGED << status, approvedBy, expiresIn >>
    BY <1>1 DEF HandleCreateGrant, Goto, Typed, TypeOK
  <2> QED BY <2>1 DEF Lives, Turns, Stage, Story, Course, Undecided
<1>2. CASE Person(g) /\ ~HandleCreateGrant(g)
  <2>1. /\ \/ pc'[g] = pc[g]
           \/ pc[g] = "blocked" /\ pc'[g] \in {"wokenRevoke", "wokenExtend"}
        /\ UNCHANGED << status, approvedBy, expiresIn >>
    BY <1>2 DEF Person, CheckApprove, SendApprove, HandleDenyGrant, HandleRevokeGrant,
       HandleExtendGrant, TerminateApproval, Wakes, Typed, TypeOK
  <2> QED BY <2>1 DEF Lives, Turns, Stage
<1> QED BY <1>1, <1>2

(* The approval workflow approves, denies, or leaves the grant pending.    *)
LEMMA ApprovalLives ==
  ASSUME Typed, NEW g \in Grants, Story(g),
         \/ Start(g) \/ BlockApproval(g) \/ ReceiveApprove(g) \/ ReceiveDeny(g)
         \/ ApprovalTimerFires(g) \/ ApprovalReturns(g)
  PROVE  Lives(g)
<1> USE DEF stateVars, waitVars
<1>1. CASE Start(g)
  <2>1. /\ pc[g] = "start" /\ pc'[g] \in {"child", Activation(g)}
        /\ UNCHANGED << status, approvedBy, expiresIn >>
    BY <1>1 DEF Start, Goto, Typed, TypeOK
  <2> QED BY <2>1, Branches DEF Lives, Turns, Stage
<1>2. CASE BlockApproval(g) \/ ReceiveApprove(g) \/ ReceiveDeny(g) \/ ApprovalTimerFires(g)
  <2>1. UNCHANGED << pc, status, approvedBy, expiresIn >>
    BY <1>2 DEF BlockApproval, ReceiveApprove, ReceiveDeny, ApprovalTimerFires, ApprovalQuiet
  <2> QED BY <2>1 DEF Lives, Turns, Stage
<1>3. CASE ApprovalReturns(g)
  <2>1. /\ pc[g] = "child" /\ UNCHANGED expiresIn
        /\ status[g] = "pending_approval" /\ approvedBy[g] = Nobody
    BY <1>3 DEF ApprovalReturns, Story, Course, Approval, Undecided
  <2>2. CASE apc[g] = "closed" /\ result[g] # Nobody
    <3>1. /\ approvedBy'[g] = result[g] /\ pc'[g] = Activation(g) /\ UNCHANGED status
          /\ result[g] \in People
      BY <1>3, <2>2 DEF ApprovalReturns, Goto, Typed, TypeOK
    <3>2. MayApprove(g, result[g])
      BY <2>2 DEF Story, Approval
    <3> QED BY <2>1, <3>1, <3>2, Branches DEF Lives, Stage, MayApprove, Promise!MayApprove
  <2>3. CASE apc[g] = "closed" /\ result[g] = Nobody
    <3>1. /\ UNCHANGED approvedBy /\ pc'[g] = "done" /\ status'[g] = "denied"
      BY <1>3, <2>3 DEF ApprovalReturns, Goto, Typed, TypeOK
    <3> QED BY <2>1, <3>1 DEF Lives, Turns, Stage
  <2>4. CASE apc[g] = "terminated"
    <3>1. UNCHANGED << approvedBy, status >> /\ pc'[g] = "failed"
      BY <1>3, <2>4 DEF ApprovalReturns, Goto, Typed, TypeOK
    <3> QED BY <2>1, <3>1 DEF Lives, Turns, Stage
  <2> QED BY <1>3, <2>2, <2>3, <2>4 DEF ApprovalReturns
<1> QED BY <1>1, <1>2, <1>3

(* Activities show only when they fail for good before the activation.     *)
LEMMA ActivityLives ==
  ASSUME Typed, NEW g \in Grants, Story(g),
         \/ SignalWithStartDeviceTagManager(g) \/ GetUser(g) \/ SetUserRole(g)
         \/ RestoreUser(g) \/ RevertUserRole(g) \/ SuspendUser(g) \/ SignalRemoveGrant(g)
  PROVE  Lives(g)
<1>1. UNCHANGED << status, approvedBy, expiresIn >>
  BY DEF SignalWithStartDeviceTagManager, GetUser, SetUserRole, RestoreUser,
         RevertUserRole, SuspendUser, SignalRemoveGrant, Call, stateVars
<1>2. \/ pc'[g] = pc[g]
      \/ pc[g] \in Activating /\ pc'[g] \in {"setRole", "activate", "failed"}
      \/ pc[g] \in Ending /\ pc'[g] = "done"
  BY ActivityPlace DEF Activating
<1>3. CASE pc'[g] = pc[g] \/ (pc[g] \in Ending /\ pc'[g] = "done")
  BY <1>1, <1>3 DEF Lives, Turns, Stage, Ending
<1>4. CASE pc[g] \in Activating /\ pc'[g] \in {"setRole", "activate", "failed"}
  <2>1. status[g] = "pending_approval"
    BY <1>4 DEF Story, Course
  <2> QED BY <1>1, <1>4, <2>1 DEF Lives, Turns, Stage, Activating
<1> QED BY <1>2, <1>3, <1>4

(* Activation, expiry, revocation and extension are those of the promise.  *)
LEMMA LoopLives ==
  ASSUME Typed, NEW g \in Grants, Story(g),
         \/ Activate(g) \/ Block(g) \/ TimerFires(g) \/ Expire(g) \/ Revoke(g) \/ Extend(g)
  PROVE  Lives(g)
<1> USE DEF waitVars
<1>1. UNCHANGED approvedBy
  BY DEF Activate, Block, TimerFires, Expire, Revoke, Extend, LoopQuiet
<1>2. ASSUME NEW d, Arm(g, d)
      PROVE  expiresIn'[g] = d
  BY <1>2 DEF Arm, Typed, TypeOK
<1>3. CASE Activate(g)
  <2>1. /\ pc[g] = "activate" /\ pc'[g] = "select" /\ status'[g] = "active"
        /\ expiresIn'[g] = duration[g]
    BY <1>2, <1>3 DEF Activate, Goto, Typed, TypeOK
  <2>2. /\ status[g] = "pending_approval" /\ duration[g] \in 1 .. MaxDuration[g]
        /\ g \in Risky => approvedBy[g] # Nobody
    BY <2>1 DEF Story, Course, Approval, Clock, Undecided, Activating, Durations
  <2> QED BY <1>1, <2>1, <2>2 DEF Lives, Turns, Stage
<1>4. CASE Block(g) \/ TimerFires(g)
  <2>1. /\ pc[g] \in {"select", "blocked"} /\ pc'[g] \in {"blocked", "wokenTimer"}
        /\ UNCHANGED << status, expiresIn >>
    BY <1>4 DEF Block, TimerFires, Goto, Typed, TypeOK
  <2> QED BY <1>1, <2>1 DEF Lives, Turns, Stage
<1>5. CASE Expire(g)
  <2>1. /\ pc[g] = "wokenTimer" /\ pc'[g] = Deactivation(g) /\ status'[g] = "expired"
        /\ UNCHANGED expiresIn
    BY <1>5 DEF Expire, Goto, Typed, TypeOK
  <2>2. status[g] = "active" /\ expiresIn[g] = 0
    BY <2>1 DEF Story, Course, Clock, Waiting
  <2> QED BY <1>1, <2>1, <2>2, Branches DEF Lives, Turns, Stage
<1>6. CASE Revoke(g)
  <2>1. /\ pc[g] \in {"select", "wokenRevoke"} /\ pc'[g] = Deactivation(g)
        /\ status'[g] = "revoked" /\ UNCHANGED expiresIn
    BY <1>6 DEF Revoke, RevokeReady, Goto, Typed, TypeOK
  <2>2. status[g] = "active"
    BY <2>1 DEF Story, Course, Waiting
  <2> QED BY <1>1, <2>1, <2>2, Branches DEF Lives, Turns, Stage
<1>7. CASE Extend(g)
  <2>1. extendCh[g] # <<>> /\ extendCh[g] \in Seq(Nat \ {0})
    BY <1>7 DEF Extend, ExtendReady, Typed, TypeOK, Buffered
  <2>2. Clamped(g, Head(extendCh[g])) \in 1 .. MaxDuration[g]
    BY <2>1, ClampedRange DEF Durations
  <2>3. /\ pc[g] \in {"select", "wokenExtend"} /\ pc'[g] = "select" /\ UNCHANGED status
        /\ expiresIn'[g] = Clamped(g, Head(extendCh[g]))
    BY <1>2, <1>7 DEF Extend, ExtendReady, Goto, Typed, TypeOK
  <2>4. status[g] = "active"
    BY <2>3 DEF Story, Course, Waiting
  <2> QED BY <1>1, <2>2, <2>3, <2>4 DEF Lives, Turns, Stage
<1> QED BY <1>3, <1>4, <1>5, <1>6, <1>7

(* Every step is one that GrantLifecycle allows, or invisible to it.       *)
LEMMA StepKeepsPromise ==
  ASSUME Typed, Stories, [Next]_vars
  PROVE  [Promise!Next]_(Promise!vars)
<1>1. CASE Tick
  <2>1. /\ expiresIn' = Promise!Elapse(expiresIn)
        /\ UNCHANGED << pc, status, approvedBy >>
    BY <1>1 DEF Tick, Elapse, Promise!Elapse
  <2>2. Promise!Tick
    BY <2>1 DEF Promise!Tick, Stage
  <2> QED BY <2>2 DEF Promise!Next
<1>2. ASSUME NEW g \in Grants, Person(g) \/ Workflow(g)
      PROVE  [Promise!Next]_(Promise!vars)
  <2>1. Lives(g)
    BY <1>2, PersonLives, ApprovalLives, ActivityLives, LoopLives DEF Workflow, Stories
  <2> QED BY <1>2, <2>1, LivesSuffices
<1>3. CASE UNCHANGED vars
  BY <1>3 DEF vars, stateVars, Stage, Promise!vars
<1> QED BY <1>1, <1>2, <1>3 DEF Next

(* At first every grant is in its first stage.                             *)
LEMMA InitPromise == Init => Promise!Init
<1> SUFFICES ASSUME Init
             PROVE  Promise!Init
  OBVIOUS
<1>1. ASSUME NEW g \in Grants
      PROVE  Stage(g) = "none"
  <2>1. pc[g] = "none"
    BY DEF Init
  <2> QED BY <2>1 DEF Stage
<1> QED BY <1>1 DEF Init, Promise!Init

(* Every grant lives as GrantLifecycle promises: approved, if risky, by    *)
(* somebody entitled to before it becomes active, never expired early,     *)
(* never set further ahead than its type allows, and over for good.        *)
THEOREM Implements == Spec => KeepsPromise
<1>1. Typed /\ Stories /\ [Next]_vars => [Promise!Next]_(Promise!vars)
  BY StepKeepsPromise
<1> QED
  BY InitPromise, <1>1, TypeCorrect, StoriesHold, PTL
     DEF Spec, Typed, KeepsPromise, Promise!Spec
=============================================================================
