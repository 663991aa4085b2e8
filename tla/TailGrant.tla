------------------------------ MODULE TailGrant ------------------------------
(***************************************************************************)
(* Grants for devices from end to end: every GrantWorkflow with its        *)
(* approval child, the tag managers of the devices, and the signals        *)
(* between them.  GrantWorkflow has the one side and sees the managers as  *)
(* the set `told`; TagManager has the other and sees the grants as the     *)
(* stages they have reached.  Here each takes the other's place, so what   *)
(* either assumes of its surroundings is what the other one does.          *)
(*                                                                         *)
(* All grants are tag grants: the managers know nothing of the others.     *)
(* The reconciler's syncs and administrators' edits are left out; they     *)
(* have their part in Reconciliation and TagManager.                       *)
(***************************************************************************)
EXTENDS Naturals, SequencesExt

CONSTANTS
  (* Of both components.                                                   *)
  Grants, MaxAttempts, MaxFaults,
  (* Of GrantWorkflow.                                                     *)
  People, Nobody, Requester, Approvers, Risky, MaxDuration, Action, Users,
  TargetUser, Roles, NoRole, GrantedRole, FirstRole, FirstSuspended,
  ApprovalTimeout, MaxSignals,
  (* Of TagManager.                                                        *)
  Nodes, NoNode, Tags, Keys, CustomKeys, Target, Assets, BaseTags, Threshold,
  MaxEdits, MaxSyncs

ASSUME TagGrantsOnly == Action = [g \in Grants |-> "tag"]

(* What the parts assume of their constants, here and below.               *)
ASSUME GrantsAssumption ==
  /\ Nobody \notin People /\ NoRole \notin Roles
  /\ Requester \in [Grants -> People]
  /\ Approvers \in [Grants -> SUBSET People]
  /\ Risky \subseteq Grants
  /\ MaxDuration \in [Grants -> Nat \ {0}]
  /\ TargetUser \in [Grants -> Users]
  /\ GrantedRole \in [Grants -> Roles]
  /\ FirstRole \in [Users -> Roles]
  /\ FirstSuspended \subseteq Users
ASSUME LimitsAssumption ==
  /\ {ApprovalTimeout, Threshold, MaxAttempts} \subseteq Nat \ {0}
  /\ {MaxFaults, MaxSignals, MaxEdits, MaxSyncs} \subseteq Nat

VARIABLES
  (* GrantWorkflow.                                                        *)
  pc, status, approvedBy, originalRole, duration, expiresIn, timer, revokeCh,
  extendCh, attempt, apc, approveCh, denyCh, approvalLeft, approvalFired,
  result, checked, role, suspended, told, gaveUp, signals,
  (* TagManager; mpc is its pc.                                            *)
  mpc, active, addCh, removeCh, syncCh, signalCount, job, tags, posture,
  lost, errored, edits, syncs,
  faults        (* The budget of failed attempts, used by both.            *)

(* The grants' side, but for faults.                                       *)
grantSide ==
  << pc, status, approvedBy, originalRole, duration, expiresIn, timer, revokeCh,
     extendCh, attempt, apc, approveCh, denyCh, approvalLeft, approvalFired,
     result, checked, role, suspended, told, gaveUp, signals >>
(* The managers' side, but for faults.                                     *)
managerSide ==
  << mpc, active, addCh, removeCh, syncCh, signalCount, job, tags, posture,
     lost, errored, edits, syncs >>
vars == << grantSide, managerSide, faults >>

G == INSTANCE GrantWorkflow

(* How far a grant is with its manager; one that fails before it signals   *)
(* is as good as new to it.                                                *)
Phase(g) ==
  CASE pc[g] \in {"none", "start", "child"}        -> "new"
    [] pc[g] = "failed" /\ g \notin gaveUp         -> "new"
    [] pc[g] = "addGrant"                          -> "adding"
    [] pc[g] \in G!Waiting \cup {"activate", "removeGrant"} -> "active"
    [] pc[g] = "failed" /\ g \in gaveUp            -> "failed"
    [] pc[g] = "done" /\ status[g] = "denied"      -> "new"
    [] OTHER                                       -> "ended"

M == INSTANCE TagManager
       WITH pc <- mpc, phase <- [g \in Grants |-> Phase(g)], tries <- attempt

ASSUME DevicesAssumption ==
  /\ NoNode \notin Nodes /\ CustomKeys \subseteq Keys
  /\ Target \in [Grants -> Nodes]
  /\ Assets \in [Grants -> M!GrantAssets(Tags, Keys, Nodes)]
  /\ BaseTags \in [Nodes -> SUBSET Tags]

Init == G!Init /\ M!Init

-----------------------------------------------------------------------------
(* SignalWithStartDeviceTagManager as both sides see it: an attempt that   *)
(* succeeded has delivered add-grant, one that failed may have.            *)
AddGrant(g) ==
  /\ G!SignalWithStartDeviceTagManager(g)
  /\ \/ M!DeliverAdd(g) /\ g \in told'
     \/ pc'[g] # "activate" /\ told' = told /\ UNCHANGED << addCh, mpc >>
  /\ UNCHANGED << active, removeCh, syncCh, signalCount, job, tags, posture, lost,
                  errored, edits, syncs >>

(* SignalExternalWorkflow: into the manager's channel if it runs.          *)
RemoveGrant(g) ==
  LET n == Target[g] IN
  /\ G!SignalRemoveGrant(g)
  /\ IF mpc[n] = "closed"
       THEN UNCHANGED << removeCh, mpc >>
       ELSE /\ removeCh' = [removeCh EXCEPT ![n] = Append(@, g)]
            /\ M!Wake(n, "wokenRemove")
  /\ UNCHANGED << active, addCh, syncCh, signalCount, job, tags, posture, lost,
                  errored, edits, syncs >>

(* What a grant does without its manager.                                  *)
GrantAlone(g) ==
  /\ \/ G!Start(g)
     \/ G!BlockApproval(g)
     \/ G!ReceiveApprove(g)
     \/ G!ReceiveDeny(g)
     \/ G!ApprovalTimerFires(g)
     \/ G!ApprovalReturns(g)
     \/ G!Activate(g)
     \/ G!Block(g)
     \/ G!TimerFires(g)
     \/ G!Expire(g)
     \/ G!Revoke(g)
     \/ G!Extend(g)
  /\ UNCHANGED managerSide

Grant(g) == AddGrant(g) \/ RemoveGrant(g) \/ GrantAlone(g)

Person(g) == G!Person(g) /\ UNCHANGED managerSide

Time == G!Tick /\ UNCHANGED managerSide

Manager(n) == UNCHANGED grantSide /\ M!Manager(n)

Next ==
  \/ Time
  \/ \E g \in Grants : Person(g) \/ Grant(g)
  \/ \E n \in Nodes : Manager(n)

(* Temporal goes on as long as some workflow, activity or timer can, and   *)
(* time passes; whose turn it is is left open, which is less than the      *)
(* fairness the parts assume.                                              *)
Fairness ==
  WF_vars(\/ \E g \in Grants : Grant(g)
          \/ \E n \in Nodes : Manager(n)
          \/ Time)

Spec == Init /\ [][Next]_vars /\ Fairness

-----------------------------------------------------------------------------
(* Properties.                                                             *)

(* What TagManager assumes of the grants and what it does itself is what   *)
(* happens: its specification (but for fairness) is implemented with real  *)
(* grant workflows in the place of its environment.                        *)
ManagersAsSpecified == M!Init /\ [][M!Next]_(M!vars)

(* The grants for device n that may be carried out.                        *)
PermittedFor(n) ==
  {g \in Grants : Target[g] = n /\ pc[g] # "none" /\ G!Permitted(g)}

(* A device carries no tag but its own and those of grants that were       *)
(* requested and, if risky, approved by somebody entitled to: through      *)
(* approval, signals, ledger and tag writes, with all their retries.       *)
AccessNeedsApproval ==
  \A n \in Nodes : tags[n] \subseteq BaseTags[n] \cup M!TagsOf(Assets, PermittedFor(n))

(* The manager of a device still knows grant g, or will.                   *)
Held(g) == g \in active[Target[g]] \cup ToSet(addCh[Target[g]])

(* Nothing holds on to a grant that is over without a reason: it is being  *)
(* removed, its removal was dropped at the end of a run, or its workflow   *)
(* failed on an add-grant that had been delivered.                         *)
HeldForAReason ==
  \A g \in Grants :
    Held(g) =>
      \/ pc[g] \in G!Running
      \/ g \in ToSet(removeCh[Target[g]])
      \/ <<"remove", g>> \in lost
      \/ pc[g] = "failed" /\ g \in gaveUp /\ g \in told

(* Every grant that is asked for comes to an end, and so does the access   *)
(* it gave, for good: the manager lets it go and its tags are off the      *)
(* device, unless they are the device's own or another grant's.            *)
AccessEnds ==
  <>[] \A g \in Grants :
         \/ pc[g] \in {"none", "failed"}
         \/ pc[g] = "done" /\ M!Excused("remove", g)
         \/ /\ pc[g] = "done"
            /\ ~Held(g)
            /\ Assets[g].tags \cap tags[Target[g]] \subseteq
                 BaseTags[Target[g]] \cup M!TagsOf(Assets, active[Target[g]] \ {g})

(* Whoever is told that the grant is active gets what the grant gives,     *)
(* though it may come late.                                                *)
AccessComes ==
  \A g \in Grants :
    status[g] = "active" ~>
      M!Excused("add", g) \/ Assets[g].tags \subseteq tags[Target[g]]
=============================================================================
