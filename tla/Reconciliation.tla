--------------------------- MODULE Reconciliation ---------------------------
(***************************************************************************)
(* ReconciliationWorkflow (internal/grant/reconcile.go) at work among the  *)
(* tag managers of TagManager.  A round lists the devices and then deals   *)
(* with one after the other: without a manager their grant tags and grant  *)
(* attributes are taken away; a manager whose ledger differs from what was *)
(* found on its device is asked to sync.  Between rounds it sleeps, which  *)
(* here is the time before the next round is taken up.                     *)
(***************************************************************************)
EXTENDS TagManager

CONSTANTS
  GrantTags,        (* ReconciliationInput.GrantTags.                     *)
  GrantKeys,        (* ReconciliationInput.GrantPostureKeys.              *)
  CleanupAttempts,  (* MaximumAttempts of the clean-up activities.        *)
  MaxQueued         (* Bounds the run: sync signals buffered at a device. *)

ASSUME ReconciliationAssumption ==
  /\ GrantTags \subseteq Tags /\ GrantKeys \subseteq Keys /\ IsFiniteSet(GrantKeys)
  /\ CleanupAttempts \in Nat \ {0} /\ MaxQueued \in Nat \ {0}

VARIABLES
  rpc,          (* The call the reconciler is at.                         *)
  snapshot,     (* snapshot[n]: the tags of n in the list of devices.     *)
  toDo,         (* Devices of this round still to be looked at.           *)
  dev,          (* The device being looked at.                            *)
  found,        (* stalePostureKeys, in the order they were collected.    *)
  rattempt      (* Failed attempts of the activity that is running.       *)

roundVars   == << snapshot, toDo, dev, found >>
managerVars == << grantVars, pc, active, addCh, removeCh, signalCount, job,
                  lost, errored, edits, syncs >>
reconVars   == << vars, rpc, roundVars, rattempt >>

-----------------------------------------------------------------------------
(* Mutant: the parts are returned in the other order.                      *)
GrantPartAgain(ts) == ts \cap GrantTags

(* partitionTags: what is managed by grants, and everything else.          *)
grantTags(ts) == ts \cap GrantTags
otherTags(ts) == ts \ GrantTags

(* Mutant: a missing tag does not count.                                   *)
NoneTooMany(actual, expected) == actual \subseteq expected

tagsMatch(actual, expected) == actual = expected

(* Mutant: devices with nothing but grant attributes are passed over.      *)
TagsOnly(ts, keys) == grantTags(ts) # {}

(* A device is of interest for a grant tag or a grant attribute.           *)
Concerned(ts, keys) == grantTags(ts) # {} \/ keys # <<>>

(* The keys that the ledger of n puts on n itself.                         *)
TargetKeys(n) ==
  UNION { {pa.key : pa \in {q \in Assets[g].posture : q.target = "target"}} : g \in active[n] }

(* What was found on the device is not what the ledger asks for.           *)
Drift ==
  \/ /\ grantTags(snapshot[dev]) # {}
     /\ ~tagsMatch(grantTags(snapshot[dev]), Claimed(dev))
  \/ ~(ToSet(found) \subseteq TargetKeys(dev))

ReconInit ==
  /\ Init
  /\ rpc = "list"
  /\ snapshot = [n \in Nodes |-> {}]
  /\ toDo = {}
  /\ dev \in Nodes
  /\ found = <<>>
  /\ rattempt = 0

-----------------------------------------------------------------------------
(* The call returns, with a result or a verdict, and the round goes on.    *)
Done(to) == rpc' = to /\ rattempt' = 0 /\ UNCHANGED faults

(* Mutant: one attempt too many.                                           *)
OneAttemptMore(failed, limit) == failed + 1 =< limit

AttemptsLeft(failed, limit) == failed + 1 < limit

(* An attempt fails: it is retried, or the error is logged and the round   *)
(* goes on at `to`.                                                        *)
Fails(limit, to) ==
  /\ faults < MaxFaults
  /\ faults' = faults + 1
  /\ IF AttemptsLeft(rattempt, limit)
       THEN rattempt' = rattempt + 1 /\ UNCHANGED rpc
       ELSE rpc' = to /\ rattempt' = 0

(* A round begins; without the list there is nothing to do in it.          *)
ListDevices ==
  /\ rpc = "list"
  /\ \/ snapshot' = tags /\ toDo' = Nodes /\ Done("next")
     \/ Fails(MaxAttempts, "list") /\ UNCHANGED << snapshot, toDo >>
  /\ UNCHANGED << dev, found, managerVars, deviceVars, syncCh >>

(* The next device, in the order of the list; after the last one, sleep.   *)
NextDevice ==
  /\ rpc = "next"
  /\ \/ toDo = {} /\ Done("list") /\ UNCHANGED << toDo, dev, found >>
     \/ \E n \in toDo :
          /\ dev' = n /\ toDo' = toDo \ {n} /\ found' = <<>>
          /\ Done(IF GrantKeys # {} THEN "posture"
                  ELSE IF Concerned(snapshot[n], <<>>) THEN "check" ELSE "next")
  /\ UNCHANGED << snapshot, managerVars, deviceVars, syncCh >>

(* The grant attributes of the device, in the order of a Go map.           *)
FindPosture ==
  LET After(keys) == IF Concerned(snapshot[dev], keys) THEN "check" ELSE "next" IN
  /\ rpc = "posture"
  /\ \/ \E keys \in SetToSeqs({k \in GrantKeys : << dev, k >> \in posture}) :
          found' = keys /\ Done(After(keys))
     \/ Fails(MaxAttempts, After(<<>>)) /\ UNCHANGED found
  /\ UNCHANGED << snapshot, toDo, dev, managerVars, deviceVars, syncCh >>

(* CheckWorkflowExists, twice before anything is taken away.               *)
Check(at, running, closed) ==
  /\ rpc = at
  /\ \/ Done(IF pc[dev] = "closed" THEN closed ELSE running)
     \/ Fails(MaxAttempts, "next")
  /\ UNCHANGED << roundVars, managerVars, deviceVars, syncCh >>

CheckWorkflowExists == Check("check", "query", "recheck")

CheckAgain ==
  Check("recheck", "next", IF grantTags(snapshot[dev]) # {} THEN "clean" ELSE "delete")

(* SetDeviceTags with what else was on the device when it was listed.      *)
RemoveStaleTags ==
  LET Write == tags' = [tags EXCEPT ![dev] = otherTags(snapshot[dev])]
      to    == IF found = <<>> THEN "next" ELSE "delete" IN
  /\ rpc = "clean"
  /\ \/ Write /\ Done(to)
     \/ (Write \/ UNCHANGED tags) /\ Fails(CleanupAttempts, to)
  /\ UNCHANGED << roundVars, managerVars, posture, syncCh >>

(* DeletePostureAttribute of what was found, one after the other.          *)
RemoveStalePosture ==
  LET Write == posture' = posture \ {<< dev, Head(found) >>}
      to    == IF Tail(found) = <<>> THEN "next" ELSE "delete" IN
  /\ rpc = "delete"
  /\ \/ Write /\ Done(to)
     \/ (Write \/ UNCHANGED posture) /\ Fails(CleanupAttempts, to)
  /\ found' = IF rattempt' = 0 THEN Tail(found) ELSE found
  /\ UNCHANGED << snapshot, toDo, dev, managerVars, tags, syncCh >>

(* A manager that has closed meanwhile answers with its empty ledger.      *)
QueryActiveGrants ==
  /\ rpc = "query"
  /\ Done(IF Drift THEN "sync" ELSE "next") \/ Fails(MaxAttempts, "sync")
  /\ UNCHANGED << roundVars, managerVars, deviceVars, syncCh >>

(* The signal to a manager that has closed fails, which is ignored.        *)
SignalSync ==
  /\ rpc = "sync"
  /\ IF pc[dev] = "closed"
       THEN UNCHANGED << syncCh, pc >>
       ELSE syncCh[dev] < MaxQueued /\ DeliverSync(dev)
  /\ Done("next")
  /\ UNCHANGED << roundVars, grantVars, active, addCh, removeCh, signalCount, job,
                  deviceVars, lost, errored, edits, syncs >>

Reconciler ==
  \/ ListDevices
  \/ NextDevice
  \/ FindPosture
  \/ CheckWorkflowExists
  \/ CheckAgain
  \/ RemoveStaleTags
  \/ RemoveStalePosture
  \/ QueryActiveGrants
  \/ SignalSync

ReconNext ==
  \/ Next /\ UNCHANGED << rpc, roundVars, rattempt >>
  \/ Reconciler

(* Rounds go on for ever: each continues as new after its sleep.           *)
ReconSpec ==
  ReconInit /\ [][ReconNext]_reconVars /\ Fairness /\ WF_reconVars(Reconciler)

-----------------------------------------------------------------------------
(* Properties.                                                             *)

(* Types of the reconciler's variables; clean-up has something to clean.   *)
ReconTypeOK ==
  /\ rpc \in {"list", "next", "posture", "check", "recheck", "clean", "delete",
              "query", "sync"}
  /\ snapshot \in [Nodes -> SUBSET Tags]
  /\ toDo \in SUBSET Nodes
  /\ dev \in Nodes
  /\ found \in Seq(GrantKeys)
  /\ rattempt \in 0 .. (IF rpc \in {"clean", "delete"} THEN CleanupAttempts ELSE MaxAttempts) - 1
  /\ rpc = "delete" => found # <<>>

(* The tags without those that grants or, as the reconciler has it, grant  *)
(* types may assign; the two differ once the configuration was edited.     *)
OwnTags(ts) == ts \ (GrantTags \cup TagsOf(Assets, Grants))

(* However old its snapshot is, and whatever it repeats, the reconciler    *)
(* leaves the tags alone that are no grant's, as long as nobody else edits *)
(* the device.                                                             *)
OtherTagsKept ==
  edits = 0 => \A n \in Nodes : OwnTags(tags[n]) = OwnTags(BaseTags[n])

(* What failed removals and lost signals leave on a device is cleaned up   *)
(* once its manager is gone for good.                                      *)
LeftoversGo ==
  \A n \in Nodes :
    <>[](pc[n] = "closed") =>
      <>[](tags[n] \cap GrantTags = {} /\ posture \cap ({n} \X GrantKeys) = {})

(* A claimed tag that is missing from a device returns, provided that the  *)
(* device has some grant tag left by which the reconciler notices it; one  *)
(* that has lost them all is passed over.                                  *)
PartialDriftRepaired ==
  \A n \in Nodes : []<>(Claimed(n) \subseteq tags[n] \/ tags[n] \cap GrantTags = {})

-----------------------------------------------------------------------------
(* What the repository says of this component and the code does not do.    *)

(* reconcile.go: grant tags are removed from devices that have "no active  *)
(* DeviceTagManager".                                                      *)
ManagedTagsKept ==
  [][ \A n \in Nodes :
        Reconciler /\ pc[n] # "closed" => tags[n] \cap Claimed(n) \subseteq tags'[n] ]_reconVars
=============================================================================
