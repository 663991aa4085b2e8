----------------------------- MODULE TagManager -----------------------------
(***************************************************************************)
(* DeviceTagManagerWorkflow (internal/grant/tagmanager.go): one workflow   *)
(* per device that serialises the tag and posture mutations asked for by   *)
(* grants.  The module has the managers of every device, the signals sent  *)
(* to them by grants and by the reconciler, the state of the devices, and  *)
(* an administrator who edits devices on the side.                         *)
(*                                                                         *)
(* Workflow code runs atomically between two blocking points, so pc[n] is  *)
(* the call a manager is at.  An activity attempt may take effect and      *)
(* still be reported as failed (at-least-once); after MaxAttempts failed   *)
(* attempts the call returns an error, which the workflow logs.            *)
(***************************************************************************)
EXTENDS Naturals, SequencesExt, TagOps

CONSTANTS
  Nodes,        (* Device IDs.                                            *)
  Grants,       (* Grant IDs.                                             *)
  Tags,         (* Tags a device may carry.                               *)
  Keys,         (* Posture attribute keys.                                *)
  CustomKeys,   (* The keys with prefix "custom:".                        *)
  Target,       (* Target[g]: the device grant g is for.                  *)
  Assets,       (* Assets[g]: the tags and attributes of g's grant type.  *)
  BaseTags,     (* BaseTags[n]: the tags of n before any grant.           *)
  Threshold,    (* tagManagerContinueAsNewThreshold.                      *)
  MaxAttempts,  (* MaximumAttempts of the activities' retry policy.       *)
  MaxFaults,    (* Bounds the run: failed attempts in all.                *)
  MaxEdits,     (* Bounds the run: administrator's edits in all.          *)
  MaxSyncs      (* Bounds the run: sync signals in all.                   *)

ASSUME SetsAssumption     == /\ NoNode \notin Nodes
                             /\ CustomKeys \subseteq Keys
ASSUME AssetsAssumption   == /\ Target \in [Grants -> Nodes]
                             /\ Assets \in [Grants -> GrantAssets(Tags, Keys, Nodes)]
                             /\ BaseTags \in [Nodes -> SUBSET Tags]
ASSUME LimitsAssumption   == /\ Threshold \in Nat \ {0}
                             /\ MaxAttempts \in Nat \ {0}
                             /\ MaxFaults \in Nat
                             /\ MaxEdits \in Nat
                             /\ MaxSyncs \in Nat

VARIABLES
  phase,        (* phase[g]: how far GrantWorkflow g is with its manager. *)
  tries,        (* tries[g]: failed attempts of its SignalWithStart.      *)
  pc,           (* pc[n]: where the manager of device n is.               *)
  active,       (* active[n]: the domain of its ActiveGrants.             *)
  addCh,        (* addCh[n]: buffered add-grant signals.                  *)
  removeCh,     (* removeCh[n]: buffered remove-grant signals.            *)
  syncCh,       (* syncCh[n]: number of buffered sync signals.            *)
  signalCount,  (* signalCount[n]: signals handled in this run.           *)
  job,          (* job[n]: locals of the handler that is running.         *)
  tags,         (* tags[n]: the device's tags.                            *)
  posture,      (* The cells <<device, key>> that hold an attribute.      *)
  lost,         (* Ghost: signals still buffered when a run ended.        *)
  errored,      (* Ghost: devices on which an activity gave up.           *)
  faults, edits, syncs    (* Budgets used.                                *)

grantVars  == << phase, tries >>
channels   == << addCh, removeCh, syncCh >>
deviceVars == << tags, posture >>
budgets    == << faults, edits, syncs >>
vars == << grantVars, pc, active, channels, signalCount, job, deviceVars,
           lost, errored, budgets >>

-----------------------------------------------------------------------------
Phases == {"new", "adding", "active", "ended", "failed"}

(* "select" is about to look at the channels, "blocked" found them empty,  *)
(* "wokenX" was blocked when an X signal arrived.                          *)
Idle   == {"closed", "select", "blocked", "wokenAdd", "wokenRemove", "wokenSync"}
Calls  == {"getTags", "setTags", "posture", "getPosture", "delStale"}
Cells  == Nodes \X Keys

NewJob(kind, removed, todo) ==
  [ kind |-> kind, removed |-> removed, desired |-> {}, todo |-> todo,
    at |-> {}, attempt |-> 0 ]

NoJob == NewJob("none", {}, {})

Jobs == [ kind    : {"none", "add", "remove", "sync"},
          removed : SUBSET Tags,
          desired : SUBSET Tags,
          todo    : SUBSET Cells,
          at      : SUBSET Cells,
          attempt : 0 .. MaxAttempts - 1 ]

Claimed(n)  == TagsOf(Assets, active[n])
Expected(n) == ClaimedCells(n, Assets, active[n])

Init ==
  /\ phase = [g \in Grants |-> "new"]
  /\ tries = [g \in Grants |-> 0]
  /\ pc = [n \in Nodes |-> "closed"]
  /\ active = [n \in Nodes |-> {}]
  /\ addCh = [n \in Nodes |-> <<>>]
  /\ removeCh = [n \in Nodes |-> <<>>]
  /\ syncCh = [n \in Nodes |-> 0]
  /\ signalCount = [n \in Nodes |-> 0]
  /\ job = [n \in Nodes |-> NoJob]
  /\ tags = BaseTags
  /\ posture = {}
  /\ lost = {}
  /\ errored = {}
  /\ faults = 0 /\ edits = 0 /\ syncs = 0

-----------------------------------------------------------------------------
(* Grants and the reconciler.                                              *)

(* A signal reaches a running manager; the first one to find it blocked    *)
(* decides which case of the selector runs.                                *)
Wake(n, woken) ==
  pc' = [pc EXCEPT ![n] = IF @ = "blocked" THEN woken ELSE @]

(* Mutant: one attempt too many.                                           *)
OneRetryMore(failed) == failed + 1 =< MaxAttempts

(* Another attempt follows one that failed after `failed` others.          *)
RetriesLeft(failed) == failed + 1 < MaxAttempts

(* GrantWorkflow gets to its activation phase.                             *)
StartAdding(g) ==
  /\ phase[g] = "new"
  /\ phase' = [phase EXCEPT ![g] = "adding"]
  /\ UNCHANGED << tries, pc, active, channels, signalCount, job, deviceVars,
                  lost, errored, budgets >>

(* Mutant: the signal alone, which a closed manager never gets.            *)
SignalOnly(g) ==
  LET n == Target[g] IN
  IF pc[n] = "closed"
    THEN UNCHANGED << addCh, pc >>
    ELSE addCh' = [addCh EXCEPT ![n] = Append(@, g)] /\ Wake(n, "wokenAdd")

(* SignalWithStart: a closed manager is started with the signal buffered.  *)
DeliverAdd(g) ==
  LET n == Target[g] IN
  /\ addCh' = [addCh EXCEPT ![n] = Append(@, g)]
  /\ pc' = [pc EXCEPT ![n] = CASE @ = "closed"  -> "select"
                               [] @ = "blocked" -> "wokenAdd"
                               [] OTHER         -> @]

(* One successful attempt of SignalWithStartDeviceTagManager.              *)
SendAdd(g) ==
  /\ phase[g] = "adding"
  /\ DeliverAdd(g)
  /\ phase' = [phase EXCEPT ![g] = "active"]
  /\ tries' = [tries EXCEPT ![g] = 0]
  /\ UNCHANGED << active, removeCh, syncCh, signalCount, job, deviceVars, lost,
                  errored, budgets >>

(* A failed attempt: the signal may have been delivered all the same, and  *)
(* the retry sends it again.  When the retries are used up the grant       *)
(* workflow fails and sends nothing more.                                  *)
SendAddFails(g) ==
  /\ phase[g] = "adding"
  /\ faults < MaxFaults
  /\ DeliverAdd(g) \/ UNCHANGED << addCh, pc >>
  /\ IF RetriesLeft(tries[g])
       THEN /\ tries' = [tries EXCEPT ![g] = @ + 1]
            /\ UNCHANGED phase
       ELSE /\ phase' = [phase EXCEPT ![g] = "failed"]
            /\ tries' = [tries EXCEPT ![g] = 0]
  /\ faults' = faults + 1
  /\ UNCHANGED << active, removeCh, syncCh, signalCount, job, deviceVars, lost,
                  errored, edits, syncs >>

(* The grant expires or is revoked and signals remove-grant; to a closed   *)
(* manager the signal fails, which GrantWorkflow only logs.                *)
SendRemove(g) ==
  LET n == Target[g] IN
  /\ phase[g] = "active"
  /\ phase' = [phase EXCEPT ![g] = "ended"]
  /\ IF pc[n] = "closed"
       THEN UNCHANGED << removeCh, pc >>
       ELSE /\ removeCh' = [removeCh EXCEPT ![n] = Append(@, g)]
            /\ Wake(n, "wokenRemove")
  /\ UNCHANGED << tries, active, addCh, syncCh, signalCount, job, deviceVars,
                  lost, errored, budgets >>

DeliverSync(n) == syncCh' = [syncCh EXCEPT ![n] = @ + 1] /\ Wake(n, "wokenSync")

(* The reconciler asks a running manager to fix drift.                     *)
SendSync(n) ==
  /\ syncs < MaxSyncs
  /\ pc[n] # "closed"
  /\ DeliverSync(n)
  /\ syncs' = syncs + 1
  /\ UNCHANGED << grantVars, active, addCh, removeCh, signalCount, job,
                  deviceVars, lost, errored, faults, edits >>

(* Somebody else adds or deletes a tag, or an attribute, of a device.      *)
AdminEdit(n) ==
  /\ edits < MaxEdits
  /\ \/ \E t \in Tags :
          /\ tags' = [tags EXCEPT ![n] = IF t \in @ THEN @ \ {t} ELSE @ \cup {t}]
          /\ UNCHANGED posture
     \/ \E k \in Keys :
          /\ posture' = IF <<n, k>> \in posture THEN posture \ {<<n, k>>}
                                                ELSE posture \cup {<<n, k>>}
          /\ UNCHANGED tags
  /\ edits' = edits + 1
  /\ UNCHANGED << grantVars, pc, active, channels, signalCount, job, lost,
                  errored, faults, syncs >>

-----------------------------------------------------------------------------
(* The selector.                                                           *)

AddReady(n) ==
  \/ pc[n] = "wokenAdd"
  \/ pc[n] = "select" /\ addCh[n] # <<>>

(* Mutant: remove-grant is looked at before add-grant.                     *)
RemoveReadyFirst(n) ==
  \/ pc[n] = "wokenRemove"
  \/ pc[n] = "select" /\ removeCh[n] # <<>>

RemoveReady(n) ==
  \/ pc[n] = "wokenRemove"
  \/ pc[n] = "select" /\ addCh[n] = <<>> /\ removeCh[n] # <<>>

SyncReady(n) ==
  \/ pc[n] = "wokenSync"
  \/ pc[n] = "select" /\ addCh[n] = <<>> /\ removeCh[n] = <<>> /\ syncCh[n] > 0

(* Nothing buffered: the selector blocks until a signal arrives.           *)
Block(n) ==
  /\ pc[n] = "select"
  /\ addCh[n] = <<>> /\ removeCh[n] = <<>> /\ syncCh[n] = 0
  /\ pc' = [pc EXCEPT ![n] = "blocked"]
  /\ UNCHANGED << grantVars, active, channels, signalCount, job, deviceVars,
                  lost, errored, budgets >>

(* Mutant: the removed grant's tags are not asked about.                   *)
NothingClaimed(claimed, removed) == claimed = {}

(* applyTags returns at once when no tag is claimed and none is removed.   *)
NothingToDo(claimed, removed) == claimed = {} /\ removed = {}

(* Go on to the posture half of a handler with the cells to write.         *)
AfterTags(j) ==
  IF j.todo # {} THEN "posture" ELSE IF j.kind = "sync" THEN "getPosture" ELSE "finish"

(* A handler starts: the ledger becomes `grants`, then applyTags runs; the *)
(* cells its posture half will write follow from that ledger.              *)
Handle(n, kind, grants, removed, todo) ==
  LET j == NewJob(kind, removed, Reachable(todo)) IN
  /\ active' = [active EXCEPT ![n] = grants]
  /\ signalCount' = [signalCount EXCEPT ![n] = @ + 1]
  /\ job' = [job EXCEPT ![n] = j]
  /\ pc' = [pc EXCEPT ![n] =
              IF NothingToDo(TagsOf(Assets, grants), removed)
                THEN AfterTags(j) ELSE "getTags"]
  /\ UNCHANGED << grantVars, deviceVars, lost, errored, budgets >>

SelectAdd(n) ==
  LET g == Head(addCh[n]) IN
  /\ AddReady(n)
  /\ addCh' = [addCh EXCEPT ![n] = Tail(@)]
  /\ Handle(n, "add", active[n] \cup {g}, {}, CellsOf(n, Assets[g]))
  /\ UNCHANGED << removeCh, syncCh >>

(* Removing a grant the ledger does not hold reads the zero GrantAssets.   *)
SelectRemove(n) ==
  LET g    == Head(removeCh[n])
      a    == IF g \in active[n] THEN Assets[g] ELSE ZeroAssets
      rest == active[n] \ {g} IN
  /\ RemoveReady(n)
  /\ removeCh' = [removeCh EXCEPT ![n] = Tail(@)]
  /\ Handle(n, "remove", rest, a.tags,
            orphanedPostureAttributes(n, a, ClaimedCells(n, Assets, rest)))
  /\ UNCHANGED << addCh, syncCh >>

SelectSync(n) ==
  /\ SyncReady(n)
  /\ syncCh' = [syncCh EXCEPT ![n] = @ - 1]
  /\ Handle(n, "sync", active[n], {}, Expected(n))
  /\ UNCHANGED << addCh, removeCh >>

-----------------------------------------------------------------------------
(* The activity calls of the handlers.                                     *)

(* The call returns to the workflow, which goes on at `to` with job `j`.   *)
Return(n, to, j) ==
  /\ pc' = [pc EXCEPT ![n] = to]
  /\ job' = [job EXCEPT ![n] = [j EXCEPT !.attempt = 0, !.at = {}]]

(* An attempt (on the cells `at`) fails: it is retried, or the call        *)
(* returns an error and the workflow goes on at `to` with job `j`.         *)
Fail(n, at, to, j) ==
  /\ faults < MaxFaults
  /\ faults' = faults + 1
  /\ IF RetriesLeft(job[n].attempt)
       THEN /\ job' = [job EXCEPT ![n].attempt = @ + 1, ![n].at = at]
            /\ UNCHANGED << pc, errored >>
       ELSE /\ Return(n, to, j)
            /\ errored' = errored \cup {n}

(* A call that is being retried is still about the same cell.              *)
InTurn(n) == IF job[n].at # {} THEN job[n].at ELSE job[n].todo

NoFailure == UNCHANGED << errored, faults >>

Quiet == UNCHANGED << grantVars, active, channels, signalCount, lost, edits, syncs >>

(* applyTags, first call: read the device's tags and compute what to set.  *)
GetDeviceTags(n) ==
  LET desired == computeDesiredTags(tags[n], Claimed(n), job[n].removed) IN
  /\ pc[n] = "getTags"
  /\ \/ Return(n, "setTags", [job[n] EXCEPT !.desired = desired]) /\ NoFailure
     \/ Fail(n, {}, AfterTags(job[n]), job[n])
  /\ UNCHANGED deviceVars
  /\ Quiet

(* applyTags, second call: replace the device's tags by what was computed. *)
SetDeviceTags(n) ==
  LET Write == tags' = [tags EXCEPT ![n] = job[n].desired] IN
  /\ pc[n] = "setTags"
  /\ \/ Write /\ Return(n, AfterTags(job[n]), job[n]) /\ NoFailure
     \/ (Write \/ UNCHANGED tags) /\ Fail(n, {}, AfterTags(job[n]), job[n])
  /\ UNCHANGED posture
  /\ Quiet

(* applyPostureAttributes and removePostureAttributes: one attribute after *)
(* the other, in an order the configuration (or a Go map) decides; the     *)
(* first error ends the handler.                                           *)
WritePosture(n) ==
  /\ pc[n] = "posture"
  /\ \E c \in InTurn(n) :
       LET Write == posture' = IF job[n].kind = "remove" THEN posture \ {c}
                                                        ELSE posture \cup {c}
           j     == [job[n] EXCEPT !.todo = @ \ {c}] IN
       \/ Write /\ Return(n, AfterTags(j), j) /\ NoFailure
       \/ (Write \/ UNCHANGED posture) /\ Fail(n, {c}, "finish", [j EXCEPT !.todo = {}])
  /\ UNCHANGED tags
  /\ Quiet

(* syncPostureAttributes: read the target device's attributes ...          *)
GetPostureAttributes(n) ==
  LET stale == staleCells(n, posture, CustomKeys, Expected(n))
      j     == [job[n] EXCEPT !.todo = stale] IN
  /\ pc[n] = "getPosture"
  /\ \/ Return(n, IF stale = {} THEN "finish" ELSE "delStale", j) /\ NoFailure
     \/ Fail(n, {}, "finish", job[n])
  /\ UNCHANGED deviceVars
  /\ Quiet

(* ... and delete the stale ones; an error is logged and the loop goes on. *)
DeleteStale(n) ==
  /\ pc[n] = "delStale"
  /\ \E c \in InTurn(n) :
       LET Write == posture' = posture \ {c}
           j     == [job[n] EXCEPT !.todo = @ \ {c}]
           to    == IF j.todo = {} THEN "finish" ELSE "delStale" IN
       \/ Write /\ Return(n, to, j) /\ NoFailure
       \/ (Write \/ UNCHANGED posture) /\ Fail(n, {c}, to, j)
  /\ UNCHANGED tags
  /\ Quiet

-----------------------------------------------------------------------------
(* The end of an iteration.                                                *)

(* The run is over: what is still buffered is never read.                  *)
DropSignals(n) ==
  /\ addCh' = [addCh EXCEPT ![n] = <<>>]
  /\ removeCh' = [removeCh EXCEPT ![n] = <<>>]
  /\ syncCh' = [syncCh EXCEPT ![n] = 0]
  /\ lost' = lost \cup ({"add"} \X ToSet(addCh[n])) \cup ({"remove"} \X ToSet(removeCh[n]))
  /\ signalCount' = [signalCount EXCEPT ![n] = 0]

(* pc becomes `to` and the handler's locals are gone.                      *)
EndHandler(n, to) ==
  /\ pc[n] = "finish"
  /\ pc' = [pc EXCEPT ![n] = to]
  /\ job' = [job EXCEPT ![n] = NoJob]
  /\ UNCHANGED << grantVars, active, deviceVars, errored, budgets >>

Complete(n) ==
  /\ active[n] = {}
  /\ EndHandler(n, "closed")
  /\ DropSignals(n)

(* The new run takes the ledger over, not the signals.                     *)
ContinueAsNew(n) ==
  /\ active[n] # {}
  /\ signalCount[n] >= Threshold
  /\ EndHandler(n, "select")
  /\ DropSignals(n)

Loop(n) ==
  /\ active[n] # {}
  /\ signalCount[n] < Threshold
  /\ EndHandler(n, "select")
  /\ UNCHANGED << channels, signalCount, lost >>

-----------------------------------------------------------------------------
Manager(n) ==
  \/ Block(n)
  \/ SelectAdd(n)
  \/ SelectRemove(n)
  \/ SelectSync(n)
  \/ GetDeviceTags(n)
  \/ SetDeviceTags(n)
  \/ WritePosture(n)
  \/ GetPostureAttributes(n)
  \/ DeleteStale(n)
  \/ Complete(n)
  \/ ContinueAsNew(n)
  \/ Loop(n)

Environment ==
  \/ \E g \in Grants : StartAdding(g) \/ SendAdd(g) \/ SendAddFails(g) \/ SendRemove(g)
  \/ \E n \in Nodes : SendSync(n) \/ AdminEdit(n)

Next == Environment \/ \E n \in Nodes : Manager(n)

(* Temporal dispatches every pending workflow task and activity task; when *)
(* grants start or end, and when somebody edits a device, is up to people. *)
Fairness == \A n \in Nodes : WF_vars(Manager(n))

Spec == Init /\ [][Next]_vars /\ Fairness

-----------------------------------------------------------------------------
(* Properties.                                                             *)

(* Types of the variables; retries stay under the policy's limit, and a    *)
(* selector woken by a signal finds that signal buffered.                  *)
TypeOK ==
  /\ phase \in [Grants -> Phases]
  /\ tries \in [Grants -> 0 .. MaxAttempts - 1]
  /\ pc \in [Nodes -> Idle \cup Calls \cup {"finish"}]
  /\ active \in [Nodes -> SUBSET Grants]
  /\ addCh \in [Nodes -> Seq(Grants)]
  /\ removeCh \in [Nodes -> Seq(Grants)]
  /\ syncCh \in [Nodes -> Nat]
  /\ signalCount \in [Nodes -> Nat]
  /\ job \in [Nodes -> Jobs]
  /\ tags \in [Nodes -> SUBSET Tags]
  /\ posture \in SUBSET Cells
  /\ lost \in SUBSET ({"add", "remove"} \X Grants)
  /\ errored \in SUBSET Nodes
  /\ faults \in 0 .. MaxFaults
  /\ edits \in 0 .. MaxEdits
  /\ syncs \in 0 .. MaxSyncs
  /\ \A n \in Nodes :
       /\ pc[n] = "wokenAdd" => addCh[n] # <<>>
       /\ pc[n] = "wokenRemove" => removeCh[n] # <<>>
       /\ pc[n] = "wokenSync" => syncCh[n] > 0

(* A write on its way out agrees with the ledger: the tags about to be set *)
(* hold every claimed tag and none the removed grant leaves behind, and no *)
(* cell about to be deleted is claimed by a grant in the ledger.           *)
PendingWrite(n) ==
  /\ pc[n] = "setTags" =>
       /\ Claimed(n) \subseteq job[n].desired
       /\ job[n].desired \cap (job[n].removed \ Claimed(n)) = {}
  /\ (pc[n] \in Calls /\ job[n].kind = "remove") \/ pc[n] = "delStale" =>
       (job[n].todo \cup job[n].at) \cap Expected(n) = {}

PendingWrites == \A n \in Nodes : PendingWrite(n)

(* Tags of n that a grant names and that n also had before any grant.      *)
Ambiguous(n) ==
  BaseTags[n] \cap TagsOf(Assets, {g \in Grants : Target[g] = n})

(* Between handlers a device carries exactly its own tags and those of the *)
(* grants in the ledger, whatever attempts were repeated, as long as no    *)
(* call gave up and nobody edited the device.                              *)
LedgerExact ==
  \A n \in Nodes :
    pc[n] \in Idle /\ n \notin errored /\ edits = 0 =>
      tags[n] \ Ambiguous(n) = (BaseTags[n] \cup Claimed(n)) \ Ambiguous(n)

(* The manager of n takes a step (or is woken).                            *)
Moves(n) == << pc[n], job[n] >>' # << pc[n], job[n] >>

(* No step of a manager takes away a tag, or a posture attribute, that a   *)
(* grant in its own ledger still claims: sharing between grants is safe.   *)
ClaimedNeverStripped ==
  [][ \A n \in Nodes :
        Moves(n) =>
          /\ (tags[n] \ tags'[n]) \cap Claimed(n) = {}
          /\ (posture \ posture') \cap Expected(n) = {} ]_vars

(* An add-grant signal is never mislaid while its grant is active: it is   *)
(* in the ledger, still buffered, or was dropped when a run ended.         *)
Custody ==
  \A g \in Grants :
    phase[g] = "active" =>
      \/ g \in active[Target[g]] \cup ToSet(addCh[Target[g]])
      \/ <<"add", g>> \in lost

(* A grant that is over comes back for no reordering and no repeated       *)
(* add-grant: if it is still known, its remove-grant is still to be read   *)
(* or was dropped when a run ended.                                        *)
NoLeak ==
  \A g \in Grants :
    phase[g] = "ended" /\ g \in active[Target[g]] \cup ToSet(addCh[Target[g]]) =>
      \/ g \in ToSet(removeCh[Target[g]])
      \/ <<"remove", g>> \in lost

(* What may keep a grant from being carried out or reversed.               *)
Excused(kind, g) ==
  <<kind, g>> \in lost \/ Target[g] \in errored \/ edits > 0

(* Once a grant is active its tags get onto the device, even if it ends    *)
(* before its manager has come round to them.                              *)
Granted ==
  \A g \in Grants :
    phase[g] = "active" ~>
      \/ Excused("add", g)
      \/ Assets[g].tags \subseteq tags[Target[g]]

(* Once a grant is over, its tags leave the device, except those that are  *)
(* the device's own or claimed by another grant.                           *)
Reverted ==
  \A g \in Grants :
    phase[g] = "ended" ~>
      \/ Excused("remove", g)
      \/ LET n == Target[g] IN
           Assets[g].tags \cap tags[n] \subseteq
             BaseTags[n] \cup TagsOf(Assets, active[n] \ {g})

-----------------------------------------------------------------------------
(* What the repository says of this component and the code does not do.    *)

(* activities.go and README.md: starting with the signal, and serialising  *)
(* per device, leave no race in which a grant is not known to its manager. *)
ActiveIsKnown ==
  \A g \in Grants :
    phase[g] = "active" => g \in active[Target[g]] \cup ToSet(addCh[Target[g]])

(* README.md: a grant is automatically reversed on expiry.                 *)
ExpiryReverses ==
  \A g \in Grants : phase[g] = "ended" ~> g \notin active[Target[g]]

(* tagmanager.go: what is deleted is "not claimed by any remaining active  *)
(* grant on the same device", whichever manager holds that grant.          *)
ClaimedAnywhereKept ==
  [][ edits' = edits =>
        (posture \ posture') \cap UNION { Expected(n) : n \in Nodes } = {} ]_vars
=============================================================================
