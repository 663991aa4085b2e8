# TailGrant in TLA+

TailGrant gives out just-in-time access on a tailnet: somebody asks for a grant
of a configured type, risky types wait for an approver, the grant then puts tags
and posture attributes on a device (or raises a user's role, or restores a
suspended user) and is reversed when its time is up. Everything that lasts lives
in Temporal workflows. This directory models the workflows and the processes
around them, model-checks them with TLC, and proves with TLAPS, for every value of
the constants, all invariants and action properties that the passing runs check.

Contents: [inventory](#inventory), [what Temporal is assumed to do](#what-temporal-is-assumed-to-do),
[modules](#modules), [runs](#runs), [bounds](#bounds), [fairness](#fairness),
[proofs](#proofs), [disagreements found](#disagreements-found),
[not modelled](#not-modelled), [plan](#plan).

## Inventory

| Component | State | Operations | Talks to |
|---|---|---|---|
| Server: HTTP handlers (`internal/server/handlers.go`) | none | create, approve, deny, revoke, extend; get, list, devices, users, whoami, grant types | starts `GrantWorkflow`, queries it, signals it and its approval child |
| Server: WhoIs middleware, router | none | attach an identity or refuse | handlers |
| `GrantWorkflow` (`internal/grant/workflow.go`) | `GrantState` (status, approver, original role, expiry), timer, signal channels | approval gate, activation, expiry, revoke, extend, deactivation | child `ApprovalWorkflow`, activities, the device's tag manager |
| `ApprovalWorkflow` (`approval.go`) | decision, 24 h timer, signal channels | approve, deny, time out | result to its parent |
| `DeviceTagManagerWorkflow` (`tagmanager.go`), one per device | `ActiveGrants` (the ledger), signal count, signal channels | add-grant, remove-grant, sync, complete, continue as new | activities on its device and on requesters' devices |
| `ReconciliationWorkflow` (`reconcile.go`), singleton | none across rounds | every 5 min: list devices, clean up devices without a manager, ask managers with drift to sync | activities, `active-grants` query, `sync` signal |
| Activities (`activities.go`), user calls (`internal/tsapi/users.go`) | none | one Tailscale or Temporal call each | Tailscale API, Temporal |
| Grant type store (`policy.go`) | the configured grant types | load and validate, get, list | handlers, worker |
| Server process (`cmd/tailgrant-server/main.go`) with its VIP service (`internal/tsapi/vip_services.go`) | the configuration as read at the start; the service on the tailnet | load and validate, join the tailnet, get and put the service, serve, exit | configuration file, Tailscale API |
| Worker process (`cmd/tailgrant-worker/main.go`) | the configuration as read at its start | load, join the tailnet, validate, collect the grant tags and keys, start the reconciliation, run, exit | configuration file, Temporal |
| Configuration (`internal/config`) | the file | read, defaults, credentials from the environment | both processes |
| UI, build and deployment | - | - | handlers |

What is hard, and what makes each component correct:

* **Tag manager.** It reads a device's tags, computes, and writes them back in
  separate activities, while signals pile up, activities are repeated after
  having taken effect, several grants share tags and attributes, several managers
  share a requester's device, and the run may end with signals unread. Correct
  means: a removal takes nothing another grant of the manager claims; between
  handlers the device carries exactly its own tags and the claimed ones; a grant
  that is active is known; one that is over does not come back.
* **Grant workflow.** Expiry timer, revocation and extension race; signals may be
  buffered long before anybody waits for them; activation and deactivation may
  take effect and still fail. Correct means: no effect without the approval the
  type asks for; never active for longer than allowed; final once over; effects
  follow the status; it ends.
* **Approval workflow.** Approvals that do not count, denials and the timeout
  compete. Correct means: decided by somebody entitled to, or not at all, and
  always decided in the end.
* **Reconciliation.** Works on a snapshot taken many activities earlier, and
  races managers that start meanwhile. Correct means: never takes away what an
  active grant claims; drift disappears.
* **Grants and managers together.** Each of the two is written as if the other
  behaved; both retry, and the signals between them may be repeated or dropped.
  Correct means: no access without approval, from the request to the tags on the
  device; access comes and goes; a manager holds on to nothing without a reason.
* **Grant type store.** What it accepts must satisfy what the workflows assume.
* **Processes and VIP service.** Server and worker read the configuration each at
  a time of its own, exit on any error and are started again (one replica,
  `Recreate`); Get and PUT of the service are separate calls with an exit possible
  between them; the reconciliation outlives the worker that started it. Correct
  means: the service keeps its address and follows its configuration; grants are
  started sound; the reconciler knows what grants may set; both come up in the end.

The hazards behind these sentences, with their lines, are listed in
`PROJECT.json`.

## What Temporal is assumed to do

The workflows rest on the same reading of how the Go SDK and the service
execute this code.

* *Workflow code is atomic between blocking points* (an activity's `Get`, a
  child's `Get`, `Selector.Select`). `pc` names the blocking call. Signals arrive
  at any moment and are appended to their channel; code sees them at the next
  `Select`.
* *Selectors.* `Select` runs the first ready case in the order the cases were
  added. The manager adds add-grant, remove-grant, sync; the approval adds
  approve, deny, timer; the grant adds timer, revoke, extend. If no case is ready
  it blocks, and the first event to arrive decides the case: states `wokenX`.
  `GrantWorkflow` makes a new timer in each round, which cannot have fired when
  `Select` looks, so only a blocked grant can be woken by its timer.
* *Unread signals are lost* when a run completes or continues as new: nothing in
  the code drains the channels. A signal sent to a closed workflow is an error for
  the sender.
* *Activities are at least once.* An attempt either takes effect and returns,
  or fails, and a failed attempt may have taken effect. After
  `MaximumAttempts` (5 in the code) the call returns an error. `SignalWithStart`
  is such an activity, so add-grant may be delivered several times;
  `SignalExternalWorkflow` is not, the service delivers it once or reports that
  the workflow is gone.
* *Timers* are countdowns in ticks. A due timer fires at some later time, not at
  once. `workflow.Now` stands still within a workflow task, so `Tick` is not
  enabled while some workflow is between events (`"select"`).
* *Crashes of workers* appear as failed attempts and as delays; replay itself is
  Temporal's business and not modelled.

## Modules

* **`TagOps`** - the pure helpers of `tagmanager.go` on sets: `computeDesiredTags`,
  `resolvePostureTarget`, `orphanedPostureAttributes`, the cells a grant claims,
  the stale cells of a sync. A *cell* `<<device, key>>` is a place on the tailnet
  that can hold an attribute; values are left out.
* **`TagManager`** - all tag managers, the grants as far as their manager sees
  them (`phase`), the reconciler's signal, and an administrator. The code's
  variables keep their names (`active` is the domain of `ActiveGrants`, whose
  values are `Assets[g]`; `addCh`, `removeCh`, `syncCh`, `signalCount`).
  A handler is `SelectAdd`, `SelectRemove` or `SelectSync` (receive, change the
  ledger, decide whether `applyTags` has work), followed by one action per
  activity it calls: `GetDeviceTags`, `SetDeviceTags`, `WritePosture` (once per
  attribute; apply and remove differ in `job.kind`), `GetPostureAttributes`,
  `DeleteStale`; then `Complete`, `ContinueAsNew` or `Loop`. `job[n]` holds the
  handler's locals. `lost` and `errored` are history variables for the properties.
  Three simplifications: an attribute's cell stands for set or not set; a sync
  writes each expected cell once, though two grants that share one write it
  twice (the same write); signals reach a manager only from the workflows that
  send them in the code.
* **`GrantLifecycle`** - the abstract specification of a grant: requested,
  approved by somebody entitled to if risky, active for at most `MaxDuration`
  ticks from the activation or the latest extension, and then over for good.
  It knows no workflows, signals, children or retries.
* **`GrantWorkflow`** - `GrantWorkflow` with its approval child, the five
  mutating handlers and the user activities, for several grants. `HandleApproveGrant`
  is two actions, `CheckApprove` and `SendApprove`, because the handler queries
  and then signals. The device's tag manager appears as `told`, the grants it
  was asked to carry out; what it then does is `TagManager`'s subject.
  `KeepsPromise` is `GrantLifecycle!Spec` under the mapping `Stage`. The approval
  child has no error of its own; that its parent handles one (`workflow.go:39`)
  matters when an operator of Temporal terminates the child (`TerminateApproval`,
  counted among the signals of people), upon which the grant fails at the gate
  with its status still pending.
* **`Reconciliation`** - the reconciler at work among the managers of
  `TagManager`, whose next-state relation it takes over as it is. A round is
  `ListDevices` (the snapshot), then for each device, in any order, `NextDevice`,
  `FindPosture`, `CheckWorkflowExists` and either `CheckAgain`, `RemoveStaleTags`,
  `RemoveStalePosture` (once per key) or `QueryActiveGrants`, `SignalSync`: one
  action per activity, each of which may fail, be retried, or give up and be
  passed over as in the code. `rpc` names the call, `snapshot`, `found` and `dev`
  are the locals `devices`, `stalePostureKeys` and `device`. The sleep is the time
  for which `ListDevices` is not taken. An answer to the query is compared with the snapshot in
  the same step, as the code after the activity does.
* **`TailGrant`** - `GrantWorkflow` and `TagManager` composed, for tag grants. Each
  takes the place of what the other one has for its surroundings: the attempts of
  `SignalWithStartDeviceTagManager` deliver into the manager's channel (`AddGrant`),
  `SignalExternalWorkflow` does if the manager runs (`RemoveGrant`), and the
  `phase` of a grant, with which `TagManager` works when alone, is computed from
  its workflow (`Phase`; one that fails at the gate, before any signal, stays new
  to it). The variables are those of both; `faults` is shared, and
  `mpc` is the managers' `pc`. `ManagersAsSpecified` says that `TagManager`'s
  specification, safety part, is implemented, so what its runs and theorems show
  rests on no assumption about grants that the real ones break.
* **`GrantTypes`** - the store of `policy.go`: which entries are accepted
  (`Accepted`), what they become (`NewYAMLGrantTypeStore`), how a type travels to a
  workflow (`Transported`), and what the worker collects. Texts are reduced to what
  the code asks of them: a tag is well formed or not, a key has its prefix or not,
  and `Spelling` says what trimming and lower case make of a risk level
  (`Normalised`).
* **`Deployment`** - server and worker from start to exit, over and over, with an
  administrator who edits the configuration and deletes services. `spc` and `wpc`
  say how far `main` has come, `scfg` and `wcfg` what it has read, `seen` is the
  local `existing` of `ensureVIPService`, `recon` the input of the reconciliation
  that runs. A failed call and a stopped process are the same step, `ServerExits`
  or `WorkerExits`; a call that took effect before its answer was lost is the call
  followed by the exit. `HandleCreateGrant` is here with the middleware before it
  (`Identities`) and all its checks (`Permissible`). A request comes over a direct
  connection from a device, or through the VIP service, with or without a
  `Tailscale-User-Login` header. `WhoIs` has an answer for the former only, and may
  fail there, too; then the header's user counts, on no device, as in
  `middleware.go:25-31`.
* **`MCTagManager`, `MCGrantWorkflow`, `MCReconciliation`, `MCTailGrant`,
  `MCDeployment`** - the constants of the runs; `MCDeployment` also assumes, and so
  has TLC evaluate, that entries with other mistakes are refused and that levels
  are parsed as `TestParseRiskLevel` of `policy_test.go` has them.
* **`TagManagerProofs`** and, on top of it, **`TagManagerLedgerProofs`**;
  **`GrantWorkflowProofs`**, **`ReconciliationProofs`**, **`DeploymentProofs`**,
  **`TailGrantProofs`** - the theorems about each module, see [proofs](#proofs).

An operator introduced by a comment "Mutant:" is a variation of the definition
after it with a plausible mistake; no specification uses it.

## Runs

All configurations switch the deadlock check off: managers close, grants end, and
the run's budgets are used up, after which nothing need happen.

| Run | What it shows |
|---|---|
| `TagManagerShared` | One device, two grants sharing tag `tb` and attribute `k1`, continue-as-new at 3 signals, two failed attempts, one sync. `PendingWrites`: what is about to be written or deleted agrees with the ledger even after other signals have arrived and attempts were repeated. `LedgerExact`: between handlers the device has exactly its own tags and the claimed ones. `Custody`, `NoLeak`: no signal is mislaid or undone by reordering and duplicates, except when a run ends with signals unread. `ClaimedNeverStripped`: no step takes away what the ledger claims. `Granted`, `Reverted`: grants get onto the device and off it. |
| `TagManagerEdits` | Two devices; the grant on the first marks the second, whose own grant uses the same key; an administrator edits tags and attributes. `PendingWrites` and `ClaimedNeverStripped`, which are about what a manager writes and deletes, still hold, sync included. |
| `GrantRole` | One risky role grant, every interleaving of two approvers and an outsider, denial, timeout, termination of the approval, revocation, extension beyond the maximum and two failed attempts. It implements `GrantLifecycle`; nothing is done to the user without approval (`EffectNeedsApproval`); the role is in place while active and undone after (`EffectFollowsStatus`); it ends (`EventuallyOver`). |
| `GrantPair` | A low-risk tag grant beside a risky restore: the same, for the other action types and for two grants at once. |
| `Reconcile` | One device, two grants, signals lost at a continue-as-new and two failures, final for a manager and retried by the clean-up. `LeftoversGo`: once the manager is gone for good, so are the grant tags and attributes it left behind, although the clean-up may fail too. `PartialDriftRepaired`: a claimed tag that a manager failed to set comes back, provided that the device has some grant tag left to notice it by. `OtherTagsKept`: writing from an old snapshot, repeatedly, never takes away a tag that the device had at first and that is neither a configured grant tag nor one that a grant of the run sets. |
| `TailGrant` | Two grants that share a tag, one risky, from request to device, with retries of every call. `AccessNeedsApproval`: the device has its own tags and those of permitted grants, nothing else, at any moment. `HeldForAReason`: what a manager knows, or will hear, of a grant that is over is being removed, or was lost as in `TagManagerLostRemove`, or is a grant whose workflow failed although its add-grant was delivered; there is no other way. `AccessComes`, `AccessEnds`: an active grant's tags get onto the device and off it, with the excuses of `Granted` and `Reverted`. `ManagersAsSpecified`: see the module. |
| `Deployment` | Five configurations (one that is refused, one without a service, one with the service renamed, another port, other types), two edits or deletions, two exits at any point, one failed start of the reconciliation. `AddressStays`: the service's address survives exits between Get and PUT. `ServedAsConfigured`: while serving, the service has the configured port. `GrantsSound`: whatever is started satisfies what the workflows assume, and a device recorded for the requester is the requester's own and untagged; requests come from an untagged and a tagged device and through the service, with somebody's name in the header or none, and WhoIs may fail. `ReconcilerKnows`: unless the configuration was edited, the reconciliation has the tags and keys of every grant. `UpInTheEnd`: once the configuration is left alone and acceptable, both processes come up, whatever went wrong before. |
| the five others | Each checks one sentence of the repository that the code does not keep, see below. |

`Granted`, `Reverted` and `LedgerExact` name their exceptions: a dropped signal
(`lost`), a call that gave up (`errored`), an administrator's edit, and for
`LedgerExact` a tag that the device had before *and* that a grant names: the code
keeps no record of such tags and strips them with the grant. `EffectFollowsStatus`
speaks of grants that are the only one of their kind for their user, and says of
failed ones that they leave nothing or their own effect, with the role to go back
to on record; `GrantRolesOverlap` shows that overlapping grants do not obey, and
two restores of one user behave alike: the first to end suspends the user.
`PartialDriftRepaired` excepts devices that have lost every grant tag, which the
reconciler passes over.

## Bounds

* `MaxFaults`, `MaxEdits`, `MaxSyncs`, `MaxSignals` bound how often something
  happens in a run, in all. Each kind of event can hit any call at any time, and
  two faults suffice for a call that gives up, for two calls that fail once, and
  for a grant whose add-grant is delivered three times (once per failed attempt
  is enough to have duplicates).
* `MaxAttempts` is 2 instead of 5: one retry has the duplicate effect, the second
  failure has the error path; further attempts repeat the first.
* `Threshold` is 3 (or 2) instead of 1000, so that continue-as-new happens with
  signals buffered; 10 where it must not happen.
* Two grants: sharing, overlap and "the last one leaves" need two; nothing in the
  manager treats a third differently, and the theorems hold for any number.
* `MaxQueued` (1) bounds the sync signals the reconciler has waiting at a device: a
  manager treats a second one like the first. `CleanupAttempts` is 2 in
  `Reconcile` (a retry, and giving up), instead of 3. Rounds are not bounded:
  they go round in a finite graph. `Reconcile` has `MaxAttempts` 1, so that one of its
  two faults makes a manager's call give up, and `MaxSyncs` 0: syncs come from the reconciler.
* Durations are at most 2 ticks, extensions go one beyond the maximum, the
  approval timeout is 1 or 2: before, at and after expiry all occur.
* `TailGrant` has one signal from people, one tick and an approval timeout of 1 for
  each grant, no syncs and no edits: the two grants, both with retries and races,
  are what its properties are about.
* `Deployment`: two edits and two exits suffice for server and worker to run
  different configurations and for an exit at each point with a changed
  configuration afterwards; three addresses, so that a service that loses its
  address gets another one. One grant: grants do not meet here.
* Three signals from people per run: enough for a buffered extension and
  revocation around an approval.

## Fairness

* `TagManager`: weak fairness of each manager, because Temporal dispatches every
  workflow task and activity of a running workflow. None for grants, syncs
  or edits: they start and stop when people like. Failures are bounded by
  `MaxFaults`, as the code's retries are by `MaximumAttempts`.
* `Reconciliation`: the same, and weak fairness of the reconciler, which continues
  as new after every round and has no other end.
* `GrantWorkflow`: weak fairness of each grant's workflow (with its child
  and timers) and of time. None for people: nobody needs to approve, and
  `EventuallyOver` holds because of the approval timeout.

* `TailGrant`: less than its parts: as long as a grant, a manager or time can go
  on, something does. Two grants and one manager can keep each other waiting only
  finitely often, so this is enough, and TLC checks it faster.
* `Deployment`: weak fairness of server and worker: a process runs on and is
  started again by its deployment. None for people; exits and failed starts are
  bounded (`MaxExits`, `MaxFailedStarts`), as a network that never works lets
  nothing come up.

## Proofs

Every theorem holds for any number of devices, grants, people, tags, keys,
services and configurations, any sharing between grants and any limits.

### Assumptions

Each module names what it assumes of its constants, and TLC evaluates it for the
runs' constants.

* `TagManager`: a grant has a device and assets (`AssetsAssumption`), retry limit
  and threshold are positive, `NoNode` (the empty device) is no device.
* `GrantWorkflow`: requesters and approvers are people, an action is one of the
  three the code knows, maximum and approval timeout are positive. That the store
  accepts no other type is `GrantsSound`, which is proved.
* `Reconciliation`: the configured grant tags and keys are tags and keys, and the
  keys are finitely many. Not assumed: that they are those of the grants at work,
  because a configuration may have been edited since.
* `Deployment`: ports and durations are numbers, a direct connection comes from a
  device (for which WhoIs may fail all the same) and an untagged device has a user,
  budgets are numbers; headers may be anything, and so may a configuration
  otherwise, refused ones included. `SpellingAssumption` of `GrantTypes`: the three
  words for the levels are trimmed and in lower case. `InputsAssumption` says that
  the marker `NoRecon` is not something a worker could collect.
* `TailGrant`: what its two parts assume (`GrantsAssumption`, `LimitsAssumption`,
  `DevicesAssumption`), and that its grants are tag grants (`TagGrantsOnly`).

### What is proved

| Module | Theorem | States |
|---|---|---|
| `TagManagerProofs` | `TypeCorrect` | `[]TypeOK` |
| | `PendingWritesAgree` | `[]PendingWrites` |
| | `SharingIsSafe` | `ClaimedNeverStripped` |
| `TagManagerLedgerProofs` | `SignalsInOrder` | `[]Signals` |
| | `ActiveInCustody`, `EndedStaysEnded` | `[]Custody`, `[]NoLeak` |
| | `DeviceFollowsLedger` | `[]LedgerExact` |
| `GrantWorkflowProofs` | `TypeCorrect` | `[](TypeOK /\ Buffered)` |
| | `StoriesHold` | `[]Stories` |
| | `ApprovalBeforeEffect` | `[]EffectNeedsApproval` |
| | `EffectsFollow` | `[]EffectFollowsStatus` |
| | `Implements` | `KeepsPromise`, the refinement of `GrantLifecycle` |
| `ReconciliationProofs` | `ReconTypeCorrect` | `[](TypeOK /\ ReconTypeOK)` |
| | `OwnTagsStay` | `[]OtherTagsKept` |
| | `ReconNothingMislaid`, `ReconSharingIsSafe` | `Custody`, `NoLeak` and `ClaimedNeverStripped` with the reconciler at work |
| `DeploymentProofs` | `TypeCorrect` | `[]DeploymentTypeOK` |
| | `ServiceAsConfigured`, `AddressKept` | `[]ServedAsConfigured`, `AddressStays` |
| | `SoundGrants` | `[]GrantsSound` |
| | `ReconcilerInformed` | `[]ReconcilerKnows` |
| `TailGrantProofs` | `ManagersImplemented` | `ManagersAsSpecified`, the refinement of `TagManager` |
| | `NoAccessWithoutApproval` | `[]AccessNeedsApproval` |
| | `NothingHeldForever` | `[]HeldForAReason` |
| | `LedgerExactWithGrants`, `NothingMislaidWithGrants`, `SharingIsSafeWithGrants` | `TagManager`'s properties with real grants |
| | `GrantsKeepPromise` | `GrantWorkflow`'s `KeepsPromise` with real managers |

### Along which arguments

*Tag manager.* `TypeOK` is inductive as it stands; it has the retry limit and that
a selector woken by a signal finds one buffered, so that `Head` is applied to a
nonempty channel. For `PendingWrites` the hard part is that a write is decided at
one step and carried out, perhaps repeatedly, at later ones. The invariant
therefore speaks of every call of a removal from its first on, and of the cell
being retried (`at`) as well as of those to come (`todo`). It is inductive
relative to `TypeOK` because the ledger changes only outside the calls. What a
manager strips is what is pending, and that is unclaimed: `ClaimedNeverStripped`.

`Custody` and `NoLeak` need to know what channels may hold. `Signals` says that
signals are routed to their grant's device, that a remove-grant comes only from a
grant that is over, that a closed manager has no ledger, and, the part
everything turns on, that a manager woken by a remove-grant has no add-grant of
that grant behind it: it was blocked, so its channels had been read, and a grant
has sent its last add-grant before it ends. Without the last, removing first and
adding afterwards would bring a grant back for good. Each step is then one of a
few (`WorksOn`, `ReadsAdd`, `ReadsRemove`, `EndsRun`, `SendsNothing`, ...), for
which the two properties (`Kept`) are short.

`LedgerExact` speaks of the states between handlers. `Exact` extends it to every
place of one: at `getTags` the tags that would be computed, at `setTags` those
computed, elsewhere those on the device are the device's own and the claimed ones,
but for tags that were there before and that a grant names (`Alike`).

*Grant workflow.* `Stories` ties the place of a workflow to the rest of its state:
the status (`Course`), the calls of its action type (`Branch`), who has approved
(`Approval`), and that the timer never runs out before `ExpiresAt` (`Clock`).
Neither `EffectNeedsApproval` nor the refinement is inductive without it: an
approver is recorded in the child, handed over by its result, and used several
calls later. `Effects` says for a grant alone of its kind what its user or manager
looks like at every place, in the middle of a retried call too, where the effect
may or may not be there; `EffectFollowsStatus` is its value at the places that
last. For the refinement, every action makes the grant it is about take one turn of
`GrantLifecycle` or none, all others staying at their stage (`Lives`); a tick
of all clocks is a `Tick` of the abstract ones.

*Reconciliation.* It takes over `TagManager`'s next-state relation, and the lemmas
about it. Its own actions change what a manager depends on only by `sync` signals
and by tags and attributes of devices, so `Custody`, `NoLeak` and
`ClaimedNeverStripped` carry over. `ReconTypeOK` needs `WorthAsking`: devices asked
about have something to clean, so that the clean-up is never started empty.
`OtherTagsKept` needs that the own tags are not only on the device but also in each
list of tags that somebody holds and may write: a manager's `desired` and the
reconciler's `snapshot`.

*Deployment.* `ServedAsConfigured` follows from `PutIsCurrent`, and `AddressStays`
from `SeenIsCurrent`: between Get and PUT the service is what Get returned or has
been deleted, so that PUT sends the address it has or makes a new service.
`GrantsSound` rests on lemmas about `GrantTypes`: an accepted entry makes a
sound type, JSON keeps it sound, and the handler's checks bound the
duration; and on `IdentitySound`: whoever passes the middleware was either named
together with his device by WhoIs or, without a device, by the header. `ReconcilerKnows` needs `OneConfig`: as long as nobody edits,
what the processes have read, what grants were made of and what the reconciliation
was given all come from one configuration.

*Grants and managers.* The proofs of the parts are used, not repeated:
`GP` and `MP` are instances of their proof modules, the latter with `phase`
replaced by `Phase`, and their lemmas apply once the parts' assumptions are
shown. `Fit` collects the parts' invariants; with it each step of the whole is a step
or a stutter of the managers (`ManagersImplemented`) and of the grants. That a step
of a grant is one that `TagManager` allows its environment needs `Stories`: a
grant that signals add-grant has not yet ended, one that signals remove-grant has
been active. It also needs `Early`: no call of a grant at the gate has given up, so
that one that fails there is told from one that fails on its add-grant. `AccessNeedsApproval` is proved with `Access`: not only the tags on the
device, but those about to be written and every grant in ledger and channel are of
permitted grants, and a permission is never taken back. `HeldForAReason` joins
`NoLeak` with `Trace`: a manager knows of no grant that has not been
signalled, and of a failed one only if an attempt was delivered.

### Only model-checked

* Liveness (`Granted`, `Reverted`, `EventuallyOver`, `LeftoversGo`,
  `PartialDriftRepaired`, `UpInTheEnd`, `AccessComes`, `AccessEnds`): the
  prover has no ENABLED, so nothing follows from fairness there.
* The five runs that end in a violation: they show one behaviour each.
* `MCDeployment`'s assumption that entries with certain mistakes are refused.

## Disagreements found

| Run | What the repository says | What the code does |
|---|---|---|
| `TagManagerLostAdd` | serialising per device prevents races (README), signal-with-start avoids the race with the workflow's start (`activities.go`) | `tagmanager.go:107` completes with add-grant signals unread |
| `TagManagerLostRemove` | grants are reversed on expiry (README) | `tagmanager.go:112` continues as new with remove-grant signals unread |
| `TagManagerCross` | only attributes no grant on the same device claims are deleted (`tagmanager.go:185`) | claims of other managers on a requester's device are not looked at |
| `GrantRolesOverlap` | roles revert on expiry (README) | overlapping grants restore the elevated role |
| `ReconcileRace` | grant tags are removed from devices that have no active manager (`reconcile.go:22`) | the write at `reconcile.go:111` comes from a snapshot and hits a manager that has started since |

Follow from the models without a run of their own: the device of a requester has
no manager, so its attribute, which a grant on another device claims, is deleted
as stale (`reconcile.go:119`, which `reconcile.go:14` half admits as a limitation);
a sync strips no tag, so a stale one stays, and is found as drift in every round,
while the manager runs (`tagmanager.go:96`); a grant whose workflow failed on an
add-grant that was delivered stays with its manager for ever (`workflow.go:66`);
an edit between a manager's
read and its write of the tags is overwritten (`tagmanager.go:142`); a role that
was raised by an attempt reported as failed is not reverted when the attempts are
used up, because the workflow then returns before its deactivation
(`workflow.go:82`); a device that has lost all its grant tags is not repaired
(`reconcile.go:142`); a reconciliation that runs keeps the tags of the
configuration it was started with, although the worker logs that it started one
with the new tags (`main.go:164` of the worker); a service that is renamed stays
on the tailnet under its old name; a misspelt risk level is low and needs no
approval (`types.go:36`). Seen while reading: `README.md:47` says that the server
"Never touches the Tailscale API directly", but its handlers look up devices and
users and it puts its VIP service; `policy.go:176` speaks of "no explicit approvers",
which `EvaluatePolicy`, called by tests only, does not look at; the list of grants
asks the namespace "default" whatever is configured (`handlers.go:301`).

## Not modelled

* *Read-only handlers* (get, list, grant types, devices, users, whoami), the table
  of routes and the static files: they change nothing.
* *Parsing*: YAML, durations, the defaults of an empty configuration, credentials
  from the environment. The models start from what was parsed.
* *Attribute values*: a cell is set or not set. So two grants that set different
  values under one key, where the value of the first stays or goes depending on
  the order of the calls (`tagmanager.go:258`), are not told apart.
* *Replay* of a workflow's history after a restart of the worker, and with it that
  the order of a Go map may differ the second time (`tagmanager.go:260`).
* *Listeners that fail while the server runs* (`main.go:166` of the server): the
  process stays, and nothing more is said about it.
* *Operators of Temporal* who terminate or cancel a `GrantWorkflow`, a manager or
  the reconciler, or cancel an approval: nothing in the program does or handles
  that. A terminated approval is modelled, because the parent has a branch for it.
* `List` and `Delete` of VIP services, `LoadFromEnv` and `EvaluatePolicy`: called by
  nothing in the program.
* The UI only calls the handlers. Logging, texts and HTTP statuses are left out.

## Plan

1. *Done:* `TagOps`, `TagManager` with its runs and the theorems above;
   `GrantLifecycle`, `GrantWorkflow` with its runs; `Reconciliation`, composed
   with `TagManager`, with its runs; `TailGrant`, which composes `GrantWorkflow` and
   `TagManager`; `GrantTypes` and `Deployment`.
2. *Done:* theorems about each of these modules: type correctness, every safety
   invariant and action property of the runs, and the two refinements.
3. Lemmas about the pure operators of `TagOps` and `GrantTypes` as theorems of
   their own, where a reader would look for them: `computeDesiredTags` against the
   claims, the worker's collection against the store.
4. How long a grant may last, with real managers: `GrantLifecycle`'s bound carried
   over to the tags on the device, up to calls that fail and signals that are lost.
