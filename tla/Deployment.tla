----------------------------- MODULE Deployment -----------------------------
(***************************************************************************)
(* The two processes of TailGrant from start to exit, and again: the       *)
(* server (cmd/tailgrant-server/main.go) with its VIP service              *)
(* (internal/tsapi/vip_services.go) and the request that creates a grant,  *)
(* and the worker (cmd/tailgrant-worker/main.go) with the reconciliation   *)
(* it starts.  Both read the configuration only when they start; an        *)
(* administrator may edit it at any time, so they may run with different   *)
(* ones.  A process that exits, for an error or because it is killed, is   *)
(* started again (kustomization: one replica, Recreate).                   *)
(*                                                                         *)
(* A configuration has the entries of the grant types and the VIP service, *)
(* or NoService.                                                           *)
(***************************************************************************)
EXTENDS Integers, GrantTypes

CONSTANTS
  Configs,      (* The configurations an administrator may write.         *)
  Clients,      (* Requests' connections: [via, device, header], header   *)
                (* the login name in Tailscale-User-Login.                *)
  UserOf,       (* UserOf[d]: login name of the user of device d.         *)
  Tagged,       (* The devices that have tags and so no user.             *)
  Nobody,       (* The empty login name, or no header.                    *)
  NoNode,       (* The empty device ID.                                   *)
  Requests,     (* Bodies of requests: [name, target, duration].          *)
  Devices,      (* The devices of the tailnet.                            *)
  TailnetUsers, (* The users of the tailnet.                              *)
  Services,     (* Names of VIP services.                                 *)
  NoService,    (* No service under a name, or in a configuration.        *)
  Addrs,        (* Addresses the tailnet has to give to services.         *)
  Grants,       (* Grant IDs.                                             *)
  NoConfig,     (* What a process has read that does not run.             *)
  NoGrant,      (* A grant nobody has asked for.                          *)
  NoRecon,      (* No reconciliation was started.                         *)
  MaxEdits,     (* Bounds the run: administrator's edits in all.          *)
  MaxExits,     (* Bounds the run: exits of processes in all.             *)
  MaxFailedStarts (* Bounds the run: failed starts of the reconciliation. *)

(* A configuration names its service and a port; a maximum that parses is  *)
(* a number.                                                               *)
ASSUME ConfigsAssumption ==
  /\ NoConfig \notin Configs
  /\ \A c \in Configs :
       /\ c.service # NoService => c.service.name \in Services /\ c.service.port \in Nat
       /\ \A i \in DOMAIN c.grants :
            c.grants[i].maxDuration # NotADuration => c.grants[i].maxDuration \in Int

(* A direct connection comes from a device, and a device without tags      *)
(* belongs to a user.  Any header may come with any connection.            *)
ASSUME ClientsAssumption ==
  /\ NoNode \notin Devices /\ Tagged \subseteq Devices
  /\ \A d \in Devices \ Tagged : UserOf[d] # Nobody
  /\ \A c \in Clients :
       c.via \in {"direct", "service"} /\ (c.via = "direct" => c.device \in Devices)

ASSUME RequestsAssumption == \A r \in Requests : r.duration \in Int

ASSUME BudgetsAssumption == {MaxEdits, MaxExits, MaxFailedStarts} \subseteq Nat

VARIABLES
  config,       (* The configuration file.                                *)
  spc, scfg,    (* Where the server is, and what it read.                 *)
  seen,         (* What the server's Get returned: the local existing.    *)
  wpc, wcfg,    (* Where the worker is, and what it read.                 *)
  service,      (* service[s]: the VIP service s on the tailnet.          *)
  recon,        (* The input of the reconciliation that runs.             *)
  grant,        (* grant[g]: what GrantWorkflow g was started with.       *)
  edits, exits, failedStarts    (* Budgets used.                          *)

serverVars == << spc, scfg, seen >>
workerVars == << wpc, wcfg >>
vars == << config, serverVars, workerVars, service, recon, grant, edits, exits,
           failedStarts >>

ServerPCs == {"boot", "up", "getService", "putService", "listenService", "serving"}
WorkerPCs == {"boot", "up", "start", "running"}

Init ==
  /\ config \in Configs
  /\ spc = "boot" /\ scfg = NoConfig /\ seen = NoService
  /\ wpc = "boot" /\ wcfg = NoConfig
  /\ service = [s \in Services |-> NoService]
  /\ recon = NoRecon
  /\ grant = [g \in Grants |-> NoGrant]
  /\ edits = 0 /\ exits = 0 /\ failedStarts = 0

-----------------------------------------------------------------------------
(* Administrators.                                                         *)

EditConfig ==
  /\ edits < MaxEdits
  /\ config' \in Configs \ {config}
  /\ edits' = edits + 1
  /\ UNCHANGED << serverVars, workerVars, service, recon, grant, exits, failedStarts >>

DeleteService(s) ==
  /\ edits < MaxEdits
  /\ service[s] # NoService
  /\ service' = [service EXCEPT ![s] = NoService]
  /\ edits' = edits + 1
  /\ UNCHANGED << config, serverVars, workerVars, recon, grant, exits, failedStarts >>

-----------------------------------------------------------------------------
(* The server.                                                             *)

ServerQuiet ==
  UNCHANGED << config, workerVars, recon, edits, failedStarts >>

(* The server goes on at `to`, with nothing changed outside it.            *)
ServerGoes(from, to) ==
  /\ spc = from
  /\ spc' = to
  /\ UNCHANGED << scfg, service, grant, exits >>
  /\ ServerQuiet

(* The configuration is read and its grant types are accepted; else the    *)
(* server exits, and finds the file as it then is when it starts again.    *)
ServerLoads ==
  /\ spc = "boot" /\ Accepted(config.grants)
  /\ spc' = "up"
  /\ scfg' = config
  /\ UNCHANGED << seen, service, grant, exits >>
  /\ ServerQuiet

(* Mutant: the service is set up whether or not it is configured.          *)
AlwaysService(c) == "getService"

(* What main does once the listener is open.                               *)
AfterListen(c) == IF c.service = NoService THEN "serving" ELSE "getService"

(* tsnet is up, Temporal is reached, the listener is open.                 *)
Listen ==
  /\ ServerGoes("up", AfterListen(scfg))
  /\ UNCHANGED seen

(* ensureVIPService, first call.                                           *)
GetService ==
  /\ ServerGoes("getService", "putService")
  /\ seen' = service[scfg.service.name]

(* Mutant: what is there is not looked at.                                 *)
NoAddrs(existing) == {}

(* The addresses sent along: those of the service that exists.             *)
AddrsToSend(existing) == IF existing = NoService THEN {} ELSE {existing.addr}

(* The tailnet keeps the addresses it is given, and chooses if there are   *)
(* none.                                                                   *)
Allocate(sent) ==
  IF sent # {} THEN sent
  ELSE Addrs \ {service[s].addr : s \in {t \in Services : service[t] # NoService}}

(* Mutant: an existing service is left as it is.                           *)
PutIfMissing(existing, a, port) ==
  IF existing = NoService THEN [addr |-> a, port |-> port] ELSE existing

(* What stands under the name after the PUT.                               *)
Stored(existing, a, port) == [addr |-> a, port |-> port]

(* ensureVIPService, second call.                                          *)
PutService ==
  /\ spc = "putService"
  /\ spc' = "listenService"
  /\ \E a \in Allocate(AddrsToSend(seen)) :
       service' = [service EXCEPT ![scfg.service.name] =
                     Stored(seen, a, scfg.service.port)]
  /\ UNCHANGED << scfg, seen, grant, exits >>
  /\ ServerQuiet

(* The listener of the service opens, and requests are served.             *)
ListenService ==
  /\ ServerGoes("listenService", "serving")
  /\ UNCHANGED seen

(* Mutant: the header counts before the user of the device.                *)
HeaderBeforeUser(c) ==
  IF c.via = "direct"
    THEN {[login |-> IF c.header = Nobody THEN UserOf[c.device] ELSE c.header,
           node |-> c.device]}
    ELSE {}

(* What WhoIs may answer without an error: the device at the other end and *)
(* its user.  A connection through the service comes from localhost, which *)
(* is no device; for any other WhoIs may fail as well.                     *)
WhoIs(c) ==
  IF c.via = "direct" THEN {[login |-> UserOf[c.device], node |-> c.device]} ELSE {}

(* The user that the header names, if it is there, on no device.           *)
whoIsFromHeaders(c) ==
  IF c.header = Nobody THEN {} ELSE {[login |-> c.header, node |-> NoNode]}

(* WhoIsMiddleware lets a request pass as one of these: what WhoIs says,   *)
(* or what the headers say when it fails, but no device that has tags.     *)
Identities(c) == {who \in WhoIs(c) \cup whoIsFromHeaders(c) : who.node \notin Tagged}

(* HandleCreateGrant lets a request pass.                                  *)
Permissible(r, store) ==
  /\ r.name \in DOMAIN store
  /\ r.duration > 0 /\ r.duration =< store[r.name].maxDuration
  /\ r.target \in IF store[r.name].action = "tag" THEN Devices ELSE TailnetUsers

(* HandleCreateGrant: the grant type goes to the workflow by value, in    *)
(* JSON.                                                                   *)
HandleCreateGrant(g) ==
  LET store == NewYAMLGrantTypeStore(scfg.grants) IN
  /\ spc = "serving"
  /\ grant[g] = NoGrant
  /\ \E c \in Clients, r \in Requests :
       /\ c.via = "service" => scfg.service # NoService
       /\ Permissible(r, store)
       /\ \E who \in Identities(c) :
            grant' = [grant EXCEPT ![g] =
                        [ type |-> Transported(store[r.name]), requester |-> who.login,
                          node |-> who.node, target |-> r.target, duration |-> r.duration ]]
  /\ UNCHANGED << serverVars, service, exits >>
  /\ ServerQuiet

(* A call fails, or the process is stopped: the server exits.  A PUT that  *)
(* took effect before its answer was lost is a PUT followed by an exit.    *)
ServerExits ==
  /\ spc # "boot" /\ exits < MaxExits
  /\ spc' = "boot" /\ scfg' = NoConfig /\ seen' = NoService
  /\ exits' = exits + 1
  /\ UNCHANGED << service, grant >>
  /\ ServerQuiet

-----------------------------------------------------------------------------
(* The worker.                                                             *)

WorkerQuiet ==
  UNCHANGED << config, serverVars, service, grant, edits >>

WorkerLoads ==
  /\ wpc = "boot"
  /\ wpc' = "up" /\ wcfg' = config
  /\ UNCHANGED << recon, exits, failedStarts >>
  /\ WorkerQuiet

(* The worker goes on at `to`; a new process has read nothing.             *)
WorkerGoes(to) ==
  /\ wpc' = to
  /\ wcfg' = IF to = "boot" THEN NoConfig ELSE wcfg

(* Mutant: the error is logged, but the process stays.                     *)
Stay == "up"

(* Where an error at start-up leads: out of the process.                   *)
AfterError == "boot"

(* The grant types are looked at only once tsnet is up and Temporal is     *)
(* reached; if they are refused the worker exits.                          *)
WorkerChecks ==
  /\ wpc = "up"
  /\ WorkerGoes(IF Accepted(wcfg.grants) THEN "start" ELSE AfterError)
  /\ UNCHANGED << recon, exits, failedStarts >>
  /\ WorkerQuiet

(* What the worker collects from its grant types.                          *)
ReconciliationInput(c) ==
  LET store == NewYAMLGrantTypeStore(c.grants) IN
  [tags |-> AllGrantTags(store), keys |-> AllPostureKeys(store)]

ASSUME InputsAssumption == \A c \in Configs : ReconciliationInput(c) # NoRecon

(* ExecuteWorkflow with the ID "reconciliation": one that runs is left     *)
(* alone with the input it was started with, and no error is returned.     *)
ExecuteReconciliation ==
  recon' = IF recon = NoRecon THEN ReconciliationInput(wcfg) ELSE recon

StartReconciliation ==
  /\ wpc = "start"
  /\ WorkerGoes("running")
  /\ ExecuteReconciliation
  /\ UNCHANGED << exits, failedStarts >>
  /\ WorkerQuiet

(* An error is logged, and the worker runs all the same.                   *)
StartFails ==
  /\ wpc = "start" /\ failedStarts < MaxFailedStarts
  /\ WorkerGoes("running")
  /\ failedStarts' = failedStarts + 1
  /\ ExecuteReconciliation \/ UNCHANGED recon
  /\ UNCHANGED exits
  /\ WorkerQuiet

WorkerExits ==
  /\ wpc # "boot" /\ exits < MaxExits
  /\ WorkerGoes("boot")
  /\ exits' = exits + 1
  /\ UNCHANGED << recon, failedStarts >>
  /\ WorkerQuiet

-----------------------------------------------------------------------------
Server == ServerLoads \/ Listen \/ GetService \/ PutService \/ ListenService

Worker == WorkerLoads \/ WorkerChecks \/ StartReconciliation

Next ==
  \/ EditConfig
  \/ \E s \in Services : DeleteService(s)
  \/ Server \/ ServerExits
  \/ Worker \/ StartFails \/ WorkerExits
  \/ \E g \in Grants : HandleCreateGrant(g)

(* Processes run and are started again; people and failures come as they   *)
(* like.                                                                   *)
Fairness == WF_vars(Server) /\ WF_vars(Worker)

Spec == Init /\ [][Next]_vars /\ Fairness
-----------------------------------------------------------------------------
(* Properties.                                                             *)

(* Types of the variables.                                                 *)
DeploymentTypeOK ==
  /\ config \in Configs /\ {scfg, wcfg} \subseteq Configs \cup {NoConfig}
  /\ spc \in ServerPCs /\ wpc \in WorkerPCs
  /\ service \in [Services -> [addr : Addrs, port : Nat] \cup {NoService}]
  /\ seen \in [addr : Addrs, port : Nat] \cup {NoService}
  /\ edits \in 0 .. MaxEdits /\ exits \in 0 .. MaxExits
  /\ failedStarts \in 0 .. MaxFailedStarts
  /\ spc # "boot" => scfg # NoConfig /\ Accepted(scfg.grants)
  /\ wpc # "boot" => wcfg # NoConfig
  /\ spc \in {"getService", "putService", "listenService"} => scfg.service # NoService

(* However the configuration was edited and whichever process was stopped  *)
(* when, a workflow is only ever started with what GrantWorkflow and       *)
(* TagManager assume: a sound type, a duration within its maximum, a user  *)
(* who asks, and, if a device was found to ask from, one without tags that *)
(* is that user's, so that no attribute goes to somebody else's device.    *)
GrantsSound ==
  \A g \in Grants :
    grant[g] # NoGrant =>
      /\ SoundType(grant[g].type)
      /\ grant[g].duration \in 1 .. grant[g].type.maxDuration
      /\ grant[g].target \in IF grant[g].type.action = "tag" THEN Devices ELSE TailnetUsers
      /\ grant[g].requester # Nobody
      /\ grant[g].node # NoNode =>
           grant[g].node \in Devices \ Tagged /\ UserOf[grant[g].node] = grant[g].requester

(* As long as the configuration is not edited, the reconciliation knows    *)
(* whatever a grant may put on a device, though one process makes the      *)
(* grants, another collects the tags, and each may have been started       *)
(* again; and it is only absent beside a running worker if its start       *)
(* failed.                                                                 *)
ReconcilerKnows ==
  /\ wpc = "running" /\ failedStarts = 0 => recon # NoRecon
  /\ \A g \in Grants :
       edits = 0 /\ recon # NoRecon /\ grant[g] # NoGrant =>
         LET gt == grant[g].type IN
         gt.action = "tag" =>
           gt.tags \subseteq recon.tags /\ {pa.key : pa \in gt.attrs} \subseteq recon.keys

(* A service on the tailnet keeps its address over restarts, edits of its  *)
(* port and exits between Get and PUT, until somebody deletes it.          *)
AddressStays ==
  [][ \A s \in Services :
        NoService \notin {service[s], service'[s]} =>
          service'[s].addr = service[s].addr ]_vars

(* While the server answers, its service is what its configuration says,   *)
(* or has been deleted.                                                    *)
ServedAsConfigured ==
  spc = "serving" /\ scfg.service # NoService =>
    LET found == service[scfg.service.name] IN
    found # NoService => found.port = scfg.service.port

(* Once a configuration with acceptable grant types is left alone, both    *)
(* processes end up running, whatever they read and tried before.          *)
UpInTheEnd ==
  \A c \in Configs :
    Accepted(c.grants) /\ <>[](config = c) =>
      <>[](spc = "serving" /\ wpc = "running")
=============================================================================
