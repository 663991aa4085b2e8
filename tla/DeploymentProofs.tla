-------------------------- MODULE DeploymentProofs --------------------------
(***************************************************************************)
(* Theorems about the two processes, their configurations and the grants   *)
(* they make, for every value of the constants.                            *)
(***************************************************************************)
EXTENDS Deployment, TLAPS

-----------------------------------------------------------------------------
(* The grant type store.                                                   *)

(* What the store holds was made of an entry of the configuration.         *)
LEMMA StoreEntry ==
  ASSUME NEW configs, NEW name \in DOMAIN NewYAMLGrantTypeStore(configs)
  PROVE  \E i \in DOMAIN configs :
           /\ configs[i].name = name
           /\ NewYAMLGrantTypeStore(configs)[name] = GrantTypeOf(configs[i])
<1> DEFINE i == CHOOSE k \in DOMAIN configs : configs[k].name = name
<1>1. name \in {configs[k].name : k \in DOMAIN configs}
  BY DEF NewYAMLGrantTypeStore
<1>2. i \in DOMAIN configs /\ configs[i].name = name
  BY <1>1
<1>3. NewYAMLGrantTypeStore(configs)[name] = GrantTypeOf(configs[i])
  BY <1>1 DEF NewYAMLGrantTypeStore
<1> QED BY <1>2, <1>3

(* A level survives the way through JSON.                                  *)
LEMMA RiskSurvives ==
  ASSUME NEW s
  PROVE  ParseRiskLevel(RiskString(ParseRiskLevel(s))) = ParseRiskLevel(s)
BY SpellingAssumption DEF ParseRiskLevel, Normalised, RiskString, RiskLow

(* So does the whole type made of an entry.                                *)
LEMMA TypeSurvives ==
  ASSUME NEW c
  PROVE  Transported(GrantTypeOf(c)) = GrantTypeOf(c)
<1> DEFINE gt == GrantTypeOf(c)
<1>1. ParseRiskLevel(RiskString(gt.riskLevel)) = gt.riskLevel
  BY RiskSurvives DEF GrantTypeOf
<1>2. gt = [gt EXCEPT !.riskLevel = gt.riskLevel]
  BY DEF GrantTypeOf
<1> HIDE DEF gt
<1>3. Transported(gt) = [gt EXCEPT !.riskLevel = ParseRiskLevel(RiskString(gt.riskLevel))]
  BY DEF Transported
<1>4. Transported(gt) = gt
  BY <1>1, <1>2, <1>3
<1> QED BY <1>4 DEF gt

(* What is accepted is what the workflows assume: a type that asks for     *)
(* approval has approvers, and its action can be carried out.              *)
LEMMA ValidIsSound ==
  ASSUME NEW c, Valid(c)
  PROVE  SoundType(GrantTypeOf(c))
<1> DEFINE gt == GrantTypeOf(c)
<1>1. /\ gt.riskLevel = ParseRiskLevel(c.risk) /\ gt.approvers = c.approvers
      /\ gt.action = ActionOf(c) /\ gt.role = c.role /\ gt.tags = c.tags
      /\ gt.attrs = {convertPostureAttribute(pa) : pa \in c.attrs}
  BY DEF GrantTypeOf
<1> HIDE DEF gt
<1>2. gt.riskLevel > RiskLow => gt.approvers # {}
  BY <1>1 DEF Valid, ApproversGiven
<1>3. gt.action \in {"tag", "user_role", "user_restore"}
  BY <1>1 DEF Valid, ValidAction
<1>4. gt.action = "user_role" => gt.role \in ValidRoles
  BY <1>1 DEF Valid, ValidAction
<1>5. ASSUME gt.action = "tag"
      PROVE  /\ gt.tags \subseteq WellFormedTags
             /\ \A pa \in gt.attrs : pa.key \in PrefixedKeys /\ pa.target \in {"requester", "target"}
  <2>1. /\ \A tag \in c.tags : validateTag(tag)
        /\ \A pa \in c.attrs : validatePostureAttribute(pa)
    BY <1>1, <1>5 DEF Valid, ValidAction
  <2>2. ASSUME NEW q \in c.attrs
        PROVE  /\ convertPostureAttribute(q).key \in PrefixedKeys
               /\ convertPostureAttribute(q).target \in {"requester", "target"}
    BY <2>1 DEF validatePostureAttribute, convertPostureAttribute
  <2> QED BY <1>1, <2>1, <2>2 DEF validateTag
<1>6. SoundType(gt)
  BY <1>2, <1>3, <1>4, <1>5 DEF SoundType
<1> QED BY <1>6 DEF gt

-----------------------------------------------------------------------------
(* Types.                                                                  *)

VIPServices == [addr : Addrs, port : Nat]

(* The initial state has the right types.                                  *)
LEMMA InitType == Init => DeploymentTypeOK
BY BudgetsAssumption DEF Init, DeploymentTypeOK, ServerPCs, WorkerPCs

(* Whatever server and worker do, they read configurations that exist.     *)
LEMMA NextType ==
  ASSUME DeploymentTypeOK, [Next]_vars
  PROVE  DeploymentTypeOK'
<1> USE DEF DeploymentTypeOK, ServerPCs, WorkerPCs
<1>1. CASE EditConfig
  BY <1>1, BudgetsAssumption DEF EditConfig, serverVars, workerVars
<1>2. ASSUME NEW s \in Services, DeleteService(s)
      PROVE  DeploymentTypeOK'
  BY <1>2, BudgetsAssumption DEF DeleteService, serverVars, workerVars
<1>3. CASE ServerLoads
  BY <1>3, ConfigsAssumption DEF ServerLoads, ServerQuiet, workerVars
<1>4. CASE Listen
  BY <1>4 DEF Listen, AfterListen, ServerGoes, ServerQuiet, workerVars
<1>5. CASE GetService
  <2>1. scfg \in Configs /\ scfg.service # NoService
    BY <1>5 DEF GetService, ServerGoes
  <2>2. service[scfg.service.name] \in VIPServices \cup {NoService}
    BY <2>1, ConfigsAssumption DEF VIPServices
  <2>3. seen' \in VIPServices \cup {NoService}
    BY <1>5, <2>2 DEF GetService
  <2> QED BY <1>5, <2>1, <2>3 DEF GetService, ServerGoes, ServerQuiet, workerVars, VIPServices
<1>6. CASE PutService
  <2>1. scfg \in Configs /\ scfg.service # NoService /\ spc = "putService"
    BY <1>6 DEF PutService
  <2>2. PICK a \in Allocate(AddrsToSend(seen)) :
          service' = [service EXCEPT ![scfg.service.name] = Stored(seen, a, scfg.service.port)]
    BY <1>6 DEF PutService
  <2>3. a \in Addrs
    BY DEF Allocate, AddrsToSend
  <2>4. Stored(seen, a, scfg.service.port) \in VIPServices
    BY <2>1, <2>3, ConfigsAssumption DEF Stored, VIPServices
  <2>5. service' \in [Services -> VIPServices \cup {NoService}]
    BY <2>2, <2>4 DEF VIPServices
  <2> QED BY <1>6, <2>1, <2>5 DEF PutService, ServerQuiet, workerVars, VIPServices
<1>7. CASE ListenService
  BY <1>7 DEF ListenService, ServerGoes, ServerQuiet, workerVars
<1>8. CASE ServerExits
  BY <1>8, BudgetsAssumption DEF ServerExits, ServerQuiet, workerVars
<1>9. CASE WorkerLoads
  BY <1>9, ConfigsAssumption DEF WorkerLoads, WorkerQuiet, serverVars
<1>10. CASE WorkerChecks
  BY <1>10 DEF WorkerChecks, WorkerGoes, AfterError, WorkerQuiet, serverVars
<1>11. CASE StartReconciliation
  BY <1>11 DEF StartReconciliation, WorkerGoes, WorkerQuiet, serverVars
<1>12. CASE StartFails
  BY <1>12, BudgetsAssumption DEF StartFails, WorkerGoes, WorkerQuiet, serverVars
<1>13. CASE WorkerExits
  BY <1>13, BudgetsAssumption DEF WorkerExits, WorkerGoes, WorkerQuiet, serverVars
<1>14. ASSUME NEW g \in Grants, HandleCreateGrant(g)
       PROVE  DeploymentTypeOK'
  BY <1>14 DEF HandleCreateGrant, ServerQuiet, serverVars, workerVars
<1>15. CASE UNCHANGED vars
  BY <1>15 DEF vars, serverVars, workerVars
<1> QED
  BY <1>1, <1>2, <1>3, <1>4, <1>5, <1>6, <1>7, <1>8, <1>9, <1>10, <1>11, <1>12, <1>13,
     <1>14, <1>15 DEF Next, Server, Worker

(* A server past its start holds a configuration whose grant types were    *)
(* accepted, and sets up a service only if it has one.                     *)
THEOREM TypeCorrect == Spec => []DeploymentTypeOK
BY InitType, NextType, PTL DEF Spec
-----------------------------------------------------------------------------
(* The VIP service.                                                        *)

(* Between Get and PUT only its deletion makes the service other than what *)
(* Get returned: no other process writes it.                               *)
SeenIsCurrent ==
  spc = "putService" => service[scfg.service.name] \in {NoService, seen}

(* What PUT stored stays until the server reads its configuration again.   *)
PutIsCurrent ==
  spc \in {"listenService", "serving"} /\ scfg.service # NoService =>
    LET found == service[scfg.service.name] IN
    found # NoService => found.port = scfg.service.port

(* What a step does to a service: PUT stores one, people delete one.       *)
LEMMA ServiceMoves ==
  ASSUME DeploymentTypeOK, [Next]_vars
  PROVE  \/ service' = service
         \/ /\ spc = "putService" /\ spc' = "listenService"
            /\ UNCHANGED << scfg, seen >>
            /\ \E a \in Allocate(AddrsToSend(seen)) :
                 service' = [service EXCEPT ![scfg.service.name] =
                               Stored(seen, a, scfg.service.port)]
         \/ /\ UNCHANGED serverVars
            /\ \E s \in Services : service' = [service EXCEPT ![s] = NoService]
BY DEF Next, EditConfig, DeleteService, Server, ServerLoads, Listen, GetService, PutService,
       ListenService, ServerExits, ServerGoes, Worker, WorkerLoads, WorkerChecks,
       StartReconciliation, StartFails, WorkerExits, HandleCreateGrant, WorkerQuiet, vars

(* How a server gets where its service matters.                            *)
LEMMA ServerMoves ==
  ASSUME DeploymentTypeOK, [Next]_vars
  PROVE  \/ UNCHANGED << spc, scfg, seen >>
         \/ spc' \in {"boot", "up", "getService"}
         \/ /\ spc = "up" /\ spc' = "serving" /\ scfg' = scfg
            /\ scfg.service = NoService /\ service' = service
         \/ /\ spc = "getService" /\ spc' = "putService" /\ scfg' = scfg
            /\ seen' = service[scfg.service.name] /\ service' = service
         \/ spc = "putService" /\ spc' = "listenService" /\ scfg' = scfg /\ PutService
         \/ spc = "listenService" /\ spc' = "serving" /\ scfg' = scfg /\ service' = service
<1>1. CASE \/ EditConfig \/ (\E s \in Services : DeleteService(s)) \/ Worker \/ StartFails
           \/ WorkerExits \/ (\E g \in Grants : HandleCreateGrant(g)) \/ UNCHANGED vars
  BY <1>1 DEF EditConfig, DeleteService, Worker, WorkerLoads, WorkerChecks,
              StartReconciliation, StartFails, WorkerExits, HandleCreateGrant, WorkerQuiet,
              serverVars, vars
<1>2. CASE ServerLoads \/ ServerExits
  BY <1>2 DEF ServerLoads, ServerExits
<1>3. CASE Listen
  BY <1>3 DEF Listen, AfterListen, ServerGoes
<1>4. CASE GetService
  BY <1>4 DEF GetService, ServerGoes
<1>5. CASE PutService
  BY <1>5 DEF PutService
<1>6. CASE ListenService
  BY <1>6 DEF ListenService, ServerGoes
<1> QED BY <1>1, <1>2, <1>3, <1>4, <1>5, <1>6 DEF Next, Server

(* PUT leaves a service under the configured name.                         *)
LEMMA PutMoves ==
  ASSUME DeploymentTypeOK, PutService
  PROVE  /\ scfg.service.name \in Services
         /\ service'[scfg.service.name].port = scfg.service.port
<1>1. /\ scfg \in Configs /\ scfg.service # NoService
      /\ service \in [Services -> VIPServices \cup {NoService}]
  BY DEF PutService, DeploymentTypeOK, VIPServices
<1>2. PICK a : service' = [service EXCEPT ![scfg.service.name] =
                             Stored(seen, a, scfg.service.port)]
  BY DEF PutService
<1>3. scfg.service.name \in Services
  BY <1>1, ConfigsAssumption
<1> QED BY <1>1, <1>2, <1>3 DEF Stored

(* Both facts about the service are kept by every step.                    *)
LEMMA NextService ==
  ASSUME DeploymentTypeOK, SeenIsCurrent, PutIsCurrent, [Next]_vars
  PROVE  SeenIsCurrent' /\ PutIsCurrent'
<1> DEFINE name == scfg.service.name
<1>1. service \in [Services -> VIPServices \cup {NoService}]
  BY DEF DeploymentTypeOK, VIPServices
<1>2. spc # "boot" /\ scfg.service # NoService => scfg \in Configs /\ name \in Services
  BY ConfigsAssumption DEF DeploymentTypeOK
<1>3. spc \in {"getService", "putService", "listenService"} => scfg.service # NoService
  BY DEF DeploymentTypeOK
<1>4. CASE service' = service
  BY <1>3, <1>4, ServerMoves, PutMoves DEF SeenIsCurrent, PutIsCurrent
<1>5. CASE /\ spc = "putService" /\ spc' = "listenService" /\ UNCHANGED << scfg, seen >>
           /\ \E a \in Allocate(AddrsToSend(seen)) :
                service' = [service EXCEPT ![name] = Stored(seen, a, scfg.service.port)]
  <2>1. PICK a : service' = [service EXCEPT ![name] = Stored(seen, a, scfg.service.port)]
    BY <1>5
  <2>2. service'[name] = Stored(seen, a, scfg.service.port)
    BY <1>1, <1>2, <1>3, <1>5, <2>1
  <2>3. service'[name].port = scfg.service.port
    BY <2>2 DEF Stored
  <2> QED BY <1>5, <2>3 DEF SeenIsCurrent, PutIsCurrent
<1>6. CASE /\ UNCHANGED serverVars
           /\ \E s \in Services : service' = [service EXCEPT ![s] = NoService]
  <2>1. \A s \in Services : service'[s] \in {service[s], NoService}
    BY <1>1, <1>6
  <2>2. UNCHANGED << spc, scfg, seen >>
    BY <1>6 DEF serverVars
  <2>3. SeenIsCurrent'
    BY <1>2, <1>3, <2>1, <2>2 DEF SeenIsCurrent
  <2>4. PutIsCurrent'
    BY <1>2, <2>1, <2>2 DEF PutIsCurrent
  <2> QED BY <2>3, <2>4
<1> QED BY <1>4, <1>5, <1>6, ServiceMoves

(* They always hold.                                                       *)
LEMMA ServiceCurrent == Spec => [](SeenIsCurrent /\ PutIsCurrent)
<1>1. Init => SeenIsCurrent /\ PutIsCurrent
  BY DEF Init, SeenIsCurrent, PutIsCurrent
<1> QED BY <1>1, NextService, TypeCorrect, PTL DEF Spec

(* While the server answers, its service has the port it was configured    *)
(* with, or has been deleted.                                              *)
THEOREM ServiceAsConfigured == Spec => []ServedAsConfigured
<1>1. PutIsCurrent => ServedAsConfigured
  BY DEF PutIsCurrent, ServedAsConfigured
<1> QED BY <1>1, ServiceCurrent, PTL

(* A service keeps its address over restarts, edits of its port and exits  *)
(* between Get and PUT, until somebody deletes it.                         *)
THEOREM AddressKept == Spec => AddressStays
<1> DEFINE Stays == \A s \in Services :
                      NoService \notin {service[s], service'[s]} =>
                        service'[s].addr = service[s].addr
<1>1. DeploymentTypeOK /\ (SeenIsCurrent /\ PutIsCurrent) /\ [Next]_vars => [Stays]_vars
  <2> SUFFICES ASSUME DeploymentTypeOK, SeenIsCurrent, [Next]_vars, NEW s \in Services,
                      NoService \notin {service[s], service'[s]}
               PROVE  service'[s].addr = service[s].addr
    OBVIOUS
  <2> DEFINE name == scfg.service.name
  <2>1. service \in [Services -> VIPServices \cup {NoService}]
    BY DEF DeploymentTypeOK, VIPServices
  <2>2. CASE service' = service
    BY <2>2
  <2>3. CASE /\ spc = "putService"
             /\ \E a \in Allocate(AddrsToSend(seen)) :
                  service' = [service EXCEPT ![name] = Stored(seen, a, scfg.service.port)]
    <3>1. PICK a \in Allocate(AddrsToSend(seen)) :
            service' = [service EXCEPT ![name] = Stored(seen, a, scfg.service.port)]
      BY <2>3
    <3>2. CASE s # name
      BY <2>1, <3>1, <3>2
    <3>3. CASE s = name
      <4>1. service[s] = seen /\ seen # NoService
        BY <2>3, <3>3 DEF SeenIsCurrent
      <4>2. a = service[s].addr
        BY <4>1 DEF Allocate, AddrsToSend
      <4>3. service'[s] = Stored(seen, a, scfg.service.port)
        BY <2>1, <3>1, <3>3
      <4> QED BY <4>2, <4>3 DEF Stored
    <3> QED BY <3>2, <3>3
  <2>4. CASE \E t \in Services : service' = [service EXCEPT ![t] = NoService]
    BY <2>1, <2>4
  <2> QED BY <2>2, <2>3, <2>4, ServiceMoves
<1> QED BY <1>1, TypeCorrect, ServiceCurrent, PTL DEF Spec, AddressStays

-----------------------------------------------------------------------------
(* Grants.                                                                 *)

(* The only step that changes a grant is the request that makes it.        *)
LEMMA GrantMoves ==
  ASSUME [Next]_vars
  PROVE  grant' = grant \/ \E g \in Grants : HandleCreateGrant(g)
BY DEF Next, EditConfig, DeleteService, Server, ServerLoads, Listen, GetService, PutService,
       ListenService, ServerExits, ServerGoes, Worker, WorkerLoads, WorkerChecks,
       StartReconciliation, StartFails, WorkerExits, WorkerQuiet, vars

(* grant has a value for every grant, and for no more.                     *)
GrantsOnly == grant = [g \in Grants |-> grant[g]]

(* A sound grant, as GrantsSound says of each.                             *)
Sound(x) ==
  /\ SoundType(x.type)
  /\ x.duration \in 1 .. x.type.maxDuration
  /\ x.target \in IF x.type.action = "tag" THEN Devices ELSE TailnetUsers
  /\ x.requester # Nobody
  /\ x.node # NoNode => x.node \in Devices \ Tagged /\ UserOf[x.node] = x.requester

(* Whoever gets past the middleware has a name, and a device of theirs or  *)
(* none.                                                                   *)
LEMMA IdentitySound ==
  ASSUME NEW c \in Clients, NEW who \in Identities(c)
  PROVE  /\ who.login # Nobody
         /\ who.node # NoNode => who.node \in Devices \ Tagged /\ UserOf[who.node] = who.login
<1>1. who \in WhoIs(c) \cup whoIsFromHeaders(c) /\ who.node \notin Tagged
  BY DEF Identities
<1>2. CASE who \in WhoIs(c)
  <2>1. c.device \in Devices /\ who = [login |-> UserOf[c.device], node |-> c.device]
    BY <1>2, ClientsAssumption DEF WhoIs
  <2> QED BY <1>1, <2>1, ClientsAssumption
<1>3. CASE who \in whoIsFromHeaders(c)
  BY <1>3 DEF whoIsFromHeaders
<1> QED BY <1>1, <1>2, <1>3

(* What a request makes is made from an entry of the server's              *)
(* configuration, and is what the workflows assume.                        *)
LEMMA RequestMakes ==
  ASSUME DeploymentTypeOK, NEW g \in Grants, HandleCreateGrant(g)
  PROVE  \E x : /\ grant' = [grant EXCEPT ![g] = x]
               /\ Sound(x)
               /\ \E i \in DOMAIN scfg.grants : x.type = GrantTypeOf(scfg.grants[i])
<1> DEFINE store == NewYAMLGrantTypeStore(scfg.grants)
<1> DEFINE Made(r, who) ==
             [ type |-> Transported(store[r.name]), requester |-> who.login,
               node |-> who.node, target |-> r.target, duration |-> r.duration ]
<1>0. PICK c \in Clients, r \in Requests :
        /\ Permissible(r, store)
        /\ \E who \in Identities(c) : grant' = [grant EXCEPT ![g] = Made(r, who)]
  BY DEF HandleCreateGrant
<1>1. PICK who \in Identities(c) : grant' = [grant EXCEPT ![g] = Made(r, who)]
  BY <1>0
<1>2. scfg \in Configs /\ Accepted(scfg.grants)
  BY DEF HandleCreateGrant, DeploymentTypeOK
<1>3. /\ r.name \in DOMAIN store
      /\ r.duration > 0 /\ r.duration =< store[r.name].maxDuration
      /\ r.target \in IF store[r.name].action = "tag" THEN Devices ELSE TailnetUsers
  BY <1>0 DEF Permissible
<1>4. PICK i \in DOMAIN scfg.grants : store[r.name] = GrantTypeOf(scfg.grants[i])
  BY <1>3, StoreEntry
<1> DEFINE entry == scfg.grants[i]
           gt    == GrantTypeOf(entry)
           x     == [ type |-> gt, requester |-> who.login, node |-> who.node,
                      target |-> r.target, duration |-> r.duration ]
<1>5. Valid(entry) /\ entry.maxDuration \in Int /\ r.duration \in Int
  BY <1>2, <1>4, ConfigsAssumption, RequestsAssumption DEF Accepted, Valid
<1>6. Transported(store[r.name]) = gt
  BY <1>4, TypeSurvives
<1>7. SoundType(gt)
  BY <1>5, ValidIsSound
<1>8. gt.maxDuration = entry.maxDuration
  BY DEF GrantTypeOf
<1>9. r.duration \in 1 .. gt.maxDuration
  <2>1. r.duration =< gt.maxDuration
    BY <1>3, <1>4
  <2> QED BY <1>3, <1>5, <1>8, <2>1
<1>10. r.target \in IF gt.action = "tag" THEN Devices ELSE TailnetUsers
  BY <1>3, <1>4
<1>11. /\ who.login # Nobody
       /\ who.node # NoNode => who.node \in Devices \ Tagged /\ UserOf[who.node] = who.login
  BY IdentitySound
<1>12. grant' = [grant EXCEPT ![g] = x]
  BY <1>1, <1>6
<1> HIDE DEF gt, entry
<1>13. Sound(x)
  BY <1>7, <1>9, <1>10, <1>11 DEF Sound
<1>14. x.type = GrantTypeOf(scfg.grants[i])
  BY DEF gt, entry
<1> HIDE DEF x
<1> QED BY <1>4, <1>12, <1>13, <1>14

(* Sound grants are made, and never changed afterwards.                    *)
LEMMA NextSound ==
  ASSUME DeploymentTypeOK, GrantsOnly, GrantsSound, [Next]_vars
  PROVE  GrantsOnly' /\ GrantsSound'
<1>1. CASE grant' = grant
  BY <1>1 DEF GrantsOnly, GrantsSound
<1>2. ASSUME NEW g \in Grants, HandleCreateGrant(g)
      PROVE  GrantsOnly' /\ GrantsSound'
  <2>1. PICK x : grant' = [grant EXCEPT ![g] = x] /\ Sound(x)
    BY <1>2, RequestMakes
  <2>2. \A h \in Grants : grant'[h] = IF h = g THEN x ELSE grant[h]
    BY <2>1 DEF GrantsOnly
  <2>3. GrantsOnly'
    BY <2>1 DEF GrantsOnly
  <2>4. GrantsSound'
    <3> SUFFICES ASSUME NEW h \in Grants, grant'[h] # NoGrant
                 PROVE  Sound(grant'[h])
      BY DEF GrantsSound, Sound
    <3>1. CASE h = g
      BY <2>1, <2>2, <3>1
    <3>2. CASE h # g
      BY <2>2, <3>2 DEF GrantsSound, Sound
    <3> QED BY <3>1, <3>2
  <2> QED BY <2>3, <2>4
<1> QED BY <1>1, <1>2, GrantMoves

(* A workflow is only ever started with what it assumes: a sound type, a   *)
(* duration within its maximum, a user who asks, and no device or one that *)
(* is theirs, whatever was edited meanwhile and whoever WhoIs fails for.   *)
THEOREM SoundGrants == Spec => []GrantsSound
<1>1. Init => GrantsOnly /\ GrantsSound
  BY DEF Init, GrantsOnly, GrantsSound
<1>2. DeploymentTypeOK /\ (GrantsOnly /\ GrantsSound) /\ [Next]_vars => (GrantsOnly /\ GrantsSound)'
  BY NextSound
<1> QED BY <1>1, <1>2, TypeCorrect, PTL DEF Spec
-----------------------------------------------------------------------------
(* The reconciliation knows what grants are made of.                       *)

(* As long as nobody edits it, everything that was read or made came from  *)
(* the configuration as it is.                                             *)
OneConfig ==
  edits = 0 =>
    /\ {scfg, wcfg} \subseteq {config, NoConfig}
    /\ recon \in {NoRecon, ReconciliationInput(config)}
    /\ \A g \in Grants :
         grant[g] # NoGrant =>
           /\ Accepted(config.grants)
           /\ \E i \in DOMAIN config.grants : grant[g].type = GrantTypeOf(config.grants[i])

(* A worker that runs has started the reconciliation, or failed to.        *)
Started == wpc = "running" /\ failedStarts = 0 => recon # NoRecon

(* How the configuration, the worker and the reconciliation move.          *)
LEMMA ConfigMoves ==
  ASSUME DeploymentTypeOK, [Next]_vars
  PROVE  /\ edits' # 0 \/ (edits' = edits /\ config' = config)
         /\ scfg' \in {scfg, config, NoConfig}
         /\ wcfg' \in {wcfg, config, NoConfig}
         /\ \/ recon' = recon
            \/ recon = NoRecon /\ recon' = ReconciliationInput(wcfg) /\ wpc = "start"
<1>1. CASE EditConfig \/ \E s \in Services : DeleteService(s)
  BY <1>1 DEF EditConfig, DeleteService, serverVars, workerVars, DeploymentTypeOK
<1>2. CASE Server \/ ServerExits \/ \E g \in Grants : HandleCreateGrant(g)
  BY <1>2 DEF Server, ServerLoads, Listen, GetService, PutService, ListenService, ServerExits,
              ServerGoes, HandleCreateGrant, ServerQuiet, serverVars, workerVars
<1>3. CASE Worker \/ StartFails \/ WorkerExits
  BY <1>3 DEF Worker, WorkerLoads, WorkerChecks, StartReconciliation, StartFails, WorkerExits,
              WorkerGoes, ExecuteReconciliation, WorkerQuiet, serverVars
<1>4. CASE UNCHANGED vars
  BY <1>4 DEF vars, serverVars, workerVars
<1> QED BY <1>1, <1>2, <1>3, <1>4 DEF Next

(* The worker gets to its end only by way of the reconciliation's start.   *)
LEMMA NextStarted ==
  ASSUME DeploymentTypeOK, Started, [Next]_vars
  PROVE  Started'
<1>1. CASE StartReconciliation
  <2>1. wcfg \in Configs
    BY <1>1 DEF StartReconciliation, DeploymentTypeOK
  <2>2. recon' # NoRecon
    BY <1>1, <2>1, InputsAssumption DEF StartReconciliation, ExecuteReconciliation
  <2> QED BY <2>2 DEF Started
<1>2. CASE StartFails
  BY <1>2 DEF StartFails, Started, DeploymentTypeOK
<1>3. CASE EditConfig \/ \E s \in Services : DeleteService(s)
  BY <1>3 DEF EditConfig, DeleteService, workerVars, Started
<1>4. CASE Server \/ ServerExits \/ \E g \in Grants : HandleCreateGrant(g)
  BY <1>4 DEF Server, ServerLoads, Listen, GetService, PutService, ListenService, ServerExits,
              ServerGoes, HandleCreateGrant, ServerQuiet, workerVars, Started
<1>5. CASE WorkerLoads \/ WorkerChecks \/ WorkerExits
  BY <1>5 DEF WorkerLoads, WorkerChecks, WorkerExits, WorkerGoes, AfterError, WorkerQuiet, Started
<1>6. CASE UNCHANGED vars
  BY <1>6 DEF vars, workerVars, Started
<1> QED BY <1>1, <1>2, <1>3, <1>4, <1>5, <1>6 DEF Next, Worker

(* Processes may come and go: what they read is the same as long as nobody *)
(* edits.                                                                  *)
LEMMA NextOneConfig ==
  ASSUME DeploymentTypeOK, GrantsOnly, OneConfig, [Next]_vars
  PROVE  OneConfig'
<1> SUFFICES ASSUME edits' = 0
             PROVE  OneConfig'
  BY DEF OneConfig
<1>1. edits = 0 /\ config' = config
  BY ConfigMoves
<1>2. {scfg', wcfg'} \subseteq {config', NoConfig}
  BY <1>1, ConfigMoves DEF OneConfig
<1>3. recon' \in {NoRecon, ReconciliationInput(config)}
  <2>1. wpc = "start" => wcfg = config
    BY <1>1 DEF OneConfig, DeploymentTypeOK
  <2> QED BY <1>1, <2>1, ConfigMoves DEF OneConfig
<1>4. ASSUME NEW h \in Grants, grant'[h] # NoGrant
      PROVE  /\ Accepted(config.grants)
             /\ \E i \in DOMAIN config.grants : grant'[h].type = GrantTypeOf(config.grants[i])
  <2>1. CASE grant' = grant
    BY <1>1, <1>4, <2>1 DEF OneConfig
  <2>2. ASSUME NEW g \in Grants, HandleCreateGrant(g)
        PROVE  /\ Accepted(config.grants)
               /\ \E i \in DOMAIN config.grants : grant'[h].type = GrantTypeOf(config.grants[i])
    <3>1. PICK x : /\ grant' = [grant EXCEPT ![g] = x]
                   /\ \E i \in DOMAIN scfg.grants : x.type = GrantTypeOf(scfg.grants[i])
      BY <2>2, RequestMakes
    <3>2. scfg = config /\ Accepted(scfg.grants)
      BY <1>1, <2>2 DEF HandleCreateGrant, OneConfig, DeploymentTypeOK
    <3>3. grant'[h] = IF h = g THEN x ELSE grant[h]
      BY <3>1 DEF GrantsOnly
    <3> QED BY <1>1, <1>4, <3>1, <3>2, <3>3 DEF OneConfig
  <2> QED BY <2>1, <2>2, GrantMoves
<1>5. ReconciliationInput(config') = ReconciliationInput(config)
  BY <1>1
<1> QED BY <1>1, <1>2, <1>3, <1>4, <1>5 DEF OneConfig

(* Every entry of an accepted configuration is in its store.               *)
LEMMA EntryStored ==
  ASSUME NEW configs, Accepted(configs), NEW i \in DOMAIN configs
  PROVE  GrantTypeOf(configs[i]) \in Range(NewYAMLGrantTypeStore(configs))
<1> DEFINE name  == configs[i].name
           store == NewYAMLGrantTypeStore(configs)
<1>1. name \in DOMAIN store
  BY DEF NewYAMLGrantTypeStore
<1>2. PICK k \in DOMAIN configs : configs[k].name = name /\ store[name] = GrantTypeOf(configs[k])
  BY <1>1, StoreEntry
<1>3. k = i
  BY <1>2 DEF Accepted
<1> QED BY <1>1, <1>2, <1>3 DEF Range

(* What the worker collects from a configuration has the tags and keys of  *)
(* each grant type made from it.                                           *)
LEMMA InputKnows ==
  ASSUME NEW c, Accepted(c.grants), NEW i \in DOMAIN c.grants,
         GrantTypeOf(c.grants[i]).action = "tag"
  PROVE  /\ GrantTypeOf(c.grants[i]).tags \subseteq ReconciliationInput(c).tags
         /\ {pa.key : pa \in GrantTypeOf(c.grants[i]).attrs} \subseteq ReconciliationInput(c).keys
<1> DEFINE store == NewYAMLGrantTypeStore(c.grants)
           gt    == GrantTypeOf(c.grants[i])
<1>1. gt \in Range(store)
  BY EntryStored
<1>2. gt.action = "tag"
  OBVIOUS
<1> HIDE DEF store, gt
<1>3. gt \in TagTypes(store)
  BY <1>1, <1>2 DEF TagTypes
<1>4. gt.tags \subseteq AllGrantTags(store) /\ {pa.key : pa \in gt.attrs} \subseteq AllPostureKeys(store)
  BY <1>3 DEF AllGrantTags, AllPostureKeys
<1> QED BY <1>4 DEF ReconciliationInput, store, gt
(* Both invariants together say what the reconciliation knows.             *)
LEMMA OneConfigSuffices == OneConfig /\ Started => ReconcilerKnows
<1> SUFFICES ASSUME OneConfig, Started, NEW g \in Grants,
                    edits = 0, recon # NoRecon, grant[g] # NoGrant,
                    grant[g].type.action = "tag"
             PROVE  /\ grant[g].type.tags \subseteq recon.tags
                    /\ {pa.key : pa \in grant[g].type.attrs} \subseteq recon.keys
  BY DEF ReconcilerKnows, Started
<1>1. recon = ReconciliationInput(config) /\ Accepted(config.grants)
  BY DEF OneConfig
<1>2. PICK i \in DOMAIN config.grants : grant[g].type = GrantTypeOf(config.grants[i])
  BY DEF OneConfig
<1> QED BY <1>1, <1>2, InputKnows

(* As long as nobody edits the configuration, the reconciliation knows     *)
(* whatever a grant may put on a device, though one process makes grants,  *)
(* another collects the tags, and either may have been started again.      *)
THEOREM ReconcilerInformed == Spec => []ReconcilerKnows
<1>1. Init => GrantsOnly /\ GrantsSound /\ OneConfig /\ Started
  BY DEF Init, GrantsOnly, GrantsSound, OneConfig, Started
<1>2. /\ DeploymentTypeOK /\ (GrantsOnly /\ GrantsSound /\ OneConfig /\ Started)
      /\ [Next]_vars
      => (GrantsOnly /\ GrantsSound /\ OneConfig /\ Started)'
  BY NextSound, NextOneConfig, NextStarted
<1> QED BY <1>1, <1>2, TypeCorrect, OneConfigSuffices, PTL DEF Spec
=============================================================================
