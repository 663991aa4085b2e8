------------------------ MODULE ReconciliationProofs ------------------------
(***************************************************************************)
(* Theorems about the reconciler at work among the tag managers, for every *)
(* value of the constants.                                                 *)
(***************************************************************************)
EXTENDS Reconciliation, FiniteSetTheorems, TagManagerLedgerProofs

-----------------------------------------------------------------------------
(* A device whose workflow is asked about is of interest, so that there is *)
(* something to clean when its manager turns out to be gone.               *)
WorthAsking == rpc \in {"check", "recheck"} => Concerned(snapshot[dev], found)

ReconIInv == TypeOK /\ ReconTypeOK /\ WorthAsking

Places == {"list", "next", "posture", "check", "recheck", "clean", "delete", "query",
           "sync"}

Limit(p) == IF p \in {"clean", "delete"} THEN CleanupAttempts ELSE MaxAttempts

-----------------------------------------------------------------------------
(* How a call ends.                                                        *)

(* A call that is done leaves no failed attempt behind.                    *)
LEMMA DoneType ==
  ASSUME TypeOK, NEW to \in Places, Done(to)
  PROVE  /\ rpc' = to /\ rattempt' = 0
         /\ rattempt' \in 0 .. Limit(rpc') - 1
         /\ faults' = faults /\ faults' \in 0 .. MaxFaults
BY LimitsAssumption, ReconciliationAssumption DEF Done, Limit, TypeOK

(* One that fails is retried under its limit, or given up.                 *)
LEMMA FailsType ==
  ASSUME TypeOK, ReconTypeOK, NEW limit, limit = Limit(rpc), NEW to \in Places,
         Fails(limit, to)
  PROVE  /\ (rpc' = rpc /\ rattempt' # 0) \/ (rpc' = to /\ rattempt' = 0)
         /\ rattempt' \in 0 .. Limit(rpc') - 1
         /\ faults' \in 0 .. MaxFaults
<1>1. faults' \in 0 .. MaxFaults
  BY LimitsAssumption DEF Fails, TypeOK
<1>2. rattempt \in 0 .. Limit(rpc) - 1 /\ limit \in Nat \ {0}
  BY LimitsAssumption, ReconciliationAssumption DEF ReconTypeOK, Limit
<1>3. CASE AttemptsLeft(rattempt, limit)
  BY <1>1, <1>2, <1>3 DEF Fails, AttemptsLeft
<1>4. CASE ~AttemptsLeft(rattempt, limit)
  <2>1. rpc' = to /\ rattempt' = 0
    BY <1>4 DEF Fails
  <2>2. 0 \in 0 .. Limit(rpc') - 1
    BY LimitsAssumption, ReconciliationAssumption DEF Limit
  <2> QED BY <1>1, <2>1, <2>2
<1> QED BY <1>3, <1>4

(* The keys found on a device are grant keys, each once, in some order.    *)
LEMMA FoundType ==
  ASSUME NEW S \in SUBSET GrantKeys, NEW keys \in SetToSeqs(S)
  PROVE  keys \in Seq(GrantKeys)
<1>1. Cardinality(S) \in Nat
  BY ReconciliationAssumption, FS_Subset, FS_CardinalityType
<1>2. keys \in [1 .. Cardinality(S) -> S]
  BY DEF SetToSeqs
<1>3. keys \in [1 .. Cardinality(S) -> GrantKeys]
  BY <1>2
<1> QED BY <1>1, <1>3

-----------------------------------------------------------------------------
(* The managers' types are kept by the reconciler.                         *)
LEMMA ReconcilerType ==
  ASSUME ReconIInv, Reconciler, faults' \in 0 .. MaxFaults
  PROVE  TypeOK'
<1>1. dev \in Nodes /\ TypeOK
  BY DEF ReconIInv, ReconTypeOK
<1>2. ASSUME UNCHANGED << managerVars, syncCh >>,
             tags' \in [Nodes -> SUBSET Tags], posture' \in SUBSET Cells
      PROVE  TypeOK'
  BY <1>1, <1>2 DEF managerVars, grantVars, TypeOK
<1>3. CASE \/ ListDevices \/ NextDevice \/ FindPosture \/ CheckWorkflowExists \/ CheckAgain
           \/ QueryActiveGrants
  <2>1. UNCHANGED << managerVars, syncCh, tags, posture >>
    BY <1>3 DEF ListDevices, NextDevice, FindPosture, CheckWorkflowExists, CheckAgain,
                Check, QueryActiveGrants, deviceVars
  <2> QED BY <1>1, <1>2, <2>1 DEF TypeOK
<1>4. CASE RemoveStaleTags
  <2>1. UNCHANGED << managerVars, syncCh, posture >>
    BY <1>4 DEF RemoveStaleTags
  <2>2. otherTags(snapshot[dev]) \in SUBSET Tags
    BY <1>1 DEF ReconIInv, ReconTypeOK, otherTags
  <2>3. tags' = [tags EXCEPT ![dev] = otherTags(snapshot[dev])] \/ tags' = tags
    BY <1>4 DEF RemoveStaleTags
  <2>4. tags' \in [Nodes -> SUBSET Tags]
    BY <1>1, <2>2, <2>3 DEF TypeOK
  <2> QED BY <1>1, <1>2, <2>1, <2>4 DEF TypeOK
<1>5. CASE RemoveStalePosture
  <2>1. UNCHANGED << managerVars, syncCh, tags >> /\ posture' \subseteq posture
    BY <1>5 DEF RemoveStalePosture
  <2> QED BY <1>1, <1>2, <2>1 DEF TypeOK
<1>6. CASE SignalSync
  <2>1. UNCHANGED << phase, tries, active, addCh, removeCh, signalCount, job, tags, posture,
                     lost, errored, edits, syncs >>
    BY <1>6 DEF SignalSync, grantVars, deviceVars
  <2>2. CASE pc[dev] = "closed"
    BY <1>1, <1>6, <2>1, <2>2 DEF SignalSync, TypeOK
  <2>3. CASE pc[dev] # "closed"
    <3>1. Wake(dev, "wokenSync") /\ syncCh' = [syncCh EXCEPT ![dev] = @ + 1]
      BY <1>6, <2>3 DEF SignalSync, DeliverSync
    <3>2. /\ syncCh' \in [Nodes -> Nat] /\ syncCh'[dev] > 0
          /\ \A m \in Nodes \ {dev} : syncCh'[m] = syncCh[m]
      BY <1>1, <3>1 DEF TypeOK
    <3>3. /\ pc' \in [Nodes -> Idle \cup Calls \cup {"finish"}]
          /\ pc'[dev] = "wokenSync" \/ pc'[dev] = pc[dev]
          /\ \A m \in Nodes \ {dev} : pc'[m] = pc[m]
      BY <1>1, <3>1, WakeType
    <3>4. ASSUME NEW m \in Nodes
          PROVE  /\ pc'[m] = "wokenAdd" => addCh'[m] # <<>>
                 /\ pc'[m] = "wokenRemove" => removeCh'[m] # <<>>
                 /\ pc'[m] = "wokenSync" => syncCh'[m] > 0
      BY <1>1, <2>1, <3>2, <3>3 DEF TypeOK
    <3> QED BY <1>1, <2>1, <3>2, <3>3, <3>4 DEF TypeOK
  <2> QED BY <2>2, <2>3
<1> QED BY <1>3, <1>4, <1>5, <1>6 DEF Reconciler
-----------------------------------------------------------------------------
(* The reconciler's own types.                                             *)

(* Where a call may go on keeps the types of the round, whatever it was.   *)
LEMMA StepType ==
  ASSUME rpc' \in Places, rattempt' \in 0 .. Limit(rpc') - 1,
         snapshot' \in [Nodes -> SUBSET Tags], toDo' \in SUBSET Nodes, dev' \in Nodes,
         found' \in Seq(GrantKeys),
         rpc' = "delete" => found' # <<>>,
         rpc' \in {"check", "recheck"} => Concerned(snapshot'[dev'], found')
  PROVE  ReconTypeOK' /\ WorthAsking'
BY DEF ReconTypeOK, WorthAsking, Places, Limit, Concerned, grantTags

(* Every call of a round keeps its types and uses up no more failures than *)
(* there are.                                                              *)
LEMMA RoundType ==
  ASSUME ReconIInv, Reconciler
  PROVE  ReconTypeOK' /\ WorthAsking' /\ faults' \in 0 .. MaxFaults
<1>1. /\ TypeOK /\ ReconTypeOK /\ WorthAsking
      /\ snapshot \in [Nodes -> SUBSET Tags] /\ toDo \in SUBSET Nodes /\ dev \in Nodes
      /\ found \in Seq(GrantKeys)
      /\ rpc = "delete" => found # <<>>
      /\ rpc \in {"check", "recheck"} => Concerned(snapshot[dev], found)
  BY DEF ReconIInv, ReconTypeOK, WorthAsking
<1>2. <<>> \in Seq(GrantKeys)
  OBVIOUS
<1>3. CASE ListDevices
  <2>1. rpc = "list" /\ UNCHANGED << dev, found >>
    BY <1>3 DEF ListDevices
  <2>2. CASE snapshot' = tags /\ toDo' = Nodes /\ Done("next")
    <3>1. snapshot' \in [Nodes -> SUBSET Tags] /\ "next" \in Places
      BY <1>1, <2>2 DEF TypeOK, Places
    <3> QED BY <1>1, <2>1, <2>2, <3>1, DoneType, StepType
  <2>3. CASE Fails(MaxAttempts, "list") /\ UNCHANGED << snapshot, toDo >>
    <3>1. MaxAttempts = Limit(rpc) /\ "list" \in Places
      BY <2>1 DEF Limit, Places
    <3> QED BY <1>1, <2>1, <2>3, <3>1, FailsType, StepType
  <2> QED BY <1>3, <2>2, <2>3 DEF ListDevices
<1>4. CASE NextDevice
  <2>1. rpc = "next" /\ UNCHANGED snapshot
    BY <1>4 DEF NextDevice
  <2>2. CASE toDo = {} /\ Done("list") /\ UNCHANGED << toDo, dev, found >>
    <3>1. "list" \in Places
      BY DEF Places
    <3> QED BY <1>1, <2>1, <2>2, <3>1, DoneType, StepType
  <2>3. CASE toDo # {} \/ ~Done("list") \/ ~UNCHANGED << toDo, dev, found >>
    <3> DEFINE To(n) == IF GrantKeys # {} THEN "posture"
                        ELSE IF Concerned(snapshot[n], <<>>) THEN "check" ELSE "next"
    <3>1. PICK n \in toDo : dev' = n /\ toDo' = toDo \ {n} /\ found' = <<>> /\ Done(To(n))
      BY <1>4, <2>3 DEF NextDevice
    <3>2. To(n) \in Places /\ (To(n) = "check" => Concerned(snapshot[n], <<>>))
          /\ To(n) # "recheck" /\ To(n) # "delete"
      BY DEF Places
    <3> HIDE DEF To
    <3> QED BY <1>1, <1>2, <2>1, <3>1, <3>2, DoneType, StepType
  <2> QED BY <2>2, <2>3
<1>5. CASE FindPosture
  <2> DEFINE After(keys) == IF Concerned(snapshot[dev], keys) THEN "check" ELSE "next"
  <2>1. rpc = "posture" /\ UNCHANGED << snapshot, toDo, dev >>
    BY <1>5 DEF FindPosture
  <2>2. After(<<>>) = "check" => grantTags(snapshot[dev]) # {}
    BY DEF Concerned
  <2>3. \/ \E keys \in SetToSeqs({k \in GrantKeys : << dev, k >> \in posture}) :
               found' = keys /\ Done(After(keys))
        \/ Fails(MaxAttempts, After(<<>>)) /\ UNCHANGED found
    BY <1>5 DEF FindPosture
  <2> HIDE DEF After
  <2>4. ASSUME NEW keys \in SetToSeqs({k \in GrantKeys : << dev, k >> \in posture}),
               found' = keys, Done(After(keys))
        PROVE  ReconTypeOK' /\ WorthAsking' /\ faults' \in 0 .. MaxFaults
    <3>1. found' \in Seq(GrantKeys)
      BY <2>4, FoundType
    <3> DEFINE to == After(keys)
    <3>2. /\ to \in Places /\ to \notin {"recheck", "delete"} /\ Done(to)
          /\ to = "check" => Concerned(snapshot[dev], found')
      BY <2>4 DEF After, Places
    <3> HIDE DEF to
    <3>3. rpc' = to /\ rattempt' \in 0 .. Limit(rpc') - 1 /\ faults' \in 0 .. MaxFaults
      BY <1>1, <3>2, DoneType
    <3> QED BY <1>1, <2>1, <3>1, <3>2, <3>3, StepType
  <2>5. CASE Fails(MaxAttempts, After(<<>>)) /\ UNCHANGED found
    <3>1. MaxAttempts = Limit(rpc)
      BY <2>1 DEF Limit
    <3>2. After(<<>>) = "check" => Concerned(snapshot[dev], found)
      BY <2>2 DEF Concerned
    <3> DEFINE to == After(<<>>)
    <3>3. to \in Places /\ to \notin {"recheck", "delete"} /\ Fails(MaxAttempts, to)
      BY <2>5 DEF After, Places
    <3> HIDE DEF to
    <3>4. /\ (rpc' = rpc /\ rattempt' # 0) \/ (rpc' = to /\ rattempt' = 0)
          /\ rattempt' \in 0 .. Limit(rpc') - 1 /\ rpc' \in Places
          /\ faults' \in 0 .. MaxFaults
      BY <1>1, <3>1, <3>3, FailsType DEF ReconTypeOK, Places
    <3>5. to = "check" => Concerned(snapshot[dev], found)
      BY <3>2 DEF to
    <3> QED BY <1>1, <2>1, <2>5, <3>3, <3>4, <3>5, StepType
  <2> QED BY <2>3, <2>4, <2>5
<1>6. ASSUME NEW at \in {"check", "recheck", "query"}, rpc = at, NEW to \in Places, UNCHANGED roundVars,
             Done(to) \/ Fails(MaxAttempts, to),
             to = "delete" => found # <<>>,
             to \in {"check", "recheck"} => Concerned(snapshot[dev], found)
      PROVE  ReconTypeOK' /\ WorthAsking' /\ faults' \in 0 .. MaxFaults
  <2>1. UNCHANGED << snapshot, toDo, dev, found >> /\ MaxAttempts = Limit(rpc)
    BY <1>6 DEF roundVars, Limit
  <2>2. CASE Done(to)
    BY <1>1, <1>6, <2>1, <2>2, DoneType, StepType
  <2>3. CASE Fails(MaxAttempts, to)
    <3>1. /\ (rpc' = rpc /\ rattempt' # 0) \/ (rpc' = to /\ rattempt' = 0)
          /\ rattempt' \in 0 .. Limit(rpc') - 1 /\ rpc' \in Places
          /\ faults' \in 0 .. MaxFaults
      BY <1>1, <1>6, <2>1, <2>3, FailsType DEF ReconTypeOK, Places
    <3> QED BY <1>1, <1>6, <2>1, <3>1, StepType
  <2> QED BY <1>6, <2>2, <2>3
<1>7. CASE CheckWorkflowExists
  <2>1. /\ rpc = "check" /\ UNCHANGED roundVars
        /\ \/ Done("query") \/ Done("recheck") \/ Fails(MaxAttempts, "next")
    BY <1>7 DEF CheckWorkflowExists, Check
  <2>2. {"query", "recheck", "next"} \subseteq Places
    BY DEF Places
  <2> QED BY <1>1, <1>6, <2>1, <2>2
<1>8. CASE CheckAgain
  <2> DEFINE clean == IF grantTags(snapshot[dev]) # {} THEN "clean" ELSE "delete"
  <2>1. /\ rpc = "recheck" /\ UNCHANGED roundVars
        /\ \/ Done("next") \/ Done(clean) \/ Fails(MaxAttempts, "next")
    BY <1>8 DEF CheckAgain, Check
  <2>2. /\ clean \in Places /\ "next" \in Places /\ clean \notin {"check", "recheck"}
        /\ clean = "delete" => found # <<>>
    BY <1>1, <2>1 DEF Places, Concerned
  <2> HIDE DEF clean
  <2> QED BY <1>6, <2>1, <2>2
<1>9. CASE QueryActiveGrants
  <2>1. /\ rpc = "query" /\ UNCHANGED roundVars
        /\ \/ Done("sync") \/ Done("next") \/ Fails(MaxAttempts, "sync")
    BY <1>9 DEF QueryActiveGrants
  <2>2. {"sync", "next"} \subseteq Places
    BY DEF Places
  <2> QED BY <1>6, <2>1, <2>2
<1>10. CASE SignalSync
  <2>1. Done("next") /\ UNCHANGED << snapshot, toDo, dev, found >> /\ "next" \in Places
    BY <1>10 DEF SignalSync, roundVars, Places
  <2> QED BY <1>1, <2>1, DoneType, StepType
<1>11. CASE RemoveStaleTags
  <2> DEFINE to == IF found = <<>> THEN "next" ELSE "delete"
  <2>1. /\ rpc = "clean" /\ UNCHANGED << snapshot, toDo, dev, found >>
        /\ Done(to) \/ Fails(CleanupAttempts, to)
    BY <1>11 DEF RemoveStaleTags, roundVars
  <2>2. CleanupAttempts = Limit(rpc) /\ to \in Places
    BY <2>1 DEF Limit, Places
  <2>3. to \notin {"check", "recheck"} /\ (to = "delete" => found # <<>>)
    OBVIOUS
  <2> HIDE DEF to
  <2>4. CASE Done(to)
    BY <1>1, <2>1, <2>2, <2>3, <2>4, DoneType, StepType
  <2>5. CASE Fails(CleanupAttempts, to)
    <3>1. /\ (rpc' = rpc /\ rattempt' # 0) \/ (rpc' = to /\ rattempt' = 0)
          /\ rattempt' \in 0 .. Limit(rpc') - 1 /\ rpc' \in Places
          /\ faults' \in 0 .. MaxFaults
      BY <1>1, <2>2, <2>5, FailsType DEF ReconTypeOK, Places
    <3> QED BY <1>1, <2>1, <2>3, <3>1, StepType
  <2> QED BY <2>1, <2>4, <2>5
<1>12. CASE RemoveStalePosture
  <2> DEFINE to == IF Tail(found) = <<>> THEN "next" ELSE "delete"
  <2>1. /\ rpc = "delete" /\ UNCHANGED << snapshot, toDo, dev >>
        /\ Done(to) \/ Fails(CleanupAttempts, to)
        /\ found' = IF rattempt' = 0 THEN Tail(found) ELSE found
    BY <1>12 DEF RemoveStalePosture
  <2>2. CleanupAttempts = Limit(rpc) /\ to \in Places
    BY <2>1 DEF Limit, Places
  <2>3. to \notin {"check", "recheck"} /\ (to = "delete" => Tail(found) # <<>>)
    OBVIOUS
  <2>4. Tail(found) \in Seq(GrantKeys)
    BY <1>1, <2>1
  <2> HIDE DEF to
  <2>5. CASE Done(to)
    BY <1>1, <2>1, <2>2, <2>3, <2>4, <2>5, DoneType, StepType
  <2>6. CASE Fails(CleanupAttempts, to)
    <3>1. /\ (rpc' = rpc /\ rattempt' # 0) \/ (rpc' = to /\ rattempt' = 0)
          /\ rattempt' \in 0 .. Limit(rpc') - 1 /\ rpc' \in Places
          /\ faults' \in 0 .. MaxFaults
      BY <1>1, <2>2, <2>6, FailsType DEF ReconTypeOK, Places
    <3>2. found' \in Seq(GrantKeys) /\ (rpc' = "delete" => found' # <<>>)
      BY <1>1, <2>1, <2>3, <2>4, <3>1
    <3> QED BY <1>1, <2>1, <2>3, <3>1, <3>2, StepType
  <2> QED BY <2>1, <2>5, <2>6
<1> QED BY <1>3, <1>4, <1>5, <1>7, <1>8, <1>9, <1>10, <1>11, <1>12 DEF Reconciler

(* The types of the managers and of the reconciler are kept by every step. *)
LEMMA ReconNextType ==
  ASSUME ReconIInv, [ReconNext]_reconVars
  PROVE  ReconIInv'
<1>1. CASE Reconciler
  BY <1>1, ReconcilerType, RoundType DEF ReconIInv
<1>2. CASE [Next]_vars /\ UNCHANGED << rpc, roundVars, rattempt >>
  <2>1. UNCHANGED << rpc, snapshot, toDo, dev, found, rattempt >>
    BY <1>2 DEF roundVars
  <2>2. TypeOK'
    BY <1>2, NextType DEF ReconIInv
  <2> QED BY <2>1, <2>2 DEF ReconIInv, ReconTypeOK, WorthAsking
<1> QED BY <1>1, <1>2 DEF ReconNext, reconVars

(* The initial state has the right types.                                  *)
LEMMA ReconInitType == ReconInit => ReconIInv
<1> SUFFICES ASSUME ReconInit
             PROVE  ReconIInv
  OBVIOUS
<1>1. TypeOK
  BY InitType DEF ReconInit
<1>2. ReconTypeOK /\ WorthAsking
  BY LimitsAssumption DEF ReconInit, ReconTypeOK, WorthAsking
<1> QED BY <1>1, <1>2 DEF ReconIInv

(* So they always hold.                                                    *)
LEMMA ReconInvariant == ReconSpec => []ReconIInv
BY ReconInitType, ReconNextType, PTL DEF ReconSpec

(* The types and retry limits of managers and reconciler always hold, and  *)
(* the clean-up of attributes is only entered with something to delete.    *)
THEOREM ReconTypeCorrect == ReconSpec => [](TypeOK /\ ReconTypeOK)
<1>1. ReconIInv => TypeOK /\ ReconTypeOK
  BY DEF ReconIInv
<1> QED BY <1>1, ReconInvariant, PTL
-----------------------------------------------------------------------------
(* The managers among themselves do not notice the reconciler: it asks     *)
(* them to sync, and touches neither ledgers nor grants.                   *)

(* A call of the reconciler sends nothing that a ledger is made from.      *)
LEMMA ReconcilerSends ==
  ASSUME ReconIInv, Reconciler
  PROVE  /\ SendsNothing
         /\ phase' = phase /\ job' = job /\ edits' = edits /\ errored' = errored
<1>1. dev \in Nodes /\ pc \in [Nodes -> Idle \cup Calls \cup {"finish"}]
  BY DEF ReconIInv, ReconTypeOK, TypeOK
<1>2. CASE SignalSync
  BY <1>1, <1>2 DEF SignalSync, DeliverSync, Wake, SendsNothing, grantVars
<1>3. CASE ~SignalSync
  BY <1>3 DEF Reconciler, ListDevices, NextDevice, FindPosture, CheckWorkflowExists,
              CheckAgain, Check, RemoveStaleTags, RemoveStalePosture, QueryActiveGrants,
              managerVars, grantVars, SendsNothing
<1> QED BY <1>2, <1>3

(* Writes on their way out agree with the ledger, and signals are in       *)
(* order, beside the reconciler too.                                       *)
LEMMA ReconManagers == ReconSpec => [](PendingWrites /\ Signals)
<1>1. ReconInit => PendingWrites /\ Signals
  BY InitPending, InitSignals DEF ReconInit
<1>2. ReconIInv /\ PendingWrites /\ Signals /\ [ReconNext]_reconVars => (PendingWrites /\ Signals)'
  <2> SUFFICES ASSUME ReconIInv, PendingWrites, Signals, [ReconNext]_reconVars
               PROVE  PendingWrites' /\ Signals'
    OBVIOUS
  <2>1. TypeOK
    BY DEF ReconIInv
  <2>2. CASE Reconciler
    <3>1. SendsNothing /\ job' = job
      BY <2>2, ReconcilerSends
    <3>2. Signals'
      BY <2>1, <3>1, NothingSent
    <3>3. ASSUME NEW n \in Nodes
          PROVE  PendingWrite(n)'
      BY <3>1, PendingKept DEF SendsNothing, PendingWrites, Calls
    <3> QED BY <3>2, <3>3 DEF PendingWrites
  <2>3. CASE [Next]_vars
    BY <2>1, <2>3, NextPending, NextSignals
  <2> QED BY <2>2, <2>3 DEF ReconNext, reconVars
<1> QED BY <1>1, <1>2, ReconInvariant, PTL DEF ReconSpec

(* Signals are mislaid, and grants come back, no more with a reconciler    *)
(* than without one.                                                       *)
THEOREM ReconNothingMislaid == ReconSpec => [](Custody /\ NoLeak)
<1>1. ReconInit => Custody /\ NoLeak
  BY DEF ReconInit, Init, Custody, NoLeak
<1>2. /\ ReconIInv /\ (PendingWrites /\ Signals) /\ (Custody /\ NoLeak)
      /\ [ReconNext]_reconVars
      => (Custody /\ NoLeak)'
  <2> SUFFICES ASSUME ReconIInv, Signals, Custody, NoLeak, [ReconNext]_reconVars,
                      NEW g \in Grants
               PROVE  Kept(g)'
    BY DEF Custody, NoLeak, Kept, Known, Recall
  <2>1. Kept(g)
    BY KeptSuffices
  <2>2. CASE Reconciler
    <3>1. SendsNothing
      BY <2>2, ReconcilerSends
    <3> QED BY <2>1, <3>1 DEF SendsNothing, Kept, Known, Recall
  <2>3. CASE [Next]_vars
    BY <2>1, <2>3, NextKept DEF ReconIInv
  <2> QED BY <2>2, <2>3 DEF ReconNext, reconVars
<1> QED BY <1>1, <1>2, ReconInvariant, ReconManagers, PTL DEF ReconSpec

-----------------------------------------------------------------------------
(* What is no grant's stays on a device.                                   *)

(* Until somebody edits a device, its own tags are on it, in what is about *)
(* to be set on it, and in the reconciler's list; and managers only strip  *)
(* tags that grants are made of.                                           *)
AsAtFirst(n, ts) == OwnTags(ts) = OwnTags(BaseTags[n])

OwnKept(n) ==
  /\ job[n].removed \subseteq TagsOf(Assets, Grants)
  /\ edits = 0 =>
       /\ AsAtFirst(n, tags[n])
       /\ pc[n] = "setTags" => AsAtFirst(n, job[n].desired)
       /\ rpc # "list" => AsAtFirst(n, snapshot[n])

OwnKeptAlways == \A n \in Nodes : OwnKept(n)

(* What some grants ask for is among what all do.                          *)
LEMMA ClaimsAmong ==
  ASSUME NEW S, S \subseteq Grants
  PROVE  TagsOf(Assets, S) \subseteq TagsOf(Assets, Grants)
BY DEF TagsOf

(* Every step of managers, grants and people keeps a device's own tags.    *)
LEMMA NextOwn ==
  ASSUME TypeOK, OwnKeptAlways, [Next]_vars, UNCHANGED << rpc, snapshot >>, NEW n \in Nodes
  PROVE  OwnKept(n)'
<1>1. OwnKept(n) /\ edits \in 0 .. MaxEdits
  BY DEF OwnKeptAlways, TypeOK
<1>2. CASE Environment
  <2>1. pc'[n] = "setTags" => pc[n] = "setTags"
    BY <1>2, EnvironmentWakes DEF Idle
  <2>2. job' = job
    BY <1>2 DEF Environment, StartAdding, SendAdd, SendAddFails, SendRemove, SendSync, AdminEdit
  <2>3. edits' # 0 \/ (tags' = tags /\ edits' = edits)
    BY <1>2, EnvironmentTags
  <2> QED BY <1>1, <2>1, <2>2, <2>3 DEF OwnKept, AsAtFirst
<1>3. ASSUME NEW m \in Nodes, Manager(m)
      PROVE  OwnKept(n)'
  <2>1. edits' = edits
    BY <1>3, ManagerTags
  <2>2. CASE m # n
    <3>1. pc'[n] = pc[n] /\ job'[n] = job[n] /\ tags'[n] = tags[n]
      BY <1>3, <2>2, OthersKept, ManagerTags
    <3> QED BY <1>1, <2>1, <3>1 DEF OwnKept, AsAtFirst
  <2>3. CASE m = n
    <3> DEFINE desired == computeDesiredTags(tags[n], Claimed(n), job[n].removed)
    <3>1. /\ tags'[n] = tags[n] \/ (pc[n] = "setTags" /\ tags'[n] = job[n].desired)
          /\ pc'[n] = "setTags" =>
               \/ pc[n] = "setTags" /\ job'[n].desired = job[n].desired
               \/ job'[n].desired = desired
          /\ job'[n].removed \in {job[n].removed, {}} \cup {Assets[g].tags : g \in Grants}
      BY <1>3, <2>3, TagsInHand
    <3>2. OwnTags(desired) = OwnTags(tags[n])
      <4>1. Claimed(n) \subseteq TagsOf(Assets, Grants)
        BY ClaimsAmong DEF Claimed, TypeOK
      <4> QED BY <1>1, <4>1 DEF OwnKept, OwnTags, otherTags, computeDesiredTags
    <3>3. job'[n].removed \subseteq TagsOf(Assets, Grants)
      BY <1>1, <3>1 DEF OwnKept, TagsOf
    <3> HIDE DEF desired
    <3> QED BY <1>1, <2>1, <3>1, <3>2, <3>3 DEF OwnKept, AsAtFirst
  <2> QED BY <2>2, <2>3
<1>4. CASE UNCHANGED vars
  BY <1>1, <1>4 DEF vars, deviceVars, budgets, OwnKept, AsAtFirst
<1> QED BY <1>2, <1>3, <1>4 DEF Next

(* So does every call of the reconciler, which lists devices before it     *)
(* writes what else was on them.                                           *)
LEMMA ReconcilerOwn ==
  ASSUME ReconIInv, OwnKeptAlways, Reconciler, NEW n \in Nodes
  PROVE  OwnKept(n)'
<1>1. OwnKept(n) /\ OwnKept(dev) /\ dev \in Nodes /\ tags \in [Nodes -> SUBSET Tags]
  BY DEF OwnKeptAlways, ReconIInv, ReconTypeOK, TypeOK
<1>2. /\ job' = job /\ edits' = edits
      /\ pc'[n] = "setTags" => pc[n] = "setTags"
  BY ReconcilerSends DEF SendsNothing
<1>3. ASSUME AsAtFirst(n, tags[n]) => AsAtFirst(n, tags'[n]) \/ edits # 0,
             \/ rpc # "list" /\ snapshot' = snapshot
             \/ rpc' = "list" \/ snapshot'[n] = tags[n]
      PROVE  OwnKept(n)'
  BY <1>1, <1>2, <1>3 DEF OwnKept, AsAtFirst
<1>4. CASE ListDevices
  <2>1. tags' = tags /\ (snapshot' = tags \/ rpc' = "list")
    BY <1>4 DEF ListDevices, Done, Fails, deviceVars
  <2> QED BY <1>3, <2>1
<1>5. CASE \/ NextDevice \/ FindPosture \/ CheckWorkflowExists \/ CheckAgain
           \/ RemoveStalePosture \/ QueryActiveGrants \/ SignalSync
  <2>1. rpc # "list" /\ snapshot' = snapshot /\ tags' = tags
    BY <1>5 DEF NextDevice, FindPosture, CheckWorkflowExists, CheckAgain, Check,
                RemoveStalePosture, QueryActiveGrants, SignalSync, roundVars, deviceVars
  <2> QED BY <1>3, <2>1
<1>6. CASE RemoveStaleTags
  <2>1. rpc = "clean" /\ snapshot' = snapshot
    BY <1>6 DEF RemoveStaleTags, roundVars
  <2>2. tags' = tags \/ tags' = [tags EXCEPT ![dev] = otherTags(snapshot[dev])]
    BY <1>6 DEF RemoveStaleTags
  <2>3. tags'[n] = tags[n] \/ (n = dev /\ tags'[n] = otherTags(snapshot[n]))
    BY <1>1, <2>2
  <2>4. edits = 0 => AsAtFirst(n, otherTags(snapshot[n]))
    BY <1>1, <2>1 DEF OwnKept, AsAtFirst, OwnTags, otherTags
  <2> QED BY <1>3, <2>1, <2>3, <2>4
<1> QED BY <1>4, <1>5, <1>6 DEF Reconciler

(* However old its list of devices is, whatever it repeats and whatever    *)
(* managers do meanwhile, the reconciler leaves the tags alone that are no *)
(* grant's, until somebody edits a device.                                 *)
THEOREM OwnTagsStay == ReconSpec => []OtherTagsKept
<1>1. ReconInit => OwnKeptAlways
  BY DEF ReconInit, Init, OwnKeptAlways, OwnKept, AsAtFirst, NoJob, NewJob
<1>2. ReconIInv /\ OwnKeptAlways /\ [ReconNext]_reconVars => OwnKeptAlways'
  <2> SUFFICES ASSUME ReconIInv, OwnKeptAlways, [ReconNext]_reconVars, NEW n \in Nodes
               PROVE  OwnKept(n)'
    BY DEF OwnKeptAlways
  <2>1. CASE Reconciler
    BY <2>1, ReconcilerOwn
  <2>2. CASE [Next]_vars /\ UNCHANGED << rpc, roundVars, rattempt >>
    BY <2>2, NextOwn DEF ReconIInv, roundVars
  <2> QED BY <2>1, <2>2 DEF ReconNext, reconVars
<1>3. OwnKeptAlways => OtherTagsKept
  BY DEF OwnKeptAlways, OwnKept, AsAtFirst, OtherTagsKept
<1> QED BY <1>1, <1>2, <1>3, ReconInvariant, PTL DEF ReconSpec

(* A step that moves a manager takes away nothing that its ledger claims,  *)
(* with a reconciler at work as without one.                               *)
THEOREM ReconSharingIsSafe == ReconSpec => ClaimedNeverStripped
<1> DEFINE Safe == \A n \in Nodes :
                     Moves(n) =>
                       /\ (tags[n] \ tags'[n]) \cap Claimed(n) = {}
                       /\ (posture \ posture') \cap Expected(n) = {}
<1>1. ReconIInv /\ (PendingWrites /\ Signals) /\ [ReconNext]_reconVars => [Safe]_vars
  <2> SUFFICES ASSUME ReconIInv, PendingWrites, [ReconNext]_reconVars, ~UNCHANGED vars,
                      NEW n \in Nodes, Moves(n)
               PROVE  /\ (tags[n] \ tags'[n]) \cap Claimed(n) = {}
                      /\ (posture \ posture') \cap Expected(n) = {}
    OBVIOUS
  <2>1. CASE Next
    BY <2>1, NextStrips DEF ReconIInv
  <2>2. CASE Reconciler
    <3>1. CASE SignalSync
      BY <3>1 DEF SignalSync, deviceVars
    <3>2. CASE ~SignalSync
      <4>1. UNCHANGED << pc, job >>
        BY <2>2, <3>2 DEF Reconciler, ListDevices, NextDevice, FindPosture,
                          CheckWorkflowExists, CheckAgain, Check, RemoveStaleTags,
                          RemoveStalePosture, QueryActiveGrants, managerVars
      <4> QED BY <4>1 DEF Moves
    <3> QED BY <3>1, <3>2
  <2> QED BY <2>1, <2>2 DEF ReconNext, reconVars
<1> QED BY <1>1, ReconInvariant, ReconManagers, PTL DEF ReconSpec, ClaimedNeverStripped
=============================================================================
