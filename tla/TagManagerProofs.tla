-------------------------- MODULE TagManagerProofs --------------------------
(***************************************************************************)
(* Theorems about TagManager, for every value of its constants.            *)
(***************************************************************************)
EXTENDS TagManager, SequenceTheorems, TLAPS

-----------------------------------------------------------------------------
(* Facts about the operators.                                              *)

(* What a set of grants asks for is made of tags.                          *)
LEMMA TagsOfType ==
  ASSUME NEW S, S \subseteq Grants
  PROVE  TagsOf(Assets, S) \subseteq Tags
BY AssetsAssumption DEF TagsOf, GrantAssets

(* The attributes a grant names that have a device are cells.              *)
LEMMA CellsOfType ==
  ASSUME NEW n \in Nodes, NEW a \in GrantAssets(Tags, Keys, Nodes)
  PROVE  Reachable(CellsOf(n, a)) \subseteq Cells
BY DEF Reachable, CellsOf, Cells, GrantAssets, resolvePostureTarget

(* So do the cells claimed by a set of grants of one device.               *)
LEMMA ClaimedCellsType ==
  ASSUME NEW n \in Nodes, NEW S, S \subseteq Grants
  PROVE  Reachable(ClaimedCells(n, Assets, S)) \subseteq Cells
<1>1. ASSUME NEW c \in Reachable(ClaimedCells(n, Assets, S))
      PROVE  c \in Cells
  <2>1. PICK g \in S : c \in CellsOf(n, Assets[g])
    BY <1>1 DEF Reachable, ClaimedCells
  <2>2. c \in Reachable(CellsOf(n, Assets[g]))
    BY <1>1, <2>1 DEF Reachable
  <2>3. Assets[g] \in GrantAssets(Tags, Keys, Nodes)
    BY AssetsAssumption
  <2> QED BY <2>2, <2>3, CellsOfType
<1> QED BY <1>1

(* The zero value of the ledger is a grant's assets like any other.        *)
LEMMA ZeroAssetsType == ZeroAssets \in GrantAssets(Tags, Keys, Nodes)
BY DEF ZeroAssets, GrantAssets

(* A job starts without a call in progress.                                *)
LEMMA NewJobType ==
  ASSUME NEW kind \in {"none", "add", "remove", "sync"}, NEW removed \in SUBSET Tags,
         NEW todo \in SUBSET Cells
  PROVE  NewJob(kind, removed, todo) \in Jobs
<1>1. 0 \in 0 .. MaxAttempts - 1
  BY LimitsAssumption
<1> QED BY <1>1 DEF NewJob, Jobs

-----------------------------------------------------------------------------
(* Type correctness, one lemma for each group of actions.                  *)

(* The initial state has the right types.                                  *)
LEMMA InitType == Init => TypeOK
<1>1. NoJob \in Jobs
  BY NewJobType DEF NoJob
<1> QED BY <1>1, AssetsAssumption, LimitsAssumption DEF Init, TypeOK, Phases, Idle

(* A delivered add-grant, and a wake-up, keep the managers in order.       *)
LEMMA DeliverAddType ==
  ASSUME TypeOK, NEW g \in Grants, DeliverAdd(g)
  PROVE  /\ addCh' \in [Nodes -> Seq(Grants)]
         /\ pc' \in [Nodes -> Idle \cup Calls \cup {"finish"}]
         /\ \A n \in Nodes :
              /\ pc'[n] = "wokenAdd" => addCh'[n] # <<>>
              /\ pc'[n] = "wokenRemove" => removeCh[n] # <<>>
              /\ pc'[n] = "wokenSync" => syncCh[n] > 0
<1> DEFINE n == Target[g]
<1>1. n \in Nodes
  BY AssetsAssumption
<1>2. /\ addCh' = [addCh EXCEPT ![n] = Append(@, g)]
      /\ pc' = [pc EXCEPT ![n] = CASE @ = "closed"  -> "select"
                                   [] @ = "blocked" -> "wokenAdd"
                                   [] OTHER         -> @]
  BY DEF DeliverAdd
<1> HIDE DEF n
<1>3. Append(addCh[n], g) \in Seq(Grants) /\ Append(addCh[n], g) # <<>>
  <2>1. addCh[n] \in Seq(Grants)
    BY <1>1 DEF TypeOK
  <2> QED BY <2>1, AppendProperties
<1>4. /\ addCh' \in [Nodes -> Seq(Grants)]
      /\ addCh'[n] # <<>>
      /\ \A m \in Nodes \ {n} : addCh'[m] = addCh[m] /\ pc'[m] = pc[m]
  BY <1>1, <1>2, <1>3 DEF TypeOK
<1>5. \/ pc[n] = "closed" /\ pc'[n] = "select"
      \/ pc[n] = "blocked" /\ pc'[n] = "wokenAdd"
      \/ pc'[n] = pc[n]
  BY <1>1, <1>2 DEF TypeOK
<1>6. pc' \in [Nodes -> Idle \cup Calls \cup {"finish"}]
  <2>1. pc'[n] \in Idle \cup Calls \cup {"finish"}
    BY <1>1, <1>5 DEF TypeOK, Idle
  <2> QED BY <1>1, <1>2, <2>1 DEF TypeOK
<1> QED BY <1>1, <1>4, <1>5, <1>6 DEF TypeOK

(* A wake-up leaves every manager at a known place.                        *)
LEMMA WakeType ==
  ASSUME TypeOK, NEW n \in Nodes, NEW woken \in {"wokenRemove", "wokenSync"},
         Wake(n, woken)
  PROVE  /\ pc' \in [Nodes -> Idle \cup Calls \cup {"finish"}]
         /\ pc'[n] = woken \/ pc'[n] = pc[n]
         /\ \A m \in Nodes \ {n} : pc'[m] = pc[m]
BY DEF Wake, TypeOK, Idle

(* Signals and edits keep the types.                                       *)
LEMMA EnvironmentType ==
  ASSUME TypeOK, Environment
  PROVE  TypeOK'
<1>1. ASSUME NEW g \in Grants, StartAdding(g)
      PROVE  TypeOK'
  BY <1>1 DEF StartAdding, TypeOK, Phases, channels, deviceVars, budgets
<1>2. ASSUME NEW g \in Grants, SendAdd(g)
      PROVE  TypeOK'
  <2>1. phase' \in [Grants -> Phases]
    BY <1>2 DEF SendAdd, TypeOK, Phases
  <2>2. tries' \in [Grants -> 0 .. MaxAttempts - 1]
    BY <1>2, LimitsAssumption DEF SendAdd, TypeOK
  <2> QED
    BY <1>2, <2>1, <2>2, DeliverAddType DEF SendAdd, TypeOK, deviceVars, budgets
<1>3. ASSUME NEW g \in Grants, SendAddFails(g)
      PROVE  TypeOK'
  <2>1. phase' \in [Grants -> Phases]
    BY <1>3 DEF SendAddFails, TypeOK, Phases
  <2>2. tries' \in [Grants -> 0 .. MaxAttempts - 1]
    <3>1. tries \in [Grants -> 0 .. MaxAttempts - 1] /\ MaxAttempts \in Nat
      BY LimitsAssumption DEF TypeOK
    <3>2. CASE RetriesLeft(tries[g])
      <4>1. tries' = [tries EXCEPT ![g] = @ + 1]
        BY <1>3, <3>2 DEF SendAddFails
      <4>2. tries[g] + 1 \in 0 .. MaxAttempts - 1
        BY <3>1, <3>2 DEF RetriesLeft
      <4> QED BY <3>1, <4>1, <4>2
    <3>3. CASE ~RetriesLeft(tries[g])
      BY <1>3, <3>1, <3>3 DEF SendAddFails
    <3> QED BY <3>2, <3>3
  <2>3. faults' \in 0 .. MaxFaults
    BY <1>3, LimitsAssumption DEF SendAddFails, TypeOK
  <2>4. UNCHANGED << active, removeCh, syncCh, signalCount, job, tags, posture,
                     lost, errored, edits, syncs >>
    BY <1>3 DEF SendAddFails, deviceVars
  <2>5. CASE DeliverAdd(g)
    BY <2>1, <2>2, <2>3, <2>4, <2>5, DeliverAddType DEF TypeOK
  <2>6. CASE UNCHANGED << addCh, pc >>
    BY <2>1, <2>2, <2>3, <2>4, <2>6 DEF TypeOK
  <2> QED BY <1>3, <2>5, <2>6 DEF SendAddFails
<1>4. ASSUME NEW g \in Grants, SendRemove(g)
      PROVE  TypeOK'
  <2> DEFINE n == Target[g]
  <2>1. n \in Nodes
    BY AssetsAssumption
  <2>2. phase' \in [Grants -> Phases]
    BY <1>4 DEF SendRemove, TypeOK, Phases
  <2>3. UNCHANGED << tries, active, addCh, syncCh, signalCount, job, tags, posture,
                     lost, errored, faults, edits, syncs >>
    BY <1>4 DEF SendRemove, deviceVars, budgets
  <2>4. CASE pc[n] = "closed"
    <3>1. UNCHANGED << removeCh, pc >>
      BY <1>4, <2>4 DEF SendRemove
    <3> QED BY <2>2, <2>3, <3>1 DEF TypeOK
  <2>5. CASE pc[n] # "closed"
    <3>1. removeCh' = [removeCh EXCEPT ![n] = Append(@, g)] /\ Wake(n, "wokenRemove")
      BY <1>4, <2>5 DEF SendRemove
    <3> HIDE DEF n
    <3>2. Append(removeCh[n], g) \in Seq(Grants) /\ Append(removeCh[n], g) # <<>>
      <4>1. removeCh[n] \in Seq(Grants)
        BY <2>1 DEF TypeOK
      <4> QED BY <4>1, AppendProperties
    <3>3. /\ removeCh' \in [Nodes -> Seq(Grants)]
          /\ removeCh'[n] # <<>>
          /\ \A m \in Nodes \ {n} : removeCh'[m] = removeCh[m]
      BY <2>1, <3>1, <3>2 DEF TypeOK
    <3>4. /\ pc' \in [Nodes -> Idle \cup Calls \cup {"finish"}]
          /\ pc'[n] = "wokenRemove" \/ pc'[n] = pc[n]
          /\ \A m \in Nodes \ {n} : pc'[m] = pc[m]
      BY <2>1, <3>1, WakeType
    <3>5. ASSUME NEW m \in Nodes
          PROVE  /\ pc'[m] = "wokenAdd" => addCh'[m] # <<>>
                 /\ pc'[m] = "wokenRemove" => removeCh'[m] # <<>>
                 /\ pc'[m] = "wokenSync" => syncCh'[m] > 0
      BY <2>3, <3>3, <3>4 DEF TypeOK
    <3> QED BY <2>2, <2>3, <3>3, <3>4, <3>5 DEF TypeOK
  <2> QED BY <2>4, <2>5
<1>5. ASSUME NEW n \in Nodes, SendSync(n)
      PROVE  TypeOK'
  <2>1. /\ syncCh' \in [Nodes -> Nat]
        /\ syncCh'[n] > 0
        /\ \A m \in Nodes \ {n} : syncCh'[m] = syncCh[m]
    BY <1>5 DEF SendSync, DeliverSync, TypeOK
  <2>2. syncs' \in 0 .. MaxSyncs
    BY <1>5, LimitsAssumption DEF SendSync, TypeOK
  <2>3. UNCHANGED << phase, tries, active, addCh, removeCh, signalCount, job, tags,
                     posture, lost, errored, faults, edits >>
    BY <1>5 DEF SendSync, grantVars, deviceVars
  <2>4. Wake(n, "wokenSync")
    BY <1>5 DEF SendSync, DeliverSync
  <2>5. /\ pc' \in [Nodes -> Idle \cup Calls \cup {"finish"}]
        /\ pc'[n] = "wokenSync" \/ pc'[n] = pc[n]
        /\ \A m \in Nodes \ {n} : pc'[m] = pc[m]
    BY <2>4, WakeType
  <2>6. ASSUME NEW m \in Nodes
        PROVE  /\ pc'[m] = "wokenAdd" => addCh'[m] # <<>>
               /\ pc'[m] = "wokenRemove" => removeCh'[m] # <<>>
               /\ pc'[m] = "wokenSync" => syncCh'[m] > 0
    BY <2>1, <2>3, <2>5 DEF TypeOK
  <2> QED BY <2>1, <2>2, <2>3, <2>5, <2>6 DEF TypeOK
<1>6. ASSUME NEW n \in Nodes, AdminEdit(n)
      PROVE  TypeOK'
  <2>1. edits' \in 0 .. MaxEdits
    BY <1>6, LimitsAssumption DEF AdminEdit, TypeOK
  <2>2. tags' \in [Nodes -> SUBSET Tags] /\ posture' \in SUBSET Cells
    <3>1. tags \in [Nodes -> SUBSET Tags] /\ posture \in SUBSET (Nodes \X Keys)
      BY DEF TypeOK, Cells
    <3>2. ASSUME NEW t \in Tags, UNCHANGED posture,
                 tags' = [tags EXCEPT ![n] = IF t \in @ THEN @ \ {t} ELSE @ \cup {t}]
          PROVE  tags' \in [Nodes -> SUBSET Tags] /\ posture' \in SUBSET (Nodes \X Keys)
      BY <3>1, <3>2
    <3>3. ASSUME NEW k \in Keys, UNCHANGED tags,
                 posture' = IF <<n, k>> \in posture THEN posture \ {<<n, k>>}
                                                    ELSE posture \cup {<<n, k>>}
          PROVE  tags' \in [Nodes -> SUBSET Tags] /\ posture' \in SUBSET (Nodes \X Keys)
      BY <3>1, <3>3
    <3> QED BY <1>6, <3>2, <3>3 DEF AdminEdit, Cells
  <2> QED BY <1>6, <2>1, <2>2 DEF AdminEdit, TypeOK, grantVars, channels
<1> QED BY <1>1, <1>2, <1>3, <1>4, <1>5, <1>6 DEF Environment

(* A handler starts with a job and a ledger of the right types.            *)
LEMMA HandleType ==
  ASSUME TypeOK, NEW n \in Nodes, NEW kind \in {"add", "remove", "sync"},
         NEW grants \in SUBSET Grants, NEW removed \in SUBSET Tags,
         NEW todo, Reachable(todo) \subseteq Cells,
         Handle(n, kind, grants, removed, todo)
  PROVE  /\ active' \in [Nodes -> SUBSET Grants]
         /\ signalCount' \in [Nodes -> Nat]
         /\ job' \in [Nodes -> Jobs]
         /\ pc' \in [Nodes -> Idle \cup Calls \cup {"finish"}]
         /\ pc'[n] \notin Idle
         /\ \A m \in Nodes \ {n} : pc'[m] = pc[m]
<1> DEFINE j == NewJob(kind, removed, Reachable(todo))
<1>1. j \in Jobs
  BY NewJobType
<1>2. AfterTags(j) \in Calls \cup {"finish"}
  BY DEF AfterTags, Calls
<1> QED BY <1>1, <1>2 DEF Handle, TypeOK, Idle, Calls

(* Every case of the selector keeps the types.                             *)
LEMMA SelectType ==
  ASSUME TypeOK, NEW n \in Nodes,
         SelectAdd(n) \/ SelectRemove(n) \/ SelectSync(n)
  PROVE  TypeOK'
<1>1. CASE SelectAdd(n)
  <2> DEFINE g == Head(addCh[n])
  <2>1. addCh[n] # <<>> /\ g \in Grants
    BY <1>1 DEF SelectAdd, AddReady, TypeOK
  <2>2. Reachable(CellsOf(n, Assets[g])) \subseteq Cells
    BY <2>1, CellsOfType, AssetsAssumption
  <2>3. Handle(n, "add", active[n] \cup {g}, {}, CellsOf(n, Assets[g]))
    BY <1>1 DEF SelectAdd
  <2>4. active[n] \cup {g} \in SUBSET Grants
    BY <2>1 DEF TypeOK
  <2> HIDE DEF g
  <2>5. addCh' \in [Nodes -> Seq(Grants)] /\ \A m \in Nodes \ {n} : addCh'[m] = addCh[m]
    BY <1>1, <2>1 DEF SelectAdd, TypeOK
  <2>6. /\ active' \in [Nodes -> SUBSET Grants]
        /\ signalCount' \in [Nodes -> Nat]
        /\ job' \in [Nodes -> Jobs]
        /\ pc' \in [Nodes -> Idle \cup Calls \cup {"finish"}]
        /\ pc'[n] \notin Idle
        /\ \A m \in Nodes \ {n} : pc'[m] = pc[m]
    BY <2>2, <2>3, <2>4, HandleType
  <2>7. UNCHANGED << phase, tries, removeCh, syncCh, tags, posture, lost, errored,
                     faults, edits, syncs >>
    BY <1>1 DEF SelectAdd, Handle, grantVars, deviceVars, budgets
  <2> QED BY <2>5, <2>6, <2>7 DEF TypeOK, Idle
<1>2. CASE SelectRemove(n)
  <2> DEFINE g    == Head(removeCh[n])
             a    == IF g \in active[n] THEN Assets[g] ELSE ZeroAssets
             rest == active[n] \ {g}
             todo == orphanedPostureAttributes(n, a, ClaimedCells(n, Assets, rest))
  <2>1. removeCh[n] # <<>> /\ g \in Grants
    BY <1>2 DEF SelectRemove, RemoveReady, TypeOK
  <2>2. a \in GrantAssets(Tags, Keys, Nodes)
    BY <2>1, ZeroAssetsType, AssetsAssumption
  <2>3. Reachable(todo) \subseteq Cells
    BY <2>2, CellsOfType DEF orphanedPostureAttributes, Reachable
  <2>4. Handle(n, "remove", rest, a.tags, todo)
    BY <1>2 DEF SelectRemove
  <2>5. rest \in SUBSET Grants /\ a.tags \in SUBSET Tags
    BY <2>2 DEF TypeOK, GrantAssets
  <2>6. removeCh' \in [Nodes -> Seq(Grants)] /\ \A m \in Nodes \ {n} : removeCh'[m] = removeCh[m]
    BY <1>2, <2>1 DEF SelectRemove, TypeOK
  <2> HIDE DEF g, a, rest, todo
  <2>7. /\ active' \in [Nodes -> SUBSET Grants]
        /\ signalCount' \in [Nodes -> Nat]
        /\ job' \in [Nodes -> Jobs]
        /\ pc' \in [Nodes -> Idle \cup Calls \cup {"finish"}]
        /\ pc'[n] \notin Idle
        /\ \A m \in Nodes \ {n} : pc'[m] = pc[m]
    BY <2>3, <2>4, <2>5, HandleType
  <2>8. UNCHANGED << phase, tries, addCh, syncCh, tags, posture, lost, errored,
                     faults, edits, syncs >>
    BY <1>2 DEF SelectRemove, Handle, grantVars, deviceVars, budgets
  <2> QED BY <2>6, <2>7, <2>8 DEF TypeOK, Idle
<1>3. CASE SelectSync(n)
  <2>1. Reachable(Expected(n)) \subseteq Cells
    BY ClaimedCellsType DEF Expected, TypeOK
  <2>2. Handle(n, "sync", active[n], {}, Expected(n))
    BY <1>3 DEF SelectSync
  <2>3. active[n] \in SUBSET Grants
    BY DEF TypeOK
  <2>4. syncCh' \in [Nodes -> Nat] /\ \A m \in Nodes \ {n} : syncCh'[m] = syncCh[m]
    BY <1>3 DEF SelectSync, SyncReady, TypeOK
  <2>5. /\ active' \in [Nodes -> SUBSET Grants]
        /\ signalCount' \in [Nodes -> Nat]
        /\ job' \in [Nodes -> Jobs]
        /\ pc' \in [Nodes -> Idle \cup Calls \cup {"finish"}]
        /\ pc'[n] \notin Idle
        /\ \A m \in Nodes \ {n} : pc'[m] = pc[m]
    BY <2>1, <2>2, <2>3, HandleType
  <2>6. UNCHANGED << phase, tries, addCh, removeCh, tags, posture, lost, errored,
                     faults, edits, syncs >>
    BY <1>3 DEF SelectSync, Handle, grantVars, deviceVars, budgets
  <2> QED BY <2>4, <2>5, <2>6 DEF TypeOK, Idle
<1> QED BY <1>1, <1>2, <1>3

(* Calls keep the types, whether they return or fail.                      *)
LEMMA AfterTagsType == \A j : AfterTags(j) \in Calls \cup {"finish"}
BY DEF AfterTags, Calls

(* The manager of n has gone on to its next call, with what is left of j.  *)
GoneOn(n, to, j) ==
  /\ pc' \in [Nodes -> Idle \cup Calls \cup {"finish"}]
  /\ pc'[n] = to
  /\ \A m \in Nodes \ {n} : pc'[m] = pc[m] /\ job'[m] = job[m]
  /\ job' \in [Nodes -> Jobs]
  /\ job'[n] = [j EXCEPT !.attempt = 0, !.at = {}]

(* A call that returns leaves a job and a place of the right types.        *)
LEMMA ReturnType ==
  ASSUME TypeOK, NEW n \in Nodes, NEW to \in Calls \cup {"finish"}, NEW j \in Jobs,
         Return(n, to, j)
  PROVE  GoneOn(n, to, j)
<1>1. 0 \in 0 .. MaxAttempts - 1
  BY LimitsAssumption
<1>2. [j EXCEPT !.attempt = 0, !.at = {}] \in Jobs
  BY <1>1 DEF Jobs
<1> QED BY <1>2 DEF Return, TypeOK, GoneOn

(* So does an attempt that fails, retried or given up.                     *)
LEMMA FailType ==
  ASSUME TypeOK, NEW n \in Nodes, NEW to \in Calls \cup {"finish"}, NEW j \in Jobs,
         NEW at \in SUBSET Cells, Fail(n, at, to, j)
  PROVE  /\ pc' \in [Nodes -> Idle \cup Calls \cup {"finish"}]
         /\ \A m \in Nodes \ {n} : pc'[m] = pc[m] /\ job'[m] = job[m]
         /\ job' \in [Nodes -> Jobs]
         /\ \/ /\ pc'[n] = to
               /\ job'[n] = [j EXCEPT !.attempt = 0, !.at = {}]
               /\ errored' = errored \cup {n}
            \/ /\ pc' = pc
               /\ job'[n] = [job[n] EXCEPT !.attempt = @ + 1, !.at = at]
               /\ errored' = errored
         /\ errored' \in SUBSET Nodes
         /\ faults' \in 0 .. MaxFaults
<1>1. faults' \in 0 .. MaxFaults
  BY LimitsAssumption DEF Fail, TypeOK
<1>2. CASE RetriesLeft(job[n].attempt)
  <2>1. job[n].attempt + 1 \in 0 .. MaxAttempts - 1
    BY <1>2, LimitsAssumption DEF RetriesLeft, TypeOK, Jobs
  <2>2. [job[n] EXCEPT !.attempt = @ + 1, !.at = at] \in Jobs
    BY <2>1 DEF TypeOK, Jobs
  <2>3. /\ job' = [job EXCEPT ![n].attempt = @ + 1, ![n].at = at]
        /\ pc' = pc /\ errored' = errored
    BY <1>2 DEF Fail
  <2>4. job' = [job EXCEPT ![n] = [job[n] EXCEPT !.attempt = @ + 1, !.at = at]]
    BY <2>3 DEF TypeOK, Jobs
  <2> QED BY <1>1, <2>2, <2>3, <2>4 DEF TypeOK
<1>3. CASE ~RetriesLeft(job[n].attempt)
  <2>1. Return(n, to, j) /\ errored' = errored \cup {n}
    BY <1>3 DEF Fail
  <2>2. errored' \in SUBSET Nodes
    BY <2>1 DEF TypeOK
  <2>3. GoneOn(n, to, j)
    BY <2>1, ReturnType
  <2> QED BY <1>1, <2>1, <2>2, <2>3 DEF GoneOn
<1> QED BY <1>2, <1>3

(* What a call leaves alone.                                               *)
LEMMA QuietType ==
  ASSUME TypeOK, Quiet,
         pc' \in [Nodes -> Idle \cup Calls \cup {"finish"}],
         NEW n \in Nodes, pc'[n] \in Calls \cup {"finish"},
         \A m \in Nodes \ {n} : pc'[m] = pc[m],
         job' \in [Nodes -> Jobs], errored' \in SUBSET Nodes, faults' \in 0 .. MaxFaults,
         tags' \in [Nodes -> SUBSET Tags], posture' \in SUBSET Cells
  PROVE  TypeOK'
BY DEF Quiet, TypeOK, Idle, Calls, grantVars, channels

(* A call that returns and leaves the rest alone keeps the types.          *)
LEMMA ReturnQuiet ==
  ASSUME TypeOK, NEW n \in Nodes, NEW to \in Calls \cup {"finish"}, NEW j \in Jobs,
         Return(n, to, j), UNCHANGED << errored, faults >>, Quiet,
         tags' \in [Nodes -> SUBSET Tags], posture' \in SUBSET Cells
  PROVE  TypeOK'
<1>1. /\ pc' \in [Nodes -> Idle \cup Calls \cup {"finish"}]
      /\ pc'[n] \in Calls \cup {"finish"}
      /\ \A m \in Nodes \ {n} : pc'[m] = pc[m]
      /\ job' \in [Nodes -> Jobs]
  BY ReturnType DEF GoneOn
<1>2. errored' \in SUBSET Nodes /\ faults' \in 0 .. MaxFaults
  BY DEF TypeOK
<1> QED BY <1>1, <1>2, QuietType

(* And so does an attempt that fails.                                      *)
LEMMA FailQuiet ==
  ASSUME TypeOK, NEW n \in Nodes, NEW to \in Calls \cup {"finish"}, NEW j \in Jobs,
         NEW at \in SUBSET Cells, Fail(n, at, to, j), Quiet, pc[n] \in Calls,
         tags' \in [Nodes -> SUBSET Tags], posture' \in SUBSET Cells
  PROVE  TypeOK'
<1>1. /\ pc' \in [Nodes -> Idle \cup Calls \cup {"finish"}]
      /\ pc'[n] \in Calls \cup {"finish"}
      /\ \A m \in Nodes \ {n} : pc'[m] = pc[m]
      /\ job' \in [Nodes -> Jobs]
      /\ errored' \in SUBSET Nodes /\ faults' \in 0 .. MaxFaults
  BY FailType
<1> QED BY <1>1, QuietType

(* The cell a posture call is about is a cell.                             *)
LEMMA InTurnType ==
  ASSUME TypeOK, NEW n \in Nodes
  PROVE  InTurn(n) \in SUBSET Cells
BY DEF InTurn, TypeOK, Jobs

(* Each activity call of a manager keeps the types.                        *)
LEMMA CallType ==
  ASSUME TypeOK, NEW n \in Nodes,
         \/ GetDeviceTags(n) \/ SetDeviceTags(n) \/ WritePosture(n)
         \/ GetPostureAttributes(n) \/ DeleteStale(n)
  PROVE  TypeOK'
<1> USE AfterTagsType
<1>1. CASE GetDeviceTags(n)
  <2> DEFINE desired == computeDesiredTags(tags[n], Claimed(n), job[n].removed)
             j == [job[n] EXCEPT !.desired = desired]
  <2>1. job[n] \in Jobs /\ desired \in SUBSET Tags
    BY TagsOfType DEF TypeOK, Jobs, computeDesiredTags, Claimed
  <2>2. j \in Jobs
    BY <2>1 DEF Jobs
  <2>3. /\ Quiet /\ UNCHANGED << tags, posture >> /\ pc[n] \in Calls
        /\ \/ Return(n, "setTags", j) /\ UNCHANGED << errored, faults >>
           \/ Fail(n, {}, AfterTags(job[n]), job[n])
    BY <1>1 DEF GetDeviceTags, deviceVars, NoFailure, Calls
  <2> HIDE DEF j
  <2>4. CASE Return(n, "setTags", j) /\ UNCHANGED << errored, faults >>
    <3>1. "setTags" \in Calls \cup {"finish"}
      BY DEF Calls
    <3> QED BY <2>2, <2>3, <2>4, <3>1, ReturnQuiet DEF TypeOK
  <2>5. CASE Fail(n, {}, AfterTags(job[n]), job[n])
    <3>1. tags' \in [Nodes -> SUBSET Tags] /\ posture' \in SUBSET Cells
      BY <2>3 DEF TypeOK
    <3> QED BY <2>1, <2>3, <2>5, <3>1, FailQuiet
  <2> QED BY <2>3, <2>4, <2>5
<1>2. CASE SetDeviceTags(n)
  <2>1. job[n] \in Jobs /\ job[n].desired \in SUBSET Tags
    BY DEF TypeOK, Jobs
  <2>2. /\ Quiet /\ UNCHANGED posture /\ pc[n] \in Calls
        /\ tags' = [tags EXCEPT ![n] = job[n].desired] \/ UNCHANGED tags
        /\ \/ Return(n, AfterTags(job[n]), job[n]) /\ UNCHANGED << errored, faults >>
           \/ Fail(n, {}, AfterTags(job[n]), job[n])
    BY <1>2 DEF SetDeviceTags, NoFailure, Calls
  <2>3. tags' \in [Nodes -> SUBSET Tags] /\ posture' \in SUBSET Cells
    BY <2>1, <2>2 DEF TypeOK
  <2>4. CASE Return(n, AfterTags(job[n]), job[n]) /\ UNCHANGED << errored, faults >>
    BY <2>1, <2>2, <2>3, <2>4, ReturnQuiet DEF TypeOK
  <2>5. CASE Fail(n, {}, AfterTags(job[n]), job[n])
    BY <2>1, <2>2, <2>3, <2>5, FailQuiet
  <2> QED BY <2>2, <2>4, <2>5
<1>3. CASE WritePosture(n)
  <2>1. PICK c \in InTurn(n) :
          LET j == [job[n] EXCEPT !.todo = @ \ {c}] IN
          /\ posture' \in {posture, posture \ {c}, posture \cup {c}}
          /\ \/ Return(n, AfterTags(j), j) /\ UNCHANGED << errored, faults >>
             \/ Fail(n, {c}, "finish", [j EXCEPT !.todo = {}])
    BY <1>3 DEF WritePosture, NoFailure
  <2> DEFINE j == [job[n] EXCEPT !.todo = @ \ {c}]
             e == [j EXCEPT !.todo = {}]
  <2>2. c \in Cells
    BY InTurnType
  <2>3. j \in Jobs /\ e \in Jobs
    <3>1. job[n] \in Jobs
      BY DEF TypeOK
    <3> QED BY <3>1 DEF Jobs
  <2>4. Quiet /\ UNCHANGED tags /\ pc[n] \in Calls
    BY <1>3 DEF WritePosture, Calls
  <2>5. tags' \in [Nodes -> SUBSET Tags] /\ posture' \in SUBSET Cells
    BY <2>1, <2>2, <2>4 DEF TypeOK
  <2>6. \/ Return(n, AfterTags(j), j) /\ UNCHANGED << errored, faults >>
        \/ Fail(n, {c}, "finish", e)
    BY <2>1
  <2> HIDE DEF j, e
  <2>7. CASE Return(n, AfterTags(j), j) /\ UNCHANGED << errored, faults >>
    BY <2>3, <2>4, <2>5, <2>7, ReturnQuiet DEF TypeOK
  <2>8. CASE Fail(n, {c}, "finish", e)
    BY <2>2, <2>3, <2>4, <2>5, <2>8, FailQuiet
  <2> QED BY <2>6, <2>7, <2>8
<1>4. CASE GetPostureAttributes(n)
  <2> DEFINE stale == staleCells(n, posture, CustomKeys, Expected(n))
             j     == [job[n] EXCEPT !.todo = stale]
             to    == IF stale = {} THEN "finish" ELSE "delStale"
  <2>1. job[n] \in Jobs /\ stale \in SUBSET Cells
    BY DEF TypeOK, staleCells
  <2>2. j \in Jobs /\ to \in Calls \cup {"finish"}
    BY <2>1 DEF Jobs, Calls
  <2>3. /\ Quiet /\ UNCHANGED << tags, posture >> /\ pc[n] \in Calls
        /\ \/ Return(n, to, j) /\ UNCHANGED << errored, faults >>
           \/ Fail(n, {}, "finish", job[n])
    BY <1>4 DEF GetPostureAttributes, deviceVars, NoFailure, Calls
  <2> HIDE DEF j, to
  <2>4. CASE Return(n, to, j) /\ UNCHANGED << errored, faults >>
    BY <2>2, <2>3, <2>4, ReturnQuiet DEF TypeOK
  <2>5. CASE Fail(n, {}, "finish", job[n])
    <3>1. tags' \in [Nodes -> SUBSET Tags] /\ posture' \in SUBSET Cells
      BY <2>3 DEF TypeOK
    <3> QED BY <2>1, <2>3, <2>5, <3>1, FailQuiet
  <2> QED BY <2>3, <2>4, <2>5
<1>5. CASE DeleteStale(n)
  <2>1. PICK c \in InTurn(n) :
          LET j  == [job[n] EXCEPT !.todo = @ \ {c}]
              to == IF j.todo = {} THEN "finish" ELSE "delStale" IN
          /\ posture' \in {posture, posture \ {c}}
          /\ \/ Return(n, to, j) /\ UNCHANGED << errored, faults >>
             \/ Fail(n, {c}, to, j)
    BY <1>5 DEF DeleteStale, NoFailure
  <2> DEFINE j  == [job[n] EXCEPT !.todo = @ \ {c}]
             to == IF j.todo = {} THEN "finish" ELSE "delStale"
  <2>2. c \in Cells
    BY InTurnType
  <2>3. j \in Jobs /\ to \in Calls \cup {"finish"}
    <3>1. job[n] \in Jobs
      BY DEF TypeOK
    <3>2. j \in Jobs
      BY <3>1 DEF Jobs
    <3> QED BY <3>2 DEF Calls
  <2>4. Quiet /\ UNCHANGED tags /\ pc[n] \in Calls
    BY <1>5 DEF DeleteStale, Calls
  <2>5. tags' \in [Nodes -> SUBSET Tags] /\ posture' \in SUBSET Cells
    BY <2>1, <2>2, <2>4 DEF TypeOK
  <2>6. \/ Return(n, to, j) /\ UNCHANGED << errored, faults >>
        \/ Fail(n, {c}, to, j)
    BY <2>1
  <2> HIDE DEF j, to
  <2>7. CASE Return(n, to, j) /\ UNCHANGED << errored, faults >>
    BY <2>3, <2>4, <2>5, <2>7, ReturnQuiet DEF TypeOK
  <2>8. CASE Fail(n, {c}, to, j)
    BY <2>2, <2>3, <2>4, <2>5, <2>8, FailQuiet
  <2> QED BY <2>6, <2>7, <2>8
<1> QED BY <1>1, <1>2, <1>3, <1>4, <1>5

(* Blocking, looping, completing and continuing as new keep the types.     *)
LEMMA EndType ==
  ASSUME TypeOK, NEW n \in Nodes,
         Block(n) \/ Complete(n) \/ ContinueAsNew(n) \/ Loop(n)
  PROVE  TypeOK'
<1>1. CASE Block(n)
  BY <1>1 DEF Block, TypeOK, Idle, grantVars, channels, deviceVars, budgets
<1>2. ASSUME NEW to \in {"closed", "select"}, EndHandler(n, to)
      PROVE  /\ pc' \in [Nodes -> Idle \cup Calls \cup {"finish"}]
             /\ pc'[n] = to
             /\ \A m \in Nodes \ {n} : pc'[m] = pc[m]
             /\ job' \in [Nodes -> Jobs]
             /\ UNCHANGED << phase, tries, active, tags, posture, errored,
                             faults, edits, syncs >>
  <2>1. NoJob \in Jobs
    BY NewJobType DEF NoJob
  <2> QED BY <1>2, <2>1 DEF EndHandler, TypeOK, Idle, grantVars, deviceVars, budgets
<1>3. ASSUME DropSignals(n)
      PROVE  /\ addCh' \in [Nodes -> Seq(Grants)] /\ removeCh' \in [Nodes -> Seq(Grants)]
             /\ syncCh' \in [Nodes -> Nat] /\ signalCount' \in [Nodes -> Nat]
             /\ lost' \in SUBSET ({"add", "remove"} \X Grants)
             /\ \A m \in Nodes \ {n} : /\ addCh'[m] = addCh[m]
                                       /\ removeCh'[m] = removeCh[m]
                                       /\ syncCh'[m] = syncCh[m]
  <2>1. ToSet(addCh[n]) \subseteq Grants /\ ToSet(removeCh[n]) \subseteq Grants
    BY DEF TypeOK, ToSet
  <2>2. lost' \in SUBSET ({"add", "remove"} \X Grants)
    BY <1>3, <2>1 DEF DropSignals, TypeOK
  <2> QED BY <1>3, <2>2 DEF DropSignals, TypeOK
<1>4. CASE Complete(n)
  BY <1>2, <1>3, <1>4 DEF Complete, TypeOK
<1>5. CASE ContinueAsNew(n)
  BY <1>2, <1>3, <1>5 DEF ContinueAsNew, TypeOK
<1>6. CASE Loop(n)
  BY <1>2, <1>6 DEF Loop, TypeOK, channels
<1> QED BY <1>1, <1>4, <1>5, <1>6

(* TypeOK is kept by every step.                                           *)
LEMMA NextType ==
  ASSUME TypeOK, [Next]_vars
  PROVE  TypeOK'
<1>1. CASE Next
  BY <1>1, EnvironmentType, SelectType, CallType, EndType DEF Next, Manager
<1>2. CASE UNCHANGED vars
  BY <1>2 DEF vars, TypeOK, grantVars, channels, deviceVars, budgets
<1> QED BY <1>1, <1>2

(* The types, the retry limit and the promise of a wake-up always hold.    *)
THEOREM TypeCorrect == Spec => []TypeOK
<1>1. Init => TypeOK
  BY InitType
<1>2. TypeOK /\ [Next]_vars => TypeOK'
  BY NextType
<1> QED BY <1>1, <1>2, PTL DEF Spec

-----------------------------------------------------------------------------
(* Writes agree with the ledger.  PendingWrites is inductive given TypeOK: *)
(* it speaks of one manager's pc, job and ledger, and the ledger changes   *)
(* only when a handler starts.                                             *)

(* A step that leaves a manager alone, or outside its calls, is harmless.  *)
LEMMA PendingKept ==
  ASSUME NEW n \in Nodes, PendingWrite(n),
         \/ pc'[n] = pc[n] /\ job'[n] = job[n] /\ active'[n] = active[n]
         \/ pc'[n] \notin Calls
  PROVE  PendingWrite(n)'
<1>1. CASE pc'[n] = pc[n] /\ job'[n] = job[n] /\ active'[n] = active[n]
  BY <1>1 DEF PendingWrite, Claimed, Expected, Calls
<1>2. CASE pc'[n] \notin Calls
  BY <1>2 DEF PendingWrite, Calls
<1> QED BY <1>1, <1>2

(* A signal or an edit changes no pending write.                           *)
LEMMA EnvironmentPending ==
  ASSUME TypeOK, PendingWrites, Environment
  PROVE  PendingWrites'
<1>1. job' = job /\ active' = active
  BY DEF Environment, StartAdding, SendAdd, SendAddFails, SendRemove, SendSync, AdminEdit
<1>2. ASSUME NEW n \in Nodes
      PROVE  pc'[n] = pc[n] \/ pc'[n] \in Idle
  <2>1. ASSUME NEW g \in Grants, DeliverAdd(g)
        PROVE  pc'[n] = pc[n] \/ pc'[n] \in Idle
    BY <2>1, AssetsAssumption DEF DeliverAdd, TypeOK, Idle
  <2>2. ASSUME NEW m \in Nodes, NEW woken \in {"wokenRemove", "wokenSync"}, Wake(m, woken)
        PROVE  pc'[n] = pc[n] \/ pc'[n] \in Idle
    BY <2>2 DEF Wake, TypeOK, Idle
  <2>3. ASSUME NEW g \in Grants, StartAdding(g) \/ SendAdd(g) \/ SendAddFails(g)
        PROVE  pc'[n] = pc[n] \/ pc'[n] \in Idle
    BY <2>1, <2>3 DEF StartAdding, SendAdd, SendAddFails
  <2>4. ASSUME NEW g \in Grants, SendRemove(g)
        PROVE  pc'[n] = pc[n] \/ pc'[n] \in Idle
    BY <2>2, <2>4, AssetsAssumption DEF SendRemove
  <2>5. ASSUME NEW m \in Nodes, SendSync(m) \/ AdminEdit(m)
        PROVE  pc'[n] = pc[n] \/ pc'[n] \in Idle
    BY <2>2, <2>5 DEF SendSync, DeliverSync, AdminEdit
  <2> QED BY <2>3, <2>4, <2>5 DEF Environment
<1>3. Idle \cap Calls = {}
  BY DEF Idle, Calls
<1> QED BY <1>1, <1>2, <1>3, PendingKept DEF PendingWrites

(* A step of one manager leaves the others alone.                          *)
LEMMA OthersKept ==
  ASSUME TypeOK, NEW n \in Nodes, Manager(n), NEW m \in Nodes \ {n}
  PROVE  pc'[m] = pc[m] /\ job'[m] = job[m] /\ active'[m] = active[m]
<1>1. CASE SelectAdd(n) \/ SelectRemove(n) \/ SelectSync(n)
  BY <1>1 DEF SelectAdd, SelectRemove, SelectSync, Handle, TypeOK
<1>2. ASSUME NEW at, NEW to, NEW j, Fail(n, at, to, j)
      PROVE  pc'[m] = pc[m] /\ job'[m] = job[m]
  BY <1>2 DEF Fail, Return, TypeOK
<1>3. ASSUME NEW to, NEW j, Return(n, to, j)
      PROVE  pc'[m] = pc[m] /\ job'[m] = job[m]
  BY <1>3 DEF Return, TypeOK
<1>4. CASE GetDeviceTags(n)
  BY <1>2, <1>3, <1>4 DEF GetDeviceTags, Quiet
<1>5. CASE SetDeviceTags(n)
  BY <1>2, <1>3, <1>5 DEF SetDeviceTags, Quiet
<1>6. CASE WritePosture(n)
  BY <1>2, <1>3, <1>6 DEF WritePosture, Quiet
<1>7. CASE GetPostureAttributes(n)
  BY <1>2, <1>3, <1>7 DEF GetPostureAttributes, Quiet
<1>8. CASE DeleteStale(n)
  BY <1>2, <1>3, <1>8 DEF DeleteStale, Quiet
<1>9. CASE Block(n) \/ Complete(n) \/ ContinueAsNew(n) \/ Loop(n)
  BY <1>9 DEF Block, Complete, ContinueAsNew, Loop, EndHandler, TypeOK
<1> QED BY <1>1, <1>4, <1>5, <1>6, <1>7, <1>8, <1>9 DEF Manager

(* What the first step of a handler leaves behind.                         *)
LEMMA HandleEffect ==
  ASSUME TypeOK, NEW n \in Nodes, NEW kind, NEW grants, NEW removed, NEW todo,
         Handle(n, kind, grants, removed, todo)
  PROVE  /\ pc'[n] \in {"getTags", "posture", "getPosture", "finish"}
         /\ active'[n] = grants
         /\ job'[n].kind = kind
         /\ job'[n].removed = removed
         /\ job'[n].todo = Reachable(todo)
         /\ job'[n].at = {}
<1>1. job'[n] = NewJob(kind, removed, Reachable(todo))
  BY DEF Handle, TypeOK
<1>2. /\ pc'[n] \in {"getTags", "posture", "getPosture", "finish"}
      /\ active'[n] = grants
  BY DEF Handle, AfterTags, TypeOK
<1> QED BY <1>1, <1>2 DEF NewJob

(* A handler starts with nothing to delete that the ledger claims.         *)
LEMMA SelectPending ==
  ASSUME TypeOK, NEW n \in Nodes,
         SelectAdd(n) \/ SelectRemove(n) \/ SelectSync(n)
  PROVE  PendingWrite(n)'
<1>1. CASE SelectAdd(n)
  <2>1. Handle(n, "add", active[n] \cup {Head(addCh[n])}, {},
               CellsOf(n, Assets[Head(addCh[n])]))
    BY <1>1 DEF SelectAdd
  <2>2. job'[n].kind = "add" /\ pc'[n] # "setTags" /\ pc'[n] # "delStale"
    BY <2>1, HandleEffect
  <2> QED BY <2>2 DEF PendingWrite
<1>2. CASE SelectSync(n)
  <2>1. Handle(n, "sync", active[n], {}, Expected(n))
    BY <1>2 DEF SelectSync
  <2>2. job'[n].kind = "sync" /\ pc'[n] # "setTags" /\ pc'[n] # "delStale"
    BY <2>1, HandleEffect
  <2> QED BY <2>2 DEF PendingWrite
<1>3. CASE SelectRemove(n)
  <2> DEFINE g    == Head(removeCh[n])
             a    == IF g \in active[n] THEN Assets[g] ELSE ZeroAssets
             rest == active[n] \ {g}
             todo == orphanedPostureAttributes(n, a, ClaimedCells(n, Assets, rest))
  <2>1. Handle(n, "remove", rest, a.tags, todo)
    BY <1>3 DEF SelectRemove
  <2>2. Reachable(todo) \cap ClaimedCells(n, Assets, rest) = {}
    BY DEF orphanedPostureAttributes, Reachable
  <2> HIDE DEF g, a, rest, todo
  <2>3. /\ pc'[n] # "setTags" /\ pc'[n] # "delStale"
        /\ active'[n] = rest
        /\ job'[n].todo = Reachable(todo) /\ job'[n].at = {}
    BY <2>1, HandleEffect
  <2> QED BY <2>2, <2>3 DEF PendingWrite, Expected
<1> QED BY <1>1, <1>2, <1>3

(* What a call leaves behind: the ledger, and of the job all but the field *)
(* that the call is about.                                                 *)
LEMMA ReturnEffect ==
  ASSUME TypeOK, NEW n \in Nodes, NEW to, NEW j \in Jobs, Return(n, to, j)
  PROVE  /\ pc'[n] = to
         /\ job'[n].kind = j.kind /\ job'[n].removed = j.removed
         /\ job'[n].desired = j.desired /\ job'[n].todo = j.todo /\ job'[n].at = {}
<1>1. pc'[n] = to /\ job'[n] = [j EXCEPT !.attempt = 0, !.at = {}]
  BY DEF Return, TypeOK
<1> QED BY <1>1 DEF Jobs

(* A failed attempt gave up with job j, or is retried on the cells `at`.   *)
Failed(n, at, to, j) ==
  \/ /\ pc'[n] = to
     /\ job'[n].kind = j.kind /\ job'[n].removed = j.removed
     /\ job'[n].desired = j.desired /\ job'[n].todo = j.todo /\ job'[n].at = {}
  \/ /\ pc'[n] = pc[n]
     /\ job'[n].kind = job[n].kind /\ job'[n].removed = job[n].removed
     /\ job'[n].desired = job[n].desired /\ job'[n].todo = job[n].todo
     /\ job'[n].at = at

(* What a failed attempt leaves behind, with the cells it was about.       *)
LEMMA FailEffect ==
  ASSUME TypeOK, NEW n \in Nodes, NEW to, NEW j \in Jobs, NEW at,
         Fail(n, at, to, j)
  PROVE  Failed(n, at, to, j)
<1>1. CASE RetriesLeft(job[n].attempt)
  <2>1. /\ job' = [job EXCEPT ![n] = [job[n] EXCEPT !.attempt = @ + 1, !.at = at]]
        /\ pc' = pc
    BY <1>1 DEF Fail, TypeOK, Jobs
  <2>2. job'[n] = [job[n] EXCEPT !.attempt = @ + 1, !.at = at] /\ job[n] \in Jobs
    BY <2>1 DEF TypeOK
  <2> DEFINE r == job[n]
             k == r.attempt + 1
  <2>3. job'[n] = [r EXCEPT !.attempt = k, !.at = at] /\ r \in Jobs
    BY <2>2
  <2> HIDE DEF r, k
  <2>4. /\ job'[n].kind = r.kind /\ job'[n].removed = r.removed
        /\ job'[n].desired = r.desired /\ job'[n].todo = r.todo /\ job'[n].at = at
    BY <2>3 DEF Jobs
  <2> QED BY <2>1, <2>4 DEF r, Failed
<1>2. CASE ~RetriesLeft(job[n].attempt)
  <2>1. Return(n, to, j)
    BY <1>2 DEF Fail
  <2> QED BY <2>1, ReturnEffect DEF Failed
<1> QED BY <1>1, <1>2

(* An activity call leaves only writes that agree with the ledger.         *)
LEMMA CallPending ==
  ASSUME TypeOK, NEW n \in Nodes, PendingWrite(n),
         \/ GetDeviceTags(n) \/ SetDeviceTags(n) \/ WritePosture(n)
         \/ GetPostureAttributes(n) \/ DeleteStale(n)
  PROVE  PendingWrite(n)'
<1>1. active' = active /\ job[n] \in Jobs
  BY DEF GetDeviceTags, SetDeviceTags, WritePosture, GetPostureAttributes,
         DeleteStale, Quiet, TypeOK
<1>2. Claimed(n)' = Claimed(n) /\ Expected(n)' = Expected(n)
  BY <1>1 DEF Claimed, Expected
<1>3. CASE GetDeviceTags(n)
  <2> DEFINE desired == computeDesiredTags(tags[n], Claimed(n), job[n].removed)
             j == [job[n] EXCEPT !.desired = desired]
  <2>1. /\ desired \in SUBSET Tags
        /\ Claimed(n) \subseteq desired
        /\ desired \cap (job[n].removed \ Claimed(n)) = {}
    BY TagsOfType DEF TypeOK, computeDesiredTags, Claimed
  <2> HIDE DEF desired
  <2>2. /\ j \in Jobs /\ j.desired = desired
        /\ j.kind = job[n].kind /\ j.removed = job[n].removed /\ j.todo = job[n].todo
    BY <1>1, <2>1 DEF Jobs
  <2> HIDE DEF j
  <2>3. \/ Return(n, "setTags", j)
        \/ Fail(n, {}, AfterTags(job[n]), job[n])
    BY <1>3 DEF GetDeviceTags, j, desired
  <2>4. pc[n] = "getTags" /\ pc[n] \in Calls
    BY <1>3 DEF GetDeviceTags, Calls
  <2>5. CASE Return(n, "setTags", j)
    <3>1. /\ pc'[n] = "setTags"
          /\ job'[n].kind = job[n].kind /\ job'[n].removed = job[n].removed
          /\ job'[n].desired = desired /\ job'[n].todo = job[n].todo /\ job'[n].at = {}
      BY <2>2, <2>5, ReturnEffect
    <3> QED BY <1>2, <2>1, <2>4, <3>1 DEF PendingWrite
  <2>6. CASE Fail(n, {}, AfterTags(job[n]), job[n])
    <3>1. Failed(n, {}, AfterTags(job[n]), job[n])
      BY <1>1, <2>6, FailEffect
    <3>2. job'[n].kind = job[n].kind /\ job'[n].todo = job[n].todo /\ job'[n].at = {}
      BY <3>1 DEF Failed
    <3>3. pc'[n] # "setTags" /\ pc'[n] # "delStale"
      BY <2>4, <3>1 DEF AfterTags, Failed
    <3> QED BY <1>2, <2>4, <3>2, <3>3 DEF PendingWrite
  <2> QED BY <2>3, <2>5, <2>6
<1>4. CASE SetDeviceTags(n)
  <2>1. pc[n] = "setTags" /\ pc[n] \in Calls
    BY <1>4 DEF SetDeviceTags, Calls
  <2>2. \/ Return(n, AfterTags(job[n]), job[n])
        \/ Fail(n, {}, AfterTags(job[n]), job[n])
    BY <1>4 DEF SetDeviceTags
  <2>3. /\ pc'[n] = AfterTags(job[n]) \/ pc'[n] = pc[n]
        /\ job'[n].desired = job[n].desired
        /\ job'[n].kind = job[n].kind /\ job'[n].removed = job[n].removed
        /\ job'[n].todo = job[n].todo /\ job'[n].at = {}
    <3>1. CASE Return(n, AfterTags(job[n]), job[n])
      BY <1>1, <3>1, ReturnEffect
    <3>2. CASE Fail(n, {}, AfterTags(job[n]), job[n])
      BY <1>1, <3>2, FailEffect DEF Failed
    <3> QED BY <2>2, <3>1, <3>2
  <2>4. pc'[n] # "delStale"
    BY <2>1, <2>3 DEF AfterTags
  <2> QED BY <1>2, <2>1, <2>3, <2>4 DEF PendingWrite
<1>5. CASE WritePosture(n)
  <2>1. PICK c \in InTurn(n) :
          LET j == [job[n] EXCEPT !.todo = @ \ {c}] IN
          \/ Return(n, AfterTags(j), j)
          \/ Fail(n, {c}, "finish", [j EXCEPT !.todo = {}])
    BY <1>5 DEF WritePosture
  <2> DEFINE j == [job[n] EXCEPT !.todo = @ \ {c}]
             e == [j EXCEPT !.todo = {}]
  <2>2. /\ j \in Jobs /\ e \in Jobs
        /\ j.kind = job[n].kind /\ e.kind = job[n].kind
        /\ j.todo \subseteq job[n].todo /\ e.todo = {}
    BY <1>1 DEF Jobs
  <2>3. Return(n, AfterTags(j), j) \/ Fail(n, {c}, "finish", e)
    BY <2>1
  <2>4. pc[n] = "posture" /\ pc[n] \in Calls
    BY <1>5 DEF WritePosture, Calls
  <2> HIDE DEF j, e
  <2>5. /\ pc'[n] # "setTags" /\ pc'[n] # "delStale"
        /\ job'[n].kind = job[n].kind
        /\ job'[n].todo \subseteq job[n].todo /\ job'[n].at \subseteq {c}
    <3>1. AfterTags(j) # "setTags" /\ AfterTags(j) # "delStale"
      BY DEF AfterTags
    <3>2. CASE Return(n, AfterTags(j), j)
      BY <2>2, <3>1, <3>2, ReturnEffect
    <3>3. CASE Fail(n, {c}, "finish", e)
      <4>1. Failed(n, {c}, "finish", e)
        BY <2>2, <3>3, FailEffect
      <4> QED BY <2>2, <2>4, <4>1 DEF Failed
    <3> QED BY <2>3, <3>2, <3>3
  <2>6. c \in job[n].todo \cup job[n].at
    BY DEF InTurn
  <2> QED BY <1>2, <2>4, <2>5, <2>6 DEF PendingWrite
<1>6. CASE GetPostureAttributes(n)
  <2> DEFINE stale == staleCells(n, posture, CustomKeys, Expected(n))
             j     == [job[n] EXCEPT !.todo = stale]
             to    == IF stale = {} THEN "finish" ELSE "delStale"
  <2>1. stale \in SUBSET Cells /\ stale \cap Expected(n) = {}
    BY DEF TypeOK, staleCells
  <2>2. j \in Jobs /\ j.todo = stale /\ to # "setTags"
    BY <1>1, <2>1 DEF Jobs
  <2>3. Return(n, to, j) \/ Fail(n, {}, "finish", job[n])
    BY <1>6 DEF GetPostureAttributes
  <2>4. pc[n] = "getPosture" /\ pc[n] \in Calls
    BY <1>6 DEF GetPostureAttributes, Calls
  <2> HIDE DEF stale, j, to
  <2>5. /\ pc'[n] # "setTags"
        /\ \/ job'[n].todo = stale /\ job'[n].at = {}
           \/ pc'[n] = "finish"
           \/ /\ pc'[n] = pc[n] /\ job'[n].kind = job[n].kind
              /\ job'[n].todo = job[n].todo /\ job'[n].at = {}
    <3>1. CASE Return(n, to, j)
      BY <2>2, <3>1, ReturnEffect
    <3>2. CASE Fail(n, {}, "finish", job[n])
      <4>1. Failed(n, {}, "finish", job[n])
        BY <1>1, <3>2, FailEffect
      <4> QED BY <2>4, <4>1 DEF Failed
    <3> QED BY <2>3, <3>1, <3>2
  <2> QED BY <1>2, <2>1, <2>4, <2>5 DEF PendingWrite, Calls
<1>7. CASE DeleteStale(n)
  <2>1. PICK c \in InTurn(n) :
          LET j  == [job[n] EXCEPT !.todo = @ \ {c}]
              to == IF j.todo = {} THEN "finish" ELSE "delStale" IN
          Return(n, to, j) \/ Fail(n, {c}, to, j)
    BY <1>7 DEF DeleteStale
  <2> DEFINE j  == [job[n] EXCEPT !.todo = @ \ {c}]
             to == IF j.todo = {} THEN "finish" ELSE "delStale"
  <2>2. j \in Jobs /\ j.todo \subseteq job[n].todo /\ to # "setTags"
    BY <1>1 DEF Jobs
  <2>3. Return(n, to, j) \/ Fail(n, {c}, to, j)
    BY <2>1
  <2>4. pc[n] = "delStale"
    BY <1>7 DEF DeleteStale
  <2> HIDE DEF j, to
  <2>5. /\ pc'[n] # "setTags"
        /\ job'[n].todo \subseteq job[n].todo /\ job'[n].at \subseteq {c}
    <3>1. CASE Return(n, to, j)
      BY <2>2, <3>1, ReturnEffect
    <3>2. CASE Fail(n, {c}, to, j)
      <4>1. Failed(n, {c}, to, j)
        BY <2>2, <3>2, FailEffect
      <4> QED BY <2>2, <2>4, <4>1 DEF Failed
    <3> QED BY <2>3, <3>1, <3>2
  <2>6. c \in job[n].todo \cup job[n].at
    BY DEF InTurn
  <2> QED BY <1>2, <2>4, <2>5, <2>6 DEF PendingWrite
<1> QED BY <1>3, <1>4, <1>5, <1>6, <1>7

(* The end of an iteration leaves no call in progress.                     *)
LEMMA EndPending ==
  ASSUME TypeOK, NEW n \in Nodes,
         Block(n) \/ Complete(n) \/ ContinueAsNew(n) \/ Loop(n)
  PROVE  pc'[n] \notin Calls
BY DEF Block, Complete, ContinueAsNew, Loop, EndHandler, TypeOK, Calls

(* PendingWrites is kept by every step.                                    *)
LEMMA NextPending ==
  ASSUME TypeOK, PendingWrites, [Next]_vars
  PROVE  PendingWrites'
<1>1. CASE Environment
  BY <1>1, EnvironmentPending
<1>2. ASSUME NEW n \in Nodes, Manager(n)
      PROVE  PendingWrites'
  <2>1. ASSUME NEW m \in Nodes \ {n}
        PROVE  PendingWrite(m)'
    BY <1>2, <2>1, OthersKept, PendingKept DEF PendingWrites
  <2>2. PendingWrite(n)'
    <3>1. CASE SelectAdd(n) \/ SelectRemove(n) \/ SelectSync(n)
      BY <3>1, SelectPending
    <3>2. CASE \/ GetDeviceTags(n) \/ SetDeviceTags(n) \/ WritePosture(n)
               \/ GetPostureAttributes(n) \/ DeleteStale(n)
      BY <3>2, CallPending DEF PendingWrites
    <3>3. CASE Block(n) \/ Complete(n) \/ ContinueAsNew(n) \/ Loop(n)
      BY <3>3, EndPending, PendingKept DEF PendingWrites
    <3> QED BY <1>2, <3>1, <3>2, <3>3 DEF Manager
  <2> QED BY <2>1, <2>2 DEF PendingWrites
<1>3. CASE UNCHANGED vars
  BY <1>3, PendingKept DEF vars, PendingWrites
<1> QED BY <1>1, <1>2, <1>3 DEF Next

(* At first nothing is pending.                                            *)
LEMMA InitPending == Init => PendingWrites
BY DEF Init, PendingWrites, PendingWrite, Calls

(* Tags about to be set hold every claimed tag and none the removed grant  *)
(* leaves behind; cells about to be deleted are claimed by no grant of the *)
(* manager: in every state, whatever signals arrive and calls fail.        *)
THEOREM PendingWritesAgree == Spec => []PendingWrites
<1>1. TypeOK /\ PendingWrites /\ [Next]_vars => PendingWrites'
  BY NextPending
<1> QED BY InitPending, <1>1, TypeCorrect, PTL DEF Spec

-----------------------------------------------------------------------------
(* Sharing is safe.                                                        *)

(* Signals move no tag, and who edits a device moves no manager.           *)
LEMMA EnvironmentStrips ==
  ASSUME TypeOK, Environment, NEW n \in Nodes, Moves(n)
  PROVE  tags' = tags /\ posture' = posture
<1>1. ASSUME NEW m \in Nodes, AdminEdit(m)
      PROVE  FALSE
  BY <1>1 DEF AdminEdit, Moves
<1> QED
  BY <1>1 DEF Environment, StartAdding, SendAdd, SendAddFails, SendRemove, SendSync,
              deviceVars

(* A step of a manager takes away nothing that its ledger claims.          *)
LEMMA ManagerStrips ==
  ASSUME TypeOK, PendingWrites, NEW n \in Nodes, Manager(n)
  PROVE  /\ (tags[n] \ tags'[n]) \cap Claimed(n) = {}
         /\ (posture \ posture') \cap Expected(n) = {}
<1>1. CASE SetDeviceTags(n)
  <2>1. Claimed(n) \subseteq job[n].desired
    BY <1>1 DEF SetDeviceTags, PendingWrites, PendingWrite
  <2>2. tags'[n] \in {job[n].desired, tags[n]} /\ posture' = posture
    BY <1>1 DEF SetDeviceTags, TypeOK
  <2> QED BY <2>1, <2>2
<1>2. CASE WritePosture(n)
  <2>1. PICK c \in InTurn(n) :
          \/ posture' = posture \/ posture' = posture \cup {c}
          \/ posture' = posture \ {c} /\ job[n].kind = "remove"
    BY <1>2 DEF WritePosture
  <2>2. job[n].kind = "remove" => c \notin Expected(n)
    BY <1>2 DEF WritePosture, InTurn, PendingWrites, PendingWrite, Calls
  <2>3. tags' = tags
    BY <1>2 DEF WritePosture
  <2> QED BY <2>1, <2>2, <2>3
<1>3. CASE DeleteStale(n)
  <2>1. PICK c \in InTurn(n) : posture' \in {posture, posture \ {c}}
    BY <1>3 DEF DeleteStale
  <2>2. c \notin Expected(n)
    BY <1>3 DEF DeleteStale, InTurn, PendingWrites, PendingWrite
  <2>3. tags' = tags
    BY <1>3 DEF DeleteStale
  <2> QED BY <2>1, <2>2, <2>3
<1>4. CASE SelectAdd(n) \/ SelectRemove(n) \/ SelectSync(n)
  BY <1>4 DEF SelectAdd, SelectRemove, SelectSync, Handle, deviceVars
<1>5. CASE GetDeviceTags(n) \/ GetPostureAttributes(n)
  BY <1>5 DEF GetDeviceTags, GetPostureAttributes, deviceVars
<1>6. CASE Block(n) \/ Complete(n) \/ ContinueAsNew(n) \/ Loop(n)
  BY <1>6 DEF Block, Complete, ContinueAsNew, Loop, EndHandler, deviceVars
<1> QED BY <1>1, <1>2, <1>3, <1>4, <1>5, <1>6 DEF Manager

(* Nor does any other step that moves it.                                  *)
LEMMA NextStrips ==
  ASSUME TypeOK, PendingWrites, Next, NEW n \in Nodes, Moves(n)
  PROVE  /\ (tags[n] \ tags'[n]) \cap Claimed(n) = {}
         /\ (posture \ posture') \cap Expected(n) = {}
<1>1. CASE Environment
  BY <1>1, EnvironmentStrips
<1>2. ASSUME NEW m \in Nodes, Manager(m)
      PROVE  /\ (tags[n] \ tags'[n]) \cap Claimed(n) = {}
             /\ (posture \ posture') \cap Expected(n) = {}
  <2>1. m = n
    BY <1>2, OthersKept DEF Moves
  <2> QED BY <1>2, <2>1, ManagerStrips
<1> QED BY <1>1, <1>2 DEF Next

(* No step of a manager takes away a tag or an attribute that a grant in   *)
(* its own ledger claims, for any number of grants sharing any tags.       *)
THEOREM SharingIsSafe == Spec => ClaimedNeverStripped
<1> DEFINE Safe == \A n \in Nodes :
                     Moves(n) =>
                       /\ (tags[n] \ tags'[n]) \cap Claimed(n) = {}
                       /\ (posture \ posture') \cap Expected(n) = {}
<1>1. TypeOK /\ PendingWrites /\ [Next]_vars => [Safe]_vars
  BY NextStrips
<1> QED BY <1>1, TypeCorrect, PendingWritesAgree, PTL DEF Spec, ClaimedNeverStripped
=============================================================================
