----------------------- MODULE TagManagerLedgerProofs -----------------------
(***************************************************************************)
(* Theorems about the ledger of TagManager: no signal is mislaid, a grant  *)
(* that is over does not come back, and between handlers the device        *)
(* carries exactly what the ledger says.                                   *)
(***************************************************************************)
EXTENDS TagManagerProofs

-----------------------------------------------------------------------------
(* What the channels may hold.  A manager that is woken by a remove-grant  *)
(* was blocked, so the adds of that grant were all read before: grants     *)
(* send their adds before they end.                                        *)
Queues(n) ==
  /\ pc[n] = "closed" => active[n] = {}
  /\ pc[n] \in {"closed", "blocked"} => addCh[n] = <<>>
  /\ \A g \in ToSet(removeCh[n]) : phase[g] = "ended"
  /\ pc[n] = "wokenRemove" => Head(removeCh[n]) \notin ToSet(addCh[n])

(* Signals go to the manager of their grant's device.                      *)
Routed(n) == \A g \in active[n] \cup ToSet(addCh[n]) : Target[g] = n

Signals == \A n \in Nodes : Queues(n) /\ Routed(n)

(* S and T differ only in tags that n had before and that a grant names.   *)
Alike(n, S, T) == S \ Ambiguous(n) = T \ Ambiguous(n)

(* How far the device is from the ledger at each place of a handler: what  *)
(* GetDeviceTags would compute, what SetDeviceTags is about to write, and  *)
(* what is there otherwise, are the device's own and the claimed tags.     *)
Exact(n) ==
  n \notin errored /\ edits = 0 =>
    /\ pc[n] = "getTags" =>
         Alike(n, (tags[n] \ job[n].removed) \cup Claimed(n), BaseTags[n] \cup Claimed(n))
    /\ pc[n] = "setTags" => Alike(n, job[n].desired, BaseTags[n] \cup Claimed(n))
    /\ pc[n] \notin {"getTags", "setTags"} => Alike(n, tags[n], BaseTags[n] \cup Claimed(n))

ExactAlways == \A n \in Nodes : Exact(n)

-----------------------------------------------------------------------------
(* Facts about sequences and the sets of their elements.                   *)

(* A signal that is appended is one more in the buffer.                    *)
LEMMA ToSetAppend ==
  ASSUME NEW S, NEW s \in Seq(S), NEW e \in S
  PROVE  ToSet(Append(s, e)) = ToSet(s) \cup {e}
<1> DEFINE t == Append(s, e)
<1>1. /\ t \in Seq(S) /\ Len(t) = Len(s) + 1
      /\ \A i \in 1 .. Len(s) : t[i] = s[i]
      /\ t[Len(s) + 1] = e
  BY AppendProperties
<1> HIDE DEF t
<1>2. ASSUME NEW x \in ToSet(t)
      PROVE  x \in ToSet(s) \cup {e}
  <2>1. PICK i \in 1 .. Len(t) : x = t[i]
    BY <1>1, <1>2 DEF ToSet
  <2>2. CASE i = Len(s) + 1
    BY <1>1, <2>1, <2>2
  <2>3. CASE i \in 1 .. Len(s)
    BY <1>1, <2>1, <2>3 DEF ToSet
  <2> QED BY <1>1, <2>1, <2>2, <2>3
<1>3. ASSUME NEW x \in ToSet(s)
      PROVE  x \in ToSet(t)
  <2>1. PICK i \in 1 .. Len(s) : x = s[i]
    BY <1>3 DEF ToSet
  <2>2. i \in 1 .. Len(t) /\ x = t[i]
    BY <1>1, <2>1
  <2> QED BY <1>1, <2>2 DEF ToSet
<1>4. e \in ToSet(t)
  <2>1. Len(s) + 1 \in 1 .. Len(t)
    BY <1>1
  <2> QED BY <1>1, <2>1 DEF ToSet
<1> QED BY <1>2, <1>3, <1>4 DEF t

(* A signal that is read is one less, unless it was sent twice.            *)
LEMMA ToSetRead ==
  ASSUME NEW S, NEW s \in Seq(S), s # <<>>
  PROVE  /\ Head(s) \in ToSet(s)
         /\ ToSet(s) = {Head(s)} \cup ToSet(Tail(s))
<1> DEFINE t == Tail(s)
<1>1. /\ t \in Seq(S) /\ Len(t) = Len(s) - 1 /\ Len(s) \in Nat /\ Len(s) > 0
      /\ \A i \in 1 .. Len(t) : t[i] = s[i + 1]
      /\ Head(s) = s[1]
  BY HeadTailProperties
<1> HIDE DEF t
<1>2. Head(s) \in ToSet(s)
  <2>1. 1 \in 1 .. Len(s)
    BY <1>1
  <2> QED BY <1>1, <2>1 DEF ToSet
<1>3. ASSUME NEW x \in ToSet(s)
      PROVE  x \in {Head(s)} \cup ToSet(t)
  <2>1. PICK i \in 1 .. Len(s) : x = s[i]
    BY <1>3 DEF ToSet
  <2>2. CASE i = 1
    BY <1>1, <2>1, <2>2
  <2>3. CASE i # 1
    <3>1. i - 1 \in 1 .. Len(t) /\ t[i - 1] = s[(i - 1) + 1]
      BY <1>1, <2>1, <2>3
    <3>2. x = t[i - 1]
      BY <2>1, <3>1
    <3> QED BY <1>1, <3>1, <3>2 DEF ToSet
  <2> QED BY <2>2, <2>3
<1>4. ASSUME NEW x \in ToSet(t)
      PROVE  x \in ToSet(s)
  <2>1. PICK i \in 1 .. Len(t) : x = t[i]
    BY <1>1, <1>4 DEF ToSet
  <2>2. i + 1 \in 1 .. Len(s) /\ x = s[i + 1]
    BY <1>1, <2>1
  <2> QED BY <2>2 DEF ToSet
<1> QED BY <1>2, <1>3, <1>4 DEF t

(* An empty buffer holds nothing.                                          *)
LEMMA ToSetEmpty == ToSet(<<>>) = {}
BY DEF ToSet
-----------------------------------------------------------------------------
(* What one step does to the ledgers and the signals.                      *)

Running == {"select", "finish"} \cup Calls

(* The manager of n works on, blocks, reads a signal, or ends its run.     *)
WorksOn(n) ==
  /\ pc'[n] \in Running \/ (pc'[n] = "blocked" /\ addCh[n] = <<>>)
  /\ UNCHANGED << active, addCh, removeCh, lost >>

ReadsAdd(n) ==
  /\ addCh[n] # <<>>
  /\ pc'[n] \in Running
  /\ active' = [active EXCEPT ![n] = @ \cup {Head(addCh[n])}]
  /\ addCh' = [addCh EXCEPT ![n] = Tail(@)]
  /\ UNCHANGED << removeCh, lost >>

ReadsRemove(n) ==
  /\ removeCh[n] # <<>>
  /\ pc[n] = "wokenRemove" \/ addCh[n] = <<>>
  /\ pc'[n] \in Running
  /\ active' = [active EXCEPT ![n] = @ \ {Head(removeCh[n])}]
  /\ removeCh' = [removeCh EXCEPT ![n] = Tail(@)]
  /\ UNCHANGED << addCh, lost >>

EndsRun(n) ==
  /\ pc'[n] = "select" \/ (pc'[n] = "closed" /\ active[n] = {})
  /\ UNCHANGED active
  /\ addCh' = [addCh EXCEPT ![n] = <<>>]
  /\ removeCh' = [removeCh EXCEPT ![n] = <<>>]
  /\ lost' = lost \cup ({"add"} \X ToSet(addCh[n])) \cup ({"remove"} \X ToSet(removeCh[n]))

(* A handler starts at a call, or has nothing to do.                       *)
LEMMA HandleRuns ==
  ASSUME TypeOK, NEW n \in Nodes, NEW kind, NEW grants, NEW removed, NEW todo,
         Handle(n, kind, grants, removed, todo)
  PROVE  pc'[n] \in Running /\ active' = [active EXCEPT ![n] = grants] /\ lost' = lost
<1>1. pc'[n] \in {"getTags", "posture", "getPosture", "finish"}
  BY HandleEffect
<1> QED BY <1>1 DEF Handle, Running, Calls

(* A call returns to one of the manager's places, or is retried.           *)
LEMMA CallRuns ==
  ASSUME TypeOK, NEW n \in Nodes,
         \/ GetDeviceTags(n) \/ SetDeviceTags(n) \/ WritePosture(n)
         \/ GetPostureAttributes(n) \/ DeleteStale(n)
  PROVE  pc'[n] \in Running /\ Quiet
<1> DEFINE Places == Calls \cup {"finish"}
<1>1. pc[n] \in Places /\ Quiet
  BY DEF GetDeviceTags, SetDeviceTags, WritePosture, GetPostureAttributes, DeleteStale,
         Calls
<1>2. ASSUME NEW to \in Places, NEW j, Return(n, to, j)
      PROVE  pc'[n] \in Places
  BY <1>2 DEF Return, TypeOK
<1>3. ASSUME NEW to \in Places, NEW j, NEW at, Fail(n, at, to, j)
      PROVE  pc'[n] \in Places
  BY <1>1, <1>2, <1>3 DEF Fail
<1>4. "setTags" \in Places /\ "finish" \in Places /\ "delStale" \in Places
  BY DEF Calls
<1> HIDE DEF Places
<1>5. \A j : AfterTags(j) \in Places
  BY AfterTagsType DEF Places
<1> SUFFICES pc'[n] \in Places
  BY <1>1 DEF Places, Running
<1>6. CASE GetDeviceTags(n)
  BY <1>2, <1>3, <1>4, <1>5, <1>6 DEF GetDeviceTags
<1>7. CASE SetDeviceTags(n)
  BY <1>2, <1>3, <1>5, <1>7 DEF SetDeviceTags
<1>8. CASE WritePosture(n)
  BY <1>2, <1>3, <1>4, <1>5, <1>8 DEF WritePosture
<1>9. CASE GetPostureAttributes(n)
  BY <1>2, <1>3, <1>4, <1>9 DEF GetPostureAttributes
<1>10. CASE DeleteStale(n)
  BY <1>2, <1>3, <1>4, <1>10 DEF DeleteStale
<1> QED BY <1>6, <1>7, <1>8, <1>9, <1>10

(* Every step of a manager is one of the four.                             *)
LEMMA ManagerMoves ==
  ASSUME TypeOK, NEW n \in Nodes, Manager(n)
  PROVE  /\ phase' = phase
         /\ \A m \in Nodes \ {n} : pc'[m] = pc[m]
         /\ WorksOn(n) \/ ReadsAdd(n) \/ ReadsRemove(n) \/ EndsRun(n)
<1>1. \A m \in Nodes \ {n} : pc'[m] = pc[m]
  BY OthersKept
<1>2. CASE Block(n)
  BY <1>1, <1>2 DEF Block, WorksOn, TypeOK, grantVars, channels
<1>3. CASE SelectAdd(n)
  <2>1. pc'[n] \in Running /\ active' = [active EXCEPT ![n] = active[n] \cup {Head(addCh[n])}] /\ lost' = lost
    BY <1>3, HandleRuns DEF SelectAdd
  <2>2. addCh[n] # <<>> /\ phase' = phase
    BY <1>3 DEF SelectAdd, AddReady, Handle, TypeOK, grantVars
  <2> QED BY <1>1, <1>3, <2>1, <2>2 DEF SelectAdd, ReadsAdd, TypeOK
<1>4. CASE SelectRemove(n)
  <2>1. pc'[n] \in Running /\ active' = [active EXCEPT ![n] = active[n] \ {Head(removeCh[n])}] /\ lost' = lost
    BY <1>4, HandleRuns DEF SelectRemove
  <2>2. removeCh[n] # <<>> /\ phase' = phase /\ (pc[n] = "wokenRemove" \/ addCh[n] = <<>>)
    BY <1>4 DEF SelectRemove, RemoveReady, Handle, TypeOK, grantVars
  <2> QED BY <1>1, <1>4, <2>1, <2>2 DEF SelectRemove, ReadsRemove, TypeOK
<1>5. CASE SelectSync(n)
  <2>1. pc'[n] \in Running /\ active' = [active EXCEPT ![n] = active[n]] /\ lost' = lost
    BY <1>5, HandleRuns DEF SelectSync
  <2>2. active' = active
    BY <2>1 DEF TypeOK
  <2> QED BY <1>1, <1>5, <2>1, <2>2 DEF SelectSync, WorksOn, Handle, grantVars
<1>6. CASE \/ GetDeviceTags(n) \/ SetDeviceTags(n) \/ WritePosture(n)
           \/ GetPostureAttributes(n) \/ DeleteStale(n)
  BY <1>1, <1>6, CallRuns DEF Quiet, WorksOn, grantVars, channels
<1>7. CASE Complete(n)
  BY <1>1, <1>7 DEF Complete, EndHandler, DropSignals, EndsRun, TypeOK, grantVars
<1>8. CASE ContinueAsNew(n)
  BY <1>1, <1>8 DEF ContinueAsNew, EndHandler, DropSignals, EndsRun, TypeOK, grantVars
<1>9. CASE Loop(n)
  BY <1>1, <1>9 DEF Loop, EndHandler, WorksOn, Running, TypeOK, grantVars, channels
<1> QED BY <1>2, <1>3, <1>4, <1>5, <1>6, <1>7, <1>8, <1>9 DEF Manager
(* Outside the managers: nothing is sent that a ledger is made from, an    *)
(* add-grant is delivered, or a grant ends.                                *)
SendsNothing ==
  /\ UNCHANGED << active, addCh, removeCh, lost >>
  /\ \A g \in Grants :
       phase'[g] = phase[g] \/ (phase[g] # "ended" /\ phase'[g] \in {"adding", "failed"})
  /\ \A n \in Nodes : pc'[n] = pc[n] \/ (pc[n] = "blocked" /\ pc'[n] = "wokenSync")

SendsAdd(g) ==
  /\ phase[g] = "adding"
  /\ phase' \in {[phase EXCEPT ![g] = p] : p \in {"adding", "active", "failed"}}
  /\ DeliverAdd(g)
  /\ UNCHANGED << active, removeCh, lost >>

(* Every step of a grant, of the reconciler or of a person is one of them. *)
LEMMA EnvironmentMoves ==
  ASSUME TypeOK, Environment
  PROVE  SendsNothing \/ \E g \in Grants : SendsAdd(g) \/ SendRemove(g)
<1>1. ASSUME NEW g \in Grants, StartAdding(g)
      PROVE  SendsNothing
  BY <1>1 DEF StartAdding, SendsNothing, TypeOK, channels
<1>2. ASSUME NEW g \in Grants, SendAdd(g)
      PROVE  SendsAdd(g)
  BY <1>2 DEF SendAdd, SendsAdd
<1>3. ASSUME NEW g \in Grants, SendAddFails(g)
      PROVE  SendsNothing \/ SendsAdd(g)
  <2>1. phase' \in {[phase EXCEPT ![g] = p] : p \in {"adding", "failed"}}
    BY <1>3 DEF SendAddFails, TypeOK
  <2>2. phase[g] = "adding" /\ UNCHANGED << active, removeCh, lost >>
    BY <1>3 DEF SendAddFails
  <2>3. CASE DeliverAdd(g)
    BY <2>1, <2>2, <2>3 DEF SendsAdd
  <2>4. CASE UNCHANGED << addCh, pc >>
    BY <2>1, <2>2, <2>4 DEF SendsNothing, TypeOK
  <2> QED BY <1>3, <2>3, <2>4 DEF SendAddFails
<1>4. ASSUME NEW n \in Nodes, SendSync(n) \/ AdminEdit(n)
      PROVE  SendsNothing
  BY <1>4 DEF SendSync, DeliverSync, Wake, AdminEdit, SendsNothing, TypeOK, grantVars,
              channels
<1> QED BY <1>1, <1>2, <1>3, <1>4 DEF Environment

-----------------------------------------------------------------------------
(* Signals is inductive, given the types.                                  *)

(* A delivered add-grant is buffered last; no other buffer changes.        *)
LEMMA Delivered ==
  ASSUME TypeOK, NEW g \in Grants, DeliverAdd(g), NEW n \in Nodes
  PROVE  /\ ToSet(addCh'[n]) = ToSet(addCh[n]) \cup (IF n = Target[g] THEN {g} ELSE {})
         /\ pc'[n] = "wokenRemove" => pc[n] = "wokenRemove"
         /\ pc'[n] = "closed" => pc[n] = "closed"
         /\ pc'[n] \in {"closed", "blocked"} => addCh'[n] = addCh[n] /\ pc'[n] = pc[n]
<1>1. Target[g] \in Nodes /\ addCh[n] \in Seq(Grants)
  BY AssetsAssumption DEF TypeOK
<1>2. ToSet(Append(addCh[n], g)) = ToSet(addCh[n]) \cup {g}
  BY <1>1, ToSetAppend
<1>3. addCh'[n] = IF n = Target[g] THEN Append(addCh[n], g) ELSE addCh[n]
  BY <1>1 DEF DeliverAdd, TypeOK
<1>4. pc'[n] = IF n = Target[g]
                 THEN IF pc[n] = "closed" THEN "select"
                      ELSE IF pc[n] = "blocked" THEN "wokenAdd" ELSE pc[n]
                 ELSE pc[n]
  BY <1>1 DEF DeliverAdd, TypeOK
<1> QED BY <1>2, <1>3, <1>4

(* A remove-grant is buffered last, behind those already there.            *)
LEMMA RemoveSent ==
  ASSUME TypeOK, NEW g \in Grants, SendRemove(g), NEW n \in Nodes
  PROVE  \/ n # Target[g] /\ removeCh'[n] = removeCh[n] /\ pc'[n] = pc[n]
         \/ n = Target[g] /\ pc[n] = "closed" /\ removeCh'[n] = removeCh[n] /\ pc'[n] = pc[n]
         \/ /\ n = Target[g] /\ pc[n] # "closed"
            /\ ToSet(removeCh'[n]) = ToSet(removeCh[n]) \cup {g}
            /\ pc'[n] = IF pc[n] = "blocked" THEN "wokenRemove" ELSE pc[n]
            /\ removeCh[n] # <<>> => Head(removeCh'[n]) = Head(removeCh[n])
<1>1. Target[g] \in Nodes /\ removeCh[n] \in Seq(Grants)
  BY AssetsAssumption DEF TypeOK
<1>2. CASE n # Target[g]
  BY <1>1, <1>2 DEF SendRemove, Wake, TypeOK
<1>3. CASE n = Target[g] /\ pc[n] = "closed"
  BY <1>3 DEF SendRemove
<1>4. CASE n = Target[g] /\ pc[n] # "closed"
  <2>1. removeCh'[n] = Append(removeCh[n], g)
    BY <1>4 DEF SendRemove, TypeOK
  <2>2. pc'[n] = IF pc[n] = "blocked" THEN "wokenRemove" ELSE pc[n]
    BY <1>4 DEF SendRemove, Wake, TypeOK
  <2>3. ToSet(removeCh'[n]) = ToSet(removeCh[n]) \cup {g}
    BY <1>1, <2>1, ToSetAppend
  <2>4. removeCh[n] # <<>> => Head(removeCh'[n]) = Head(removeCh[n])
    BY <1>1, <2>1, HeadTailAppend
  <2> QED BY <1>4, <2>2, <2>3, <2>4
<1> QED BY <1>2, <1>3, <1>4

(* A step that sends nothing changes nothing about the channels.           *)
LEMMA NothingSent ==
  ASSUME TypeOK, Signals, SendsNothing
  PROVE  Signals'
<1> SUFFICES ASSUME NEW n \in Nodes
             PROVE  Queues(n)' /\ Routed(n)'
  BY DEF Signals
<1>1. ToSet(removeCh[n]) \subseteq Grants
  BY DEF TypeOK, ToSet
<1> QED BY <1>1 DEF Signals, SendsNothing, Queues, Routed

(* Signals keep what the channels may hold.                                *)
LEMMA EnvironmentSignals ==
  ASSUME TypeOK, Signals, Environment
  PROVE  Signals'
<1> SUFFICES ASSUME NEW n \in Nodes
             PROVE  Queues(n)' /\ Routed(n)'
  BY DEF Signals
<1>1. Queues(n) /\ Routed(n)
  BY DEF Signals
<1>2. CASE SendsNothing
  BY <1>2, NothingSent DEF Signals
<1>3. ASSUME NEW g \in Grants, SendsAdd(g)
      PROVE  Queues(n)' /\ Routed(n)'
  <2>1. /\ ToSet(addCh'[n]) = ToSet(addCh[n]) \cup (IF n = Target[g] THEN {g} ELSE {})
        /\ pc'[n] = "wokenRemove" => pc[n] = "wokenRemove"
        /\ pc'[n] = "closed" => pc[n] = "closed"
        /\ pc'[n] \in {"closed", "blocked"} => addCh'[n] = addCh[n] /\ pc'[n] = pc[n]
    BY <1>3, Delivered DEF SendsAdd
  <2>2. active'[n] = active[n] /\ removeCh'[n] = removeCh[n] /\ phase[g] = "adding"
    BY <1>3 DEF SendsAdd
  <2>3. \A h \in Grants : phase[h] = "ended" => phase'[h] = "ended"
    BY <1>3 DEF SendsAdd, TypeOK
  <2>4. removeCh[n] \in Seq(Grants) /\ ToSet(removeCh[n]) \subseteq Grants
    BY DEF TypeOK, ToSet
  <2>5. pc'[n] = "wokenRemove" => Head(removeCh[n]) \in ToSet(removeCh[n])
    BY <2>1, <2>4, ToSetRead DEF TypeOK
  <2>6. Queues(n)'
    BY <1>1, <2>1, <2>2, <2>3, <2>4, <2>5 DEF Queues
  <2>7. Routed(n)'
    BY <1>1, <2>1, <2>2 DEF Routed
  <2> QED BY <2>6, <2>7
<1>4. ASSUME NEW g \in Grants, SendRemove(g)
      PROVE  Queues(n)' /\ Routed(n)'
  <2>1. \/ removeCh'[n] = removeCh[n] /\ pc'[n] = pc[n]
        \/ /\ pc[n] # "closed"
           /\ ToSet(removeCh'[n]) = ToSet(removeCh[n]) \cup {g}
           /\ pc'[n] = IF pc[n] = "blocked" THEN "wokenRemove" ELSE pc[n]
           /\ removeCh[n] # <<>> => Head(removeCh'[n]) = Head(removeCh[n])
    BY <1>4, RemoveSent
  <2>2. active'[n] = active[n] /\ addCh'[n] = addCh[n]
    BY <1>4 DEF SendRemove
  <2>3. phase'[g] = "ended" /\ \A h \in Grants : phase[h] = "ended" => phase'[h] = "ended"
    BY <1>4 DEF SendRemove, TypeOK
  <2>4. ToSet(removeCh[n]) \subseteq Grants
    BY DEF TypeOK, ToSet
  <2>5. pc[n] = "blocked" => ToSet(addCh[n]) = {}
    BY <1>1, ToSetEmpty DEF Queues
  <2>6. pc[n] = "wokenRemove" => removeCh[n] # <<>>
    BY DEF TypeOK
  <2>7. Queues(n)'
    BY <1>1, <2>1, <2>2, <2>3, <2>4, <2>5, <2>6 DEF Queues
  <2>8. Routed(n)'
    BY <1>1, <2>2 DEF Routed
  <2> QED BY <2>7, <2>8
<1> QED BY <1>2, <1>3, <1>4, EnvironmentMoves

(* What of the channels and ledgers of two devices a step leaves alone.    *)
LEMMA SignalsKept ==
  ASSUME NEW n \in Nodes, Queues(n), Routed(n), phase' = phase, pc'[n] = pc[n],
         active'[n] = active[n], addCh'[n] = addCh[n], removeCh'[n] = removeCh[n]
  PROVE  Queues(n)' /\ Routed(n)'
BY DEF Queues, Routed

(* So does every step of a manager.                                        *)
LEMMA ManagerSignals ==
  ASSUME TypeOK, Signals, NEW m \in Nodes, Manager(m)
  PROVE  Signals'
<1>1. /\ phase' = phase
      /\ \A n \in Nodes \ {m} : pc'[n] = pc[n]
      /\ WorksOn(m) \/ ReadsAdd(m) \/ ReadsRemove(m) \/ EndsRun(m)
  BY ManagerMoves
<1>2. ASSUME NEW n \in Nodes \ {m}
      PROVE  Queues(n)' /\ Routed(n)'
  <2>1. active'[n] = active[n] /\ addCh'[n] = addCh[n] /\ removeCh'[n] = removeCh[n]
    BY <1>1 DEF WorksOn, ReadsAdd, ReadsRemove, EndsRun, TypeOK
  <2> QED BY <1>1, <2>1, SignalsKept DEF Signals
<1>3. Queues(m) /\ Routed(m) /\ addCh[m] \in Seq(Grants) /\ removeCh[m] \in Seq(Grants)
  BY DEF Signals, TypeOK
<1>4. "closed" \notin Running /\ "blocked" \notin Running /\ "wokenRemove" \notin Running
  BY DEF Running, Calls
<1>5. Queues(m)' /\ Routed(m)'
  <2>1. CASE WorksOn(m)
    BY <1>1, <1>3, <1>4, <2>1 DEF WorksOn, Queues, Routed
  <2>2. CASE ReadsAdd(m)
    <3>1. ToSet(addCh[m]) = {Head(addCh[m])} \cup ToSet(Tail(addCh[m]))
      BY <1>3, <2>2, ToSetRead DEF ReadsAdd
    <3>2. /\ active'[m] = active[m] \cup {Head(addCh[m])}
          /\ addCh'[m] = Tail(addCh[m]) /\ removeCh'[m] = removeCh[m]
      BY <2>2 DEF ReadsAdd, TypeOK
    <3> QED BY <1>1, <1>3, <1>4, <2>2, <3>1, <3>2 DEF ReadsAdd, Queues, Routed
  <2>3. CASE ReadsRemove(m)
    <3>1. ToSet(removeCh[m]) = {Head(removeCh[m])} \cup ToSet(Tail(removeCh[m]))
      BY <1>3, <2>3, ToSetRead DEF ReadsRemove
    <3>2. /\ active'[m] = active[m] \ {Head(removeCh[m])}
          /\ removeCh'[m] = Tail(removeCh[m]) /\ addCh'[m] = addCh[m]
      BY <2>3 DEF ReadsRemove, TypeOK
    <3> QED BY <1>1, <1>3, <1>4, <2>3, <3>1, <3>2 DEF ReadsRemove, Queues, Routed
  <2>4. CASE EndsRun(m)
    <3>1. active'[m] = active[m] /\ addCh'[m] = <<>> /\ removeCh'[m] = <<>>
      BY <2>4 DEF EndsRun, TypeOK
    <3> QED BY <1>1, <1>3, <2>4, <3>1, ToSetEmpty DEF EndsRun, Queues, Routed
  <2> QED BY <1>1, <2>1, <2>2, <2>3, <2>4
<1> QED BY <1>2, <1>5 DEF Signals
(* Signals is kept by every step.                                          *)
LEMMA NextSignals ==
  ASSUME TypeOK, Signals, [Next]_vars
  PROVE  Signals'
<1>1. CASE UNCHANGED vars
  BY <1>1, SignalsKept DEF vars, grantVars, channels, Signals
<1> QED BY <1>1, EnvironmentSignals, ManagerSignals DEF Next

(* At first the channels are empty.                                        *)
LEMMA InitSignals == Init => Signals
BY ToSetEmpty DEF Init, Signals, Queues, Routed

(* What a manager finds in its channels, in every state.                   *)
THEOREM SignalsInOrder == Spec => []Signals
<1>1. TypeOK /\ Signals /\ [Next]_vars => Signals'
  BY NextSignals
<1> QED BY InitSignals, <1>1, TypeCorrect, PTL DEF Spec

-----------------------------------------------------------------------------
(* No signal is mislaid, and no grant comes back.                          *)

Known(g)  == active[Target[g]] \cup ToSet(addCh[Target[g]])
Recall(g) == ToSet(removeCh[Target[g]])

(* A manager knows of no grant that it was not told of.                    *)
LEMMA ManagerLearns ==
  ASSUME TypeOK, NEW n \in Nodes, Manager(n), NEW m \in Nodes
  PROVE  active'[m] \cup ToSet(addCh'[m]) \subseteq active[m] \cup ToSet(addCh[m])
<1>1. active \in [Nodes -> SUBSET Grants] /\ addCh \in [Nodes -> Seq(Grants)]
  BY DEF TypeOK
<1>2. CASE WorksOn(n)
  BY <1>2 DEF WorksOn
<1>3. CASE ReadsAdd(n)
  <2>1. ToSet(addCh[n]) = {Head(addCh[n])} \cup ToSet(Tail(addCh[n]))
    BY <1>1, <1>3, ToSetRead DEF ReadsAdd
  <2> QED BY <1>1, <1>3, <2>1 DEF ReadsAdd
<1>4. CASE ReadsRemove(n)
  BY <1>1, <1>4 DEF ReadsRemove
<1>5. CASE EndsRun(n)
  BY <1>1, <1>5, ToSetEmpty DEF EndsRun
<1> QED BY <1>2, <1>3, <1>4, <1>5, ManagerMoves

(* A step of a manager forgets a grant only by reading its remove-grant or *)
(* by dropping its add-grant, and a remove-grant only when it was read and *)
(* the grant forgotten, or dropped.  It makes up no grant.                 *)
LEMMA ManagerForgets ==
  ASSUME TypeOK, Signals, NEW m \in Nodes, Manager(m), NEW g \in Grants
  PROVE  /\ phase' = phase /\ lost \subseteq lost'
         /\ g \in Known(g) => \/ g \in Known(g)' \/ <<"add", g>> \in lost'
                              \/ phase[g] = "ended"
         /\ g \in Recall(g) => \/ g \in Recall(g)' \/ <<"remove", g>> \in lost'
                               \/ g \notin Known(g)'
         /\ g \in Known(g)' => g \in Known(g)
<1> DEFINE n == Target[g]
<1>1. n \in Nodes
  BY AssetsAssumption
<1> HIDE DEF n
<1>2. addCh[n] \in Seq(Grants) /\ removeCh[n] \in Seq(Grants) /\ Queues(n)
  BY <1>1 DEF TypeOK, Signals
<1>3. phase' = phase /\ (WorksOn(m) \/ ReadsAdd(m) \/ ReadsRemove(m) \/ EndsRun(m))
  BY ManagerMoves
<1> DEFINE known   == active[n] \cup ToSet(addCh[n])
           recall  == ToSet(removeCh[n])
           knownN  == active'[n] \cup ToSet(addCh'[n])
           recallN == ToSet(removeCh'[n])
<1> SUFFICES /\ lost \subseteq lost'
             /\ g \in known => g \in knownN \/ <<"add", g>> \in lost' \/ phase[g] = "ended"
             /\ g \in recall => g \in recallN \/ <<"remove", g>> \in lost' \/ g \notin knownN
             /\ knownN \subseteq known
  BY <1>3 DEF Known, Recall, n
<1>4. CASE m # n
  BY <1>1, <1>3, <1>4 DEF WorksOn, ReadsAdd, ReadsRemove, EndsRun, TypeOK
<1>5. CASE m = n
  <2>1. CASE WorksOn(n)
    BY <2>1 DEF WorksOn
  <2>2. CASE ReadsAdd(n)
    <3>1. ToSet(addCh[n]) = {Head(addCh[n])} \cup ToSet(Tail(addCh[n]))
      BY <1>2, <2>2, ToSetRead DEF ReadsAdd
    <3>2. /\ active'[n] = active[n] \cup {Head(addCh[n])}
          /\ addCh'[n] = Tail(addCh[n]) /\ removeCh'[n] = removeCh[n] /\ lost' = lost
      BY <1>1, <2>2 DEF ReadsAdd, TypeOK
    <3> QED BY <3>1, <3>2
  <2>3. CASE ReadsRemove(n)
    <3> DEFINE h == Head(removeCh[n])
    <3>1. h \in recall /\ recall = {h} \cup ToSet(Tail(removeCh[n]))
      BY <1>2, <2>3, ToSetRead DEF ReadsRemove
    <3>2. /\ active'[n] = active[n] \ {h}
          /\ removeCh'[n] = Tail(removeCh[n]) /\ addCh'[n] = addCh[n] /\ lost' = lost
      BY <1>1, <2>3 DEF ReadsRemove, TypeOK
    <3>3. phase[h] = "ended" /\ h \notin ToSet(addCh[n])
      BY <1>2, <2>3, <3>1, ToSetEmpty DEF ReadsRemove, Queues
    <3> HIDE DEF h
    <3> QED BY <3>1, <3>2, <3>3
  <2>4. CASE EndsRun(n)
    <3>1. /\ active'[n] = active[n] /\ addCh'[n] = <<>>
          /\ lost' = lost \cup ({"add"} \X ToSet(addCh[n])) \cup ({"remove"} \X ToSet(removeCh[n]))
      BY <1>1, <2>4 DEF EndsRun, TypeOK
    <3> QED BY <3>1, ToSetEmpty
  <2> QED BY <1>3, <1>5, <2>1, <2>2, <2>3, <2>4
<1> QED BY <1>4, <1>5

(* A step outside the managers forgets nothing; what it adds to the known  *)
(* is a grant that is not over, and a grant ends by sending its            *)
(* remove-grant, unless its manager is closed and knows of no grant.       *)
LEMMA EnvironmentForgets ==
  ASSUME TypeOK, Signals, Environment, NEW g \in Grants
  PROVE  /\ lost' = lost
         /\ g \in Known(g) => g \in Known(g)'
         /\ g \in Recall(g) => g \in Recall(g)'
         /\ phase'[g] = "active" => phase[g] = "active" \/ g \in Known(g)'
         /\ phase'[g] = "ended" /\ g \in Known(g)' =>
              (phase[g] = "ended" /\ g \in Known(g)) \/ g \in Recall(g)'
<1>1. Target[g] \in Nodes
  BY AssetsAssumption
<1>2. CASE SendsNothing
  BY <1>2 DEF SendsNothing, Known, Recall
<1>3. ASSUME NEW h \in Grants, SendsAdd(h)
      PROVE  /\ lost' = lost
             /\ g \in Known(g) => g \in Known(g)'
             /\ Recall(g)' = Recall(g)
             /\ phase'[g] = "active" => phase[g] = "active" \/ g \in Known(g)'
             /\ phase'[g] = "ended" => phase[g] = "ended"
             /\ phase'[g] = "ended" /\ g \in Known(g)' => g \in Known(g)
  <2>1. ToSet(addCh'[Target[g]]) =
          ToSet(addCh[Target[g]]) \cup (IF Target[g] = Target[h] THEN {h} ELSE {})
    BY <1>1, <1>3, Delivered DEF SendsAdd
  <2>2. UNCHANGED << active, removeCh, lost >>
    BY <1>3 DEF SendsAdd
  <2>3. /\ g # h => phase'[g] = phase[g]
        /\ g = h => phase'[g] # "ended"
    BY <1>3 DEF SendsAdd, TypeOK
  <2> QED BY <2>1, <2>2, <2>3 DEF Known, Recall
<1>4. ASSUME NEW h \in Grants, SendRemove(h)
      PROVE  /\ lost' = lost
             /\ Known(g)' = Known(g)
             /\ g \in Recall(g) => g \in Recall(g)'
             /\ phase'[g] = "active" => phase[g] = "active"
             /\ phase'[g] = "ended" /\ g \in Known(g) =>
                   phase[g] = "ended" \/ g \in Recall(g)'
  <2> DEFINE n == Target[g]
  <2>1. \/ n # Target[h] /\ removeCh'[n] = removeCh[n]
        \/ n = Target[h] /\ pc[n] = "closed" /\ removeCh'[n] = removeCh[n]
        \/ n = Target[h] /\ ToSet(removeCh'[n]) = ToSet(removeCh[n]) \cup {h}
    BY <1>1, <1>4, RemoveSent
  <2>2. UNCHANGED << active, addCh, lost >>
    BY <1>4 DEF SendRemove
  <2>3. IF g = h THEN phase'[g] = "ended" ELSE phase'[g] = phase[g]
    BY <1>4 DEF SendRemove, TypeOK
  <2>4. pc[n] = "closed" => active[n] = {} /\ ToSet(addCh[n]) = {}
    BY <1>1, ToSetEmpty DEF Signals, Queues
  <2> QED BY <2>1, <2>2, <2>3, <2>4 DEF Known, Recall
<1> QED BY <1>2, <1>3, <1>4, EnvironmentMoves

(* Custody and NoLeak, said of one grant.                                  *)
Kept(g) ==
  /\ phase[g] = "active" => g \in Known(g) \/ <<"add", g>> \in lost
  /\ phase[g] = "ended" /\ g \in Known(g) => g \in Recall(g) \/ <<"remove", g>> \in lost

(* Every step of the system keeps them.                                    *)
LEMMA NextKept ==
  ASSUME TypeOK, Signals, [Next]_vars, NEW g \in Grants, Kept(g)
  PROVE  Kept(g)'
<1>1. CASE Environment
  BY <1>1, EnvironmentForgets DEF Kept
<1>2. ASSUME NEW m \in Nodes, Manager(m)
      PROVE  Kept(g)'
  BY <1>2, ManagerForgets DEF Kept
<1>3. CASE UNCHANGED vars
  BY <1>3 DEF vars, grantVars, channels, Kept, Known, Recall
<1> QED BY <1>1, <1>2, <1>3 DEF Next

(* Custody and NoLeak are what Kept says of every grant.                   *)
LEMMA KeptSuffices == (Custody /\ NoLeak) <=> \A g \in Grants : Kept(g)
BY DEF Custody, NoLeak, Kept, Known, Recall

(* No order or repetition of the signals mislays one.                      *)
LEMMA NothingMislaid == Spec => [](Custody /\ NoLeak)
<1>1. Init => Custody /\ NoLeak
  BY DEF Init, Custody, NoLeak
<1>2. TypeOK /\ Signals /\ (Custody /\ NoLeak) /\ [Next]_vars => (Custody /\ NoLeak)'
  <2> SUFFICES ASSUME TypeOK, Signals, Custody /\ NoLeak, [Next]_vars
               PROVE  (Custody /\ NoLeak)'
    OBVIOUS
  <2>1. \A g \in Grants : Kept(g)'
    BY KeptSuffices, NextKept
  <2> QED BY <2>1 DEF Custody, NoLeak, Kept, Known, Recall
<1> QED BY <1>1, <1>2, TypeCorrect, SignalsInOrder, PTL DEF Spec

(* While a grant is active its add-grant is in the ledger, buffered, or    *)
(* was dropped when a run ended.                                           *)
THEOREM ActiveInCustody == Spec => []Custody
BY NothingMislaid, PTL

(* A grant that is over comes back for no order or repetition of signals:  *)
(* while it is known its remove-grant is buffered, or was dropped when a   *)
(* run ended.                                                              *)
THEOREM EndedStaysEnded == Spec => []NoLeak
BY NothingMislaid, PTL

-----------------------------------------------------------------------------
(* Between handlers the device carries what the ledger says.               *)

(* No grant asks for no tag.                                               *)
LEMMA TagsOfNone == TagsOf(Assets, {}) = {}
BY DEF TagsOf

(* A step that leaves the device, its ledger and its job alone, and moves  *)
(* its manager between places without a call about tags, is harmless.      *)
LEMMA ExactKept ==
  ASSUME NEW n \in Nodes, Exact(n),
         n \notin errored' /\ edits' = 0 => n \notin errored /\ edits = 0,
         tags'[n] = tags[n], active'[n] = active[n],
         \/ pc'[n] = pc[n] /\ job'[n] = job[n]
         \/ pc[n] \notin {"getTags", "setTags"} /\ pc'[n] \notin {"getTags", "setTags"}
  PROVE  Exact(n)'
BY DEF Exact, Claimed, Alike, Ambiguous

(* A signal moves a manager between the places where it waits, if at all.  *)
LEMMA EnvironmentWakes ==
  ASSUME TypeOK, Environment, NEW n \in Nodes
  PROVE  pc'[n] = pc[n] \/ (pc[n] \in Idle /\ pc'[n] \in Idle)
<1>1. ASSUME NEW g \in Grants, DeliverAdd(g)
      PROVE  pc'[n] = pc[n] \/ (pc[n] \in Idle /\ pc'[n] \in Idle)
  BY <1>1, AssetsAssumption DEF DeliverAdd, TypeOK, Idle
<1>2. ASSUME NEW m \in Nodes, NEW woken \in {"wokenRemove", "wokenSync"}, Wake(m, woken)
      PROVE  pc'[n] = pc[n] \/ (pc[n] \in Idle /\ pc'[n] \in Idle)
  BY <1>2 DEF Wake, TypeOK, Idle
<1>3. ASSUME NEW g \in Grants, StartAdding(g) \/ SendAdd(g) \/ SendAddFails(g)
      PROVE  pc'[n] = pc[n] \/ (pc[n] \in Idle /\ pc'[n] \in Idle)
  BY <1>1, <1>3 DEF StartAdding, SendAdd, SendAddFails
<1>4. ASSUME NEW g \in Grants, SendRemove(g)
      PROVE  pc'[n] = pc[n] \/ (pc[n] \in Idle /\ pc'[n] \in Idle)
  BY <1>2, <1>4, AssetsAssumption DEF SendRemove
<1>5. ASSUME NEW m \in Nodes, SendSync(m) \/ AdminEdit(m)
      PROVE  pc'[n] = pc[n] \/ (pc[n] \in Idle /\ pc'[n] \in Idle)
  BY <1>2, <1>5 DEF SendSync, DeliverSync, AdminEdit
<1> QED BY <1>3, <1>4, <1>5 DEF Environment

(* Outside the managers nothing touches a device but a person's edit.      *)
LEMMA EnvironmentTags ==
  ASSUME TypeOK, Environment
  PROVE  \/ edits' # 0
         \/ job' = job /\ active' = active /\ tags' = tags /\ errored' = errored /\ edits' = edits
<1>1. CASE \E m \in Nodes : AdminEdit(m)
  BY <1>1, LimitsAssumption DEF AdminEdit, TypeOK
<1>2. CASE ~ \E m \in Nodes : AdminEdit(m)
  BY <1>2 DEF Environment, StartAdding, SendAdd, SendAddFails, SendRemove, SendSync,
              deviceVars, budgets
<1> QED BY <1>1, <1>2

(* Signals, and edits, which excuse a difference, are harmless.            *)
LEMMA EnvironmentExact ==
  ASSUME TypeOK, ExactAlways, Environment
  PROVE  ExactAlways'
<1> SUFFICES ASSUME NEW n \in Nodes
             PROVE  Exact(n)'
  BY DEF ExactAlways
<1>1. CASE edits' # 0
  BY <1>1 DEF Exact
<1>2. CASE job' = job /\ active' = active /\ tags' = tags /\ errored' = errored /\ edits' = edits
  <2>1. pc'[n] = pc[n] \/ (pc[n] \in Idle /\ pc'[n] \in Idle)
    BY EnvironmentWakes
  <2>2. "getTags" \notin Idle /\ "setTags" \notin Idle
    BY DEF Idle
  <2> QED BY <1>2, <2>1, <2>2, ExactKept DEF ExactAlways
<1> QED BY <1>1, <1>2, EnvironmentTags

(* A step of a manager touches the tags of its own device only, and never  *)
(* takes an excuse back.                                                   *)
LEMMA ManagerTags ==
  ASSUME TypeOK, NEW m \in Nodes, Manager(m)
  PROVE  /\ \A n \in Nodes \ {m} : tags'[n] = tags[n]
         /\ ~SetDeviceTags(m) => tags' = tags
         /\ errored \subseteq errored' /\ edits' = edits
<1>1. \A to, j, at : Fail(m, at, to, j) => errored \subseteq errored'
  BY DEF Fail
<1>2. CASE SelectAdd(m) \/ SelectRemove(m) \/ SelectSync(m)
  BY <1>2 DEF SelectAdd, SelectRemove, SelectSync, Handle, deviceVars, budgets
<1>3. CASE GetDeviceTags(m)
  BY <1>1, <1>3 DEF GetDeviceTags, NoFailure, Quiet, deviceVars
<1>4. CASE SetDeviceTags(m)
  BY <1>1, <1>4 DEF SetDeviceTags, NoFailure, Quiet, TypeOK
<1>5. CASE WritePosture(m)
  BY <1>1, <1>5 DEF WritePosture, NoFailure, Quiet
<1>6. CASE GetPostureAttributes(m)
  BY <1>1, <1>6 DEF GetPostureAttributes, NoFailure, Quiet, deviceVars
<1>7. CASE DeleteStale(m)
  BY <1>1, <1>7 DEF DeleteStale, NoFailure, Quiet
<1>8. CASE Block(m) \/ Complete(m) \/ ContinueAsNew(m) \/ Loop(m)
  BY <1>8 DEF Block, Complete, ContinueAsNew, Loop, EndHandler, deviceVars, budgets
<1> QED BY <1>2, <1>3, <1>4, <1>5, <1>6, <1>7, <1>8 DEF Manager

(* A failed attempt that leaves no excuse is retried with the same job.    *)
LEMMA FailRetried ==
  ASSUME TypeOK, NEW n \in Nodes, NEW to, NEW j \in Jobs, NEW at, Fail(n, at, to, j),
         n \notin errored'
  PROVE  pc'[n] = pc[n] /\ job'[n].removed = job[n].removed /\ job'[n].desired = job[n].desired
<1>1. RetriesLeft(job[n].attempt)
  BY DEF Fail
<1> DEFINE r == job[n]
           k == r.attempt + 1
<1>2. job'[n] = [r EXCEPT !.attempt = k, !.at = at] /\ pc' = pc /\ r \in Jobs
  <2>1. job' = [job EXCEPT ![n] = [job[n] EXCEPT !.attempt = @ + 1, !.at = at]]
    BY <1>1 DEF Fail, TypeOK, Jobs
  <2> QED BY <1>1, <2>1 DEF Fail, TypeOK
<1> HIDE DEF r, k
<1>3. job'[n].removed = r.removed /\ job'[n].desired = r.desired
  BY <1>2 DEF Jobs
<1> QED BY <1>2, <1>3 DEF r
(* The arithmetic of a handler: if what the old ledger claimed is claimed  *)
(* by the new one or removed, stripping the removed tags and adding the    *)
(* claimed ones brings the device from the old ledger to the new one.      *)
LEMMA HandleExact ==
  ASSUME TypeOK, NEW n \in Nodes, Exact(n), pc[n] \in Idle,
         NEW kind, NEW grants \in SUBSET Grants, NEW removed, NEW todo,
         Handle(n, kind, grants, removed, todo),
         removed \cap BaseTags[n] \subseteq Ambiguous(n),
         removed \subseteq Claimed(n),
         Claimed(n) \ removed \subseteq TagsOf(Assets, grants)
  PROVE  Exact(n)'
<1> SUFFICES ASSUME n \notin errored', edits' = 0
             PROVE  /\ pc'[n] = "getTags" =>
                         Alike(n, (tags'[n] \ job'[n].removed) \cup Claimed(n)',
                               BaseTags[n] \cup Claimed(n)')
                    /\ pc'[n] # "setTags"
                    /\ pc'[n] # "getTags" => Alike(n, tags'[n], BaseTags[n] \cup Claimed(n)')
  BY DEF Exact, Alike, Ambiguous
<1> DEFINE C == TagsOf(Assets, grants)
<1>1. tags' = tags /\ errored' = errored /\ edits' = edits
  BY DEF Handle, deviceVars, budgets
<1>2. /\ pc'[n] \in {"getTags", "posture", "getPosture", "finish"}
      /\ active'[n] = grants /\ job'[n].removed = removed
  BY HandleEffect
<1>3. Claimed(n)' = C
  BY <1>2 DEF Claimed
<1>4. pc'[n] # "getTags" => C = {} /\ removed = {}
  BY DEF Handle, NothingToDo, TypeOK
<1>5. Alike(n, tags[n], BaseTags[n] \cup Claimed(n))
  BY <1>1 DEF Exact, Idle
<1> HIDE DEF C
<1>6. Alike(n, (tags[n] \ removed) \cup C, BaseTags[n] \cup C)
  BY <1>5 DEF Alike, C
<1> QED BY <1>1, <1>2, <1>3, <1>4, <1>6 DEF Alike

(* A larger ledger claims no less; a ledger without one grant claims all   *)
(* the others' tags.                                                       *)
LEMMA ClaimsGrow ==
  ASSUME NEW S, NEW T, NEW g
  PROVE  /\ S \subseteq T => TagsOf(Assets, S) \subseteq TagsOf(Assets, T)
         /\ g \in S => /\ Assets[g].tags \subseteq TagsOf(Assets, S)
                       /\ TagsOf(Assets, S) \ Assets[g].tags \subseteq TagsOf(Assets, S \ {g})
BY DEF TagsOf

(* Every case of the selector starts a handler that knows how far the      *)
(* device is from the ledger.                                              *)
LEMMA SelectExact ==
  ASSUME TypeOK, Signals, NEW n \in Nodes, Exact(n),
         SelectAdd(n) \/ SelectRemove(n) \/ SelectSync(n)
  PROVE  Exact(n)'
<1>1. pc[n] \in Idle
  BY DEF SelectAdd, SelectRemove, SelectSync, AddReady, RemoveReady, SyncReady, Idle
<1>2. CASE SelectAdd(n)
  <2> DEFINE g == Head(addCh[n])
  <2>1. addCh[n] # <<>> /\ addCh[n] \in Seq(Grants)
    BY <1>2 DEF SelectAdd, AddReady, TypeOK
  <2>2. g \in Grants
    BY <2>1, HeadTailProperties
  <2>3. Handle(n, "add", active[n] \cup {g}, {}, CellsOf(n, Assets[g]))
    BY <1>2 DEF SelectAdd
  <2> HIDE DEF g
  <2>4. active[n] \cup {g} \in SUBSET Grants
    BY <2>2 DEF TypeOK
  <2>5. Claimed(n) \subseteq TagsOf(Assets, active[n] \cup {g})
    BY ClaimsGrow DEF Claimed
  <2> QED BY <1>1, <2>3, <2>4, <2>5, HandleExact
<1>3. CASE SelectRemove(n)
  <2> DEFINE g    == Head(removeCh[n])
             a    == IF g \in active[n] THEN Assets[g] ELSE ZeroAssets
             rest == active[n] \ {g}
             todo == orphanedPostureAttributes(n, a, ClaimedCells(n, Assets, rest))
  <2>1. Handle(n, "remove", rest, a.tags, todo)
    BY <1>3 DEF SelectRemove
  <2> HIDE DEF g, todo
  <2>2. rest \in SUBSET Grants
    BY DEF TypeOK
  <2>3. CASE g \in active[n]
    <3>1. Target[g] = n /\ g \in Grants
      BY <2>3 DEF Signals, Routed, TypeOK
    <3>2. Assets[g].tags \subseteq TagsOf(Assets, {h \in Grants : Target[h] = n})
      BY <3>1, ClaimsGrow
    <3>3. a.tags \cap BaseTags[n] \subseteq Ambiguous(n)
      BY <2>3, <3>2 DEF Ambiguous
    <3>4. a.tags \subseteq Claimed(n) /\ Claimed(n) \ a.tags \subseteq TagsOf(Assets, rest)
      BY <2>3, ClaimsGrow DEF Claimed
    <3> HIDE DEF a, rest
    <3> QED BY <1>1, <2>1, <2>2, <3>3, <3>4, HandleExact
  <2>4. CASE g \notin active[n]
    <3>1. a.tags = {} /\ rest = active[n]
      BY <2>4 DEF ZeroAssets
    <3> HIDE DEF a, rest
    <3> QED BY <1>1, <2>1, <2>2, <3>1, HandleExact DEF Claimed
  <2> QED BY <2>3, <2>4
<1>4. CASE SelectSync(n)
  <2>1. Handle(n, "sync", active[n], {}, Expected(n)) /\ active[n] \in SUBSET Grants
    BY <1>4 DEF SelectSync, TypeOK
  <2> QED BY <1>1, <2>1, HandleExact DEF Claimed
<1> QED BY <1>2, <1>3, <1>4

(* A call about tags moves from one part of Exact to the next; one about   *)
(* posture touches no tag; one that gives up leaves an excuse.             *)
LEMMA CallExact ==
  ASSUME TypeOK, NEW n \in Nodes, Exact(n), Manager(n),
         \/ GetDeviceTags(n) \/ SetDeviceTags(n) \/ WritePosture(n)
         \/ GetPostureAttributes(n) \/ DeleteStale(n)
  PROVE  Exact(n)'
<1> SUFFICES ASSUME n \notin errored', edits' = 0
             PROVE  Exact(n)'
  BY DEF Exact
<1>1. n \notin errored /\ edits = 0 /\ job[n] \in Jobs
  BY ManagerTags DEF TypeOK
<1>2. active' = active /\ Claimed(n)' = Claimed(n)
  BY DEF GetDeviceTags, SetDeviceTags, WritePosture, GetPostureAttributes, DeleteStale,
         Quiet, Claimed
<1>3. \A j : AfterTags(j) \notin {"getTags", "setTags"}
  BY DEF AfterTags
<1>4. CASE GetDeviceTags(n)
  <2> DEFINE desired == computeDesiredTags(tags[n], Claimed(n), job[n].removed)
             j == [job[n] EXCEPT !.desired = desired]
  <2>1. desired = (tags[n] \ job[n].removed) \cup Claimed(n) /\ desired \in SUBSET Tags
    BY TagsOfType DEF TypeOK, computeDesiredTags, Claimed
  <2> HIDE DEF desired
  <2>2. j \in Jobs /\ j.desired = desired
    BY <1>1, <2>1 DEF Jobs
  <2> HIDE DEF j
  <2>3. /\ pc[n] = "getTags" /\ tags' = tags
        /\ Return(n, "setTags", j) \/ Fail(n, {}, AfterTags(job[n]), job[n])
    BY <1>4 DEF GetDeviceTags, deviceVars, j, desired
  <2>4. CASE Return(n, "setTags", j)
    <3>1. pc'[n] = "setTags" /\ job'[n].desired = desired
      BY <2>2, <2>4, ReturnEffect
    <3>2. Alike(n, desired, BaseTags[n] \cup Claimed(n))
      BY <1>1, <2>1, <2>3 DEF Exact
    <3> QED BY <1>2, <3>1, <3>2 DEF Exact, Alike, Ambiguous
  <2>5. CASE Fail(n, {}, AfterTags(job[n]), job[n])
    <3>1. pc'[n] = pc[n] /\ job'[n].removed = job[n].removed
      BY <1>1, <2>5, FailRetried
    <3> QED BY <1>1, <1>2, <2>3, <3>1 DEF Exact, Alike, Ambiguous
  <2> QED BY <2>3, <2>4, <2>5
<1>5. CASE SetDeviceTags(n)
  <2>1. Alike(n, job[n].desired, BaseTags[n] \cup Claimed(n))
    BY <1>1, <1>5 DEF SetDeviceTags, Exact
  <2>2. \/ tags'[n] = job[n].desired /\ Return(n, AfterTags(job[n]), job[n])
        \/ Fail(n, {}, AfterTags(job[n]), job[n])
    BY <1>5 DEF SetDeviceTags, TypeOK
  <2>3. CASE tags'[n] = job[n].desired /\ Return(n, AfterTags(job[n]), job[n])
    <3>1. pc'[n] \notin {"getTags", "setTags"}
      BY <1>1, <1>3, <2>3, ReturnEffect
    <3> QED BY <1>2, <2>1, <2>3, <3>1 DEF Exact, Alike, Ambiguous
  <2>4. CASE Fail(n, {}, AfterTags(job[n]), job[n])
    <3>1. pc'[n] = "setTags" /\ job'[n].desired = job[n].desired
      BY <1>1, <1>5, <2>4, FailRetried DEF SetDeviceTags
    <3> QED BY <1>2, <2>1, <3>1 DEF Exact, Alike, Ambiguous
  <2> QED BY <2>2, <2>3, <2>4
<1>6. CASE WritePosture(n) \/ GetPostureAttributes(n) \/ DeleteStale(n)
  <2>1. pc[n] \in {"posture", "getPosture", "delStale"} /\ tags' = tags
    BY <1>6 DEF WritePosture, GetPostureAttributes, DeleteStale, deviceVars
  <2>2. ASSUME NEW to, to \notin {"getTags", "setTags"}, NEW j, Return(n, to, j)
        PROVE  pc'[n] \notin {"getTags", "setTags"}
    BY <2>2 DEF Return, TypeOK
  <2>3. ASSUME NEW to, to \notin {"getTags", "setTags"}, NEW j, NEW at, Fail(n, at, to, j)
        PROVE  pc'[n] \notin {"getTags", "setTags"}
    BY <2>1, <2>2, <2>3 DEF Fail
  <2>4. CASE WritePosture(n)
    <3>1. PICK c, j, e : Return(n, AfterTags(j), j) \/ Fail(n, {c}, "finish", e)
      BY <2>4 DEF WritePosture
    <3>2. pc'[n] \notin {"getTags", "setTags"}
      BY <1>3, <2>2, <2>3, <3>1
    <3> QED BY <1>1, <1>2, <2>1, <3>2, ExactKept
  <2>5. CASE GetPostureAttributes(n)
    <3>1. PICK j : \/ Return(n, "finish", j) \/ Return(n, "delStale", j)
                   \/ Fail(n, {}, "finish", job[n])
      BY <2>5 DEF GetPostureAttributes
    <3>2. pc'[n] \notin {"getTags", "setTags"}
      BY <2>2, <2>3, <3>1
    <3> QED BY <1>1, <1>2, <2>1, <3>2, ExactKept
  <2>6. CASE DeleteStale(n)
    <3>1. PICK c \in InTurn(n) :
            LET j  == [job[n] EXCEPT !.todo = @ \ {c}]
                to == IF j.todo = {} THEN "finish" ELSE "delStale" IN
            Return(n, to, j) \/ Fail(n, {c}, to, j)
      BY <2>6 DEF DeleteStale
    <3>2. pc'[n] \notin {"getTags", "setTags"}
      BY <2>2, <2>3, <3>1
    <3> QED BY <1>1, <1>2, <2>1, <3>2, ExactKept
  <2> QED BY <1>6, <2>4, <2>5, <2>6
<1> QED BY <1>4, <1>5, <1>6

(* The selector runs where no call does.                                   *)
LEMMA SelectNotSet ==
  ASSUME NEW n \in Nodes, SelectAdd(n) \/ SelectRemove(n) \/ SelectSync(n)
  PROVE  ~SetDeviceTags(n)
BY DEF SelectAdd, SelectRemove, SelectSync, AddReady, RemoveReady, SyncReady, SetDeviceTags

(* What a step of a manager does to the tags in its hands.                 *)
LEMMA TagsInHand ==
  ASSUME TypeOK, NEW n \in Nodes, Manager(n)
  PROVE  /\ tags'[n] = tags[n] \/ (pc[n] = "setTags" /\ tags'[n] = job[n].desired)
         /\ pc'[n] = "setTags" =>
              \/ pc[n] = "setTags" /\ job'[n].desired = job[n].desired
              \/ job'[n].desired = computeDesiredTags(tags[n], Claimed(n), job[n].removed)
         /\ job'[n].removed \in {job[n].removed, {}} \cup {Assets[g].tags : g \in Grants}
<1>1. job[n] \in Jobs
  BY DEF TypeOK
<1>2. \A j : AfterTags(j) # "setTags"
  BY DEF AfterTags
<1>3. ~SetDeviceTags(n) => tags' = tags
  BY ManagerTags
<1>4. CASE SelectAdd(n) \/ SelectSync(n)
  <2>1. PICK kind, grants, todo : Handle(n, kind, grants, {}, todo)
    BY <1>4 DEF SelectAdd, SelectSync
  <2>2. pc'[n] # "setTags" /\ job'[n].removed = {}
    BY <2>1, HandleEffect
  <2> QED BY <1>3, <1>4, <2>2, SelectNotSet
<1>5. CASE SelectRemove(n)
  <2> DEFINE g    == Head(removeCh[n])
             a    == IF g \in active[n] THEN Assets[g] ELSE ZeroAssets
             rest == active[n] \ {g}
             todo == orphanedPostureAttributes(n, a, ClaimedCells(n, Assets, rest))
  <2>1. Handle(n, "remove", rest, a.tags, todo)
    BY <1>5 DEF SelectRemove
  <2>2. a.tags \in {{}} \cup {Assets[h].tags : h \in Grants}
    BY DEF ZeroAssets, TypeOK
  <2> HIDE DEF a, rest, todo
  <2>3. pc'[n] # "setTags" /\ job'[n].removed = a.tags
    BY <2>1, HandleEffect
  <2> QED BY <1>3, <1>5, <2>2, <2>3, SelectNotSet
<1>6. CASE GetDeviceTags(n)
  <2> DEFINE desired == computeDesiredTags(tags[n], Claimed(n), job[n].removed)
             j == [job[n] EXCEPT !.desired = desired]
  <2>1. desired \in SUBSET Tags
    BY TagsOfType DEF TypeOK, computeDesiredTags, Claimed
  <2> HIDE DEF desired
  <2>2. j \in Jobs /\ j.desired = desired /\ j.removed = job[n].removed
    BY <1>1, <2>1 DEF Jobs
  <2> HIDE DEF j
  <2>3. /\ pc[n] = "getTags" /\ tags' = tags
        /\ Return(n, "setTags", j) \/ Fail(n, {}, AfterTags(job[n]), job[n])
    BY <1>6 DEF GetDeviceTags, deviceVars, j, desired
  <2>4. CASE Return(n, "setTags", j)
    BY <2>2, <2>3, <2>4, ReturnEffect DEF desired
  <2>5. CASE Fail(n, {}, AfterTags(job[n]), job[n])
    <3>1. Failed(n, {}, AfterTags(job[n]), job[n])
      BY <1>1, <2>5, FailEffect
    <3> QED BY <1>2, <2>3, <3>1 DEF Failed
  <2> QED BY <2>3, <2>4, <2>5
<1>7. CASE SetDeviceTags(n)
  <2>1. /\ pc[n] = "setTags" /\ tags'[n] \in {job[n].desired, tags[n]}
        /\ \/ Return(n, AfterTags(job[n]), job[n])
           \/ Fail(n, {}, AfterTags(job[n]), job[n])
    BY <1>7 DEF SetDeviceTags, TypeOK
  <2>2. CASE Return(n, AfterTags(job[n]), job[n])
    BY <1>1, <1>2, <2>1, <2>2, ReturnEffect
  <2>3. CASE Fail(n, {}, AfterTags(job[n]), job[n])
    <3>1. Failed(n, {}, AfterTags(job[n]), job[n])
      BY <1>1, <2>3, FailEffect
    <3> QED BY <2>1, <3>1 DEF Failed
  <2> QED BY <2>1, <2>2, <2>3
<1>8. CASE WritePosture(n) \/ GetPostureAttributes(n) \/ DeleteStale(n)
  <2>1. pc[n] # "setTags" /\ tags' = tags
    BY <1>8 DEF WritePosture, GetPostureAttributes, DeleteStale, deviceVars
  <2>2. ASSUME NEW to, to # "setTags", NEW j \in Jobs, j.removed = job[n].removed, NEW at,
               Return(n, to, j) \/ Fail(n, at, to, j)
        PROVE  pc'[n] # "setTags" /\ job'[n].removed = job[n].removed
    <3>1. CASE Return(n, to, j)
      BY <2>2, <3>1, ReturnEffect
    <3>2. CASE Fail(n, at, to, j)
      <4>1. Failed(n, at, to, j)
        BY <2>2, <3>2, FailEffect
      <4> QED BY <2>1, <2>2, <4>1 DEF Failed
    <3> QED BY <2>2, <3>1, <3>2
  <2>3. \A S : S \subseteq Cells =>
                LET j == [job[n] EXCEPT !.todo = S]
                IN  j \in Jobs /\ j.removed = job[n].removed /\ j.todo = S
    BY <1>1 DEF Jobs
  <2>4. job[n].todo \subseteq Cells
    BY <1>1 DEF Jobs
  <2>5. CASE WritePosture(n)
    <3>1. PICK c \in InTurn(n) :
            LET j == [job[n] EXCEPT !.todo = @ \ {c}] IN
            \/ Return(n, AfterTags(j), j)
            \/ Fail(n, {c}, "finish", [j EXCEPT !.todo = {}])
      BY <2>5 DEF WritePosture
    <3> DEFINE j == [job[n] EXCEPT !.todo = @ \ {c}]
               e == [j EXCEPT !.todo = {}]
    <3>2. /\ j \in Jobs /\ e \in Jobs
          /\ j.removed = job[n].removed /\ e.removed = job[n].removed
      BY <1>1 DEF Jobs
    <3>3. Return(n, AfterTags(j), j) \/ Fail(n, {c}, "finish", e)
      BY <3>1
    <3> HIDE DEF j, e
    <3>4. pc'[n] # "setTags" /\ job'[n].removed = job[n].removed
      BY <1>2, <2>2, <3>2, <3>3
    <3> QED BY <2>1, <3>4
  <2>6. CASE GetPostureAttributes(n)
    <3> DEFINE stale == staleCells(n, posture, CustomKeys, Expected(n))
               j     == [job[n] EXCEPT !.todo = stale]
               to    == IF stale = {} THEN "finish" ELSE "delStale"
    <3>1. stale \subseteq Cells /\ to # "setTags"
      BY DEF TypeOK, staleCells
    <3>2. Return(n, to, j) \/ Fail(n, {}, "finish", job[n])
      BY <2>6 DEF GetPostureAttributes
    <3> HIDE DEF stale, to
    <3>3. j \in Jobs /\ j.removed = job[n].removed
      BY <2>3, <3>1
    <3> HIDE DEF j
    <3>4. pc'[n] # "setTags" /\ job'[n].removed = job[n].removed
      BY <1>1, <2>2, <3>1, <3>2, <3>3
    <3> QED BY <2>1, <3>4
  <2>7. CASE DeleteStale(n)
    <3>1. PICK c \in InTurn(n) :
            LET j  == [job[n] EXCEPT !.todo = @ \ {c}]
                to == IF j.todo = {} THEN "finish" ELSE "delStale" IN
            Return(n, to, j) \/ Fail(n, {c}, to, j)
      BY <2>7 DEF DeleteStale
    <3> DEFINE j  == [job[n] EXCEPT !.todo = @ \ {c}]
               to == IF j.todo = {} THEN "finish" ELSE "delStale"
    <3>2. j \in Jobs /\ j.removed = job[n].removed /\ to # "setTags"
      BY <1>1 DEF Jobs
    <3>3. Return(n, to, j) \/ Fail(n, {c}, to, j)
      BY <3>1
    <3> HIDE DEF j, to
    <3>4. pc'[n] # "setTags" /\ job'[n].removed = job[n].removed
      BY <2>2, <3>2, <3>3
    <3> QED BY <2>1, <3>4
  <2> QED BY <1>8, <2>5, <2>6, <2>7
<1>9. CASE Block(n) \/ Complete(n) \/ ContinueAsNew(n) \/ Loop(n)
  <2>1. /\ pc'[n] # "setTags" /\ tags' = tags
        /\ job'[n] \in {job[n], NoJob}
    BY <1>9 DEF Block, Complete, ContinueAsNew, Loop, EndHandler, deviceVars, TypeOK
  <2>2. NoJob.removed = {}
    BY DEF NoJob, NewJob
  <2> QED BY <2>1, <2>2
<1> QED BY <1>4, <1>5, <1>6, <1>7, <1>8, <1>9 DEF Manager

(* Exact is kept by every step.                                            *)
LEMMA NextExact ==
  ASSUME TypeOK, Signals, ExactAlways, [Next]_vars
  PROVE  ExactAlways'
<1>1. ASSUME NEW m \in Nodes, Manager(m), NEW n \in Nodes
      PROVE  Exact(n)'
  <2>1. /\ n \notin errored' /\ edits' = 0 => n \notin errored /\ edits = 0
        /\ n # m => tags'[n] = tags[n]
        /\ ~SetDeviceTags(m) => tags' = tags
    BY <1>1, ManagerTags
  <2>2. Exact(n)
    BY DEF ExactAlways
  <2>3. CASE n # m
    BY <1>1, <2>1, <2>2, <2>3, OthersKept, ExactKept
  <2>4. CASE n = m
    <3>1. CASE SelectAdd(n) \/ SelectRemove(n) \/ SelectSync(n)
      BY <2>2, <3>1, SelectExact
    <3>2. CASE \/ GetDeviceTags(n) \/ SetDeviceTags(n) \/ WritePosture(n)
               \/ GetPostureAttributes(n) \/ DeleteStale(n)
      BY <1>1, <2>2, <2>4, <3>2, CallExact
    <3>3. CASE Block(n) \/ Complete(n) \/ ContinueAsNew(n) \/ Loop(n)
      <4>1. /\ pc[n] \notin {"getTags", "setTags"} /\ pc'[n] \notin {"getTags", "setTags"}
            /\ active' = active /\ tags' = tags
        BY <3>3 DEF Block, Complete, ContinueAsNew, Loop, EndHandler, TypeOK, deviceVars
      <4> QED BY <2>1, <2>2, <4>1, ExactKept
    <3> QED BY <1>1, <2>4, <3>1, <3>2, <3>3 DEF Manager
  <2> QED BY <2>3, <2>4
<1>2. CASE UNCHANGED vars
  BY <1>2, ExactKept DEF vars, deviceVars, budgets, ExactAlways
<1> QED BY <1>1, <1>2, EnvironmentExact DEF Next, ExactAlways

(* At first the device has its own tags.                                   *)
LEMMA InitExact == Init => ExactAlways
BY TagsOfNone DEF Init, ExactAlways, Exact, Alike, Claimed

(* Between handlers Exact is what LedgerExact says.                        *)
LEMMA ExactSuffices == ExactAlways => LedgerExact
BY DEF ExactAlways, Exact, LedgerExact, Alike, Idle

(* Between handlers a device carries exactly its own tags and those of the *)
(* grants in its manager's ledger, whatever attempts were repeated and     *)
(* signals reordered, as long as no call gave up and nobody else edited.   *)
THEOREM DeviceFollowsLedger == Spec => []LedgerExact
<1>1. TypeOK /\ Signals /\ ExactAlways /\ [Next]_vars => ExactAlways'
  BY NextExact
<1> QED BY InitExact, <1>1, ExactSuffices, TypeCorrect, SignalsInOrder, PTL DEF Spec
=============================================================================
