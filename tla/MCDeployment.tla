---------------------------- MODULE MCDeployment ----------------------------
(***************************************************************************)
(* Instances of Deployment for TLC.                                        *)
(***************************************************************************)
EXTENDS Deployment, TLC

CONSTANTS
  ann, bob,             (* Users; bob approves.                            *)
  laptop,               (* Device ann connects from.                       *)
  box,                  (* Device that grants are asked for.               *)
  ta, tb, badTag,       (* Tags; badTag is malformed.                      *)
  k1,                   (* A posture key.                                  *)
  admin,                (* A role.                                         *)
  svcA, svcB            (* VIP services.                                   *)

Attr(target) == [key |-> k1, hasValue |-> TRUE, target |-> target]

Entry(name, action, risk, approvers, ts, max) ==
  [ name |-> name, action |-> action, risk |-> risk, approvers |-> approvers,
    tags |-> ts, attrs |-> {Attr("")}, maxDuration |-> max, role |-> admin ]

(* Levels not written in lower case, or with spaces.                       *)
SomeSpellings == "Medium" :> "medium" @@ " High " :> "high" @@ "LOW" :> "low"

Ssh(risk, approvers) == Entry("ssh", "", risk, approvers, {ta}, 1)
Role                 == Entry("role", "user_role", " High ", {bob}, {}, 1)
(* A maximum of zero is accepted, but permits no request.                  *)
Web                  == Entry("web", "tag", "low", {}, {tb}, 0)

SshOnly  == [grants |-> <<Ssh("Medium", {bob})>>, service |-> [name |-> svcA, port |-> 1]]
WithRole == [grants |-> <<Ssh("low", {}), Role>>, service |-> [name |-> svcA, port |-> 2]]
NoVIP    == [grants |-> <<Web, Role>>, service |-> NoService]
OtherVIP == [grants |-> <<Ssh("low", {})>>, service |-> [name |-> svcB, port |-> 1]]

(* Refused: nobody may approve.                                            *)
NobodyApproves == [SshOnly EXCEPT !.grants = <<Ssh("Medium", {})>>]

SomeConfigs == {SshOnly, WithRole, NoVIP, OtherVIP, NobodyApproves}

(* Refused for other reasons, so that they make no difference to a run:    *)
(* a malformed tag, no effect at all, a role that is none, an action that  *)
(* is none, a duration that is none, a name given twice.                   *)
ASSUME OtherRefusals ==
  LET ssh == Ssh("low", {}) IN
  \A grants \in { << [ssh EXCEPT !.tags = {ta, badTag}] >>,
                  << [ssh EXCEPT !.tags = {}, !.attrs = {}] >>,
                  << [ssh EXCEPT !.attrs = {Attr("nowhere")}] >>,
                  << [Role EXCEPT !.role = ann] >>,
                  << [ssh EXCEPT !.action = "reboot"] >>,
                  << [ssh EXCEPT !.maxDuration = NotADuration] >>,
                  << ssh, Role, Ssh("medium", {bob}) >> } :
    ~Accepted(grants)

(* The levels as a configuration may have them.                            *)
ASSUME Levels ==
  /\ \A s \in {"medium", "Medium"} : ParseRiskLevel(s) = 1
  /\ \A s \in {"high", " High "}   : ParseRiskLevel(s) = 2
  /\ \A s \in {"low", "LOW", "", "medum"} : ParseRiskLevel(s) = RiskLow

(* laptop is ann's, box has tags.                                          *)
SomeUsers == laptop :> ann @@ box :> Nobody

SomeClients ==
  [via : {"direct"}, device : {laptop, box}, header : {Nobody, bob}]
    \cup [via : {"service"}, device : {NoNode}, header : {Nobody, bob}]

SomeRequests ==
  [name : {"ssh", "role", "web", "none"}, target : {box, bob}, duration : 0 .. 2]
=============================================================================
