--------------------------- MODULE GrantLifecycle ---------------------------
(***************************************************************************)
(* What TailGrant promises of every grant, without workflows, signals or   *)
(* retries: it is carried out only with the approval its type asks for,    *)
(* never for longer than the type allows at a time, and once it is over it *)
(* stays over.  GrantWorkflow implements this specification.               *)
(*                                                                         *)
(* Time is a countdown: expiresIn[g] is what is left until ExpiresAt.  The *)
(* constants are those of GrantWorkflow, which states what it assumes.     *)
(***************************************************************************)
EXTENDS Naturals

CONSTANTS
  Grants,       (* Grant IDs.                                             *)
  People,       (* Login names.                                           *)
  Nobody,       (* The empty login name.                                  *)
  Requester,    (* Requester[g]: who asked for g.                         *)
  Approvers,    (* Approvers[g]: who may approve g; everyone if empty.    *)
  Risky,        (* The grants whose type has a risk level above low.      *)
  MaxDuration   (* MaxDuration[g]: of the grant type, in ticks.           *)

VARIABLES
  stage,        (* stage[g]: "none", "pending", "active" or how it ended. *)
  approver,     (* approver[g]: who approved g, or Nobody.                *)
  expiresIn     (* expiresIn[g]: ticks until g may expire.                *)

vars == << stage, approver, expiresIn >>

Ends   == {"expired", "revoked", "denied", "failed"}
Stages == {"none", "pending", "active"} \cup Ends

MayApprove(g, p) ==
  p # Requester[g] /\ (Approvers[g] = {} \/ p \in Approvers[g])

Init ==
  /\ stage = [g \in Grants |-> "none"]
  /\ approver = [g \in Grants |-> Nobody]
  /\ expiresIn = [g \in Grants |-> 0]

(* g moves from one stage to another and nothing else changes.             *)
Moves(g, from, to) ==
  /\ stage[g] = from
  /\ stage' = [stage EXCEPT ![g] = to]
  /\ UNCHANGED approver

Request(g) == Moves(g, "none", "pending") /\ UNCHANGED expiresIn
Deny(g)    == Moves(g, "pending", "denied") /\ UNCHANGED expiresIn
Fail(g)    == Moves(g, "pending", "failed") /\ UNCHANGED expiresIn
Revoke(g)  == Moves(g, "active", "revoked") /\ UNCHANGED expiresIn

Approve(g, p) ==
  /\ stage[g] = "pending"
  /\ approver[g] = Nobody
  /\ MayApprove(g, p)
  /\ approver' = [approver EXCEPT ![g] = p]
  /\ UNCHANGED << stage, expiresIn >>

Activate(g, d) ==
  /\ g \in Risky => approver[g] # Nobody
  /\ d \in 1 .. MaxDuration[g]
  /\ Moves(g, "pending", "active")
  /\ expiresIn' = [expiresIn EXCEPT ![g] = d]

(* An extension counts from now on and may be shorter than what was left.  *)
Extend(g, d) ==
  /\ stage[g] = "active"
  /\ d \in 1 .. MaxDuration[g]
  /\ expiresIn' = [expiresIn EXCEPT ![g] = d]
  /\ UNCHANGED << stage, approver >>

Expire(g) ==
  /\ expiresIn[g] = 0
  /\ Moves(g, "active", "expired")
  /\ UNCHANGED expiresIn

Elapse(left) == [g \in Grants |-> IF left[g] > 0 THEN left[g] - 1 ELSE 0]

Tick ==
  /\ expiresIn' = Elapse(expiresIn)
  /\ UNCHANGED << stage, approver >>

Next ==
  \/ Tick
  \/ \E g \in Grants :
       \/ Request(g) \/ Deny(g) \/ Fail(g) \/ Revoke(g) \/ Expire(g)
       \/ \E p \in People : Approve(g, p)
       \/ \E d \in 1 .. MaxDuration[g] : Activate(g, d) \/ Extend(g, d)

Spec == Init /\ [][Next]_vars
=============================================================================
