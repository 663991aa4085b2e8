--------------------------- MODULE MCGrantWorkflow ---------------------------
(***************************************************************************)
(* Instances of GrantWorkflow for TLC.                                     *)
(***************************************************************************)
EXTENDS GrantWorkflow

CONSTANTS
  g1, g2,               (* Grants.                                         *)
  ann, bob, eve,        (* ann requests, bob approves, eve is on no list.  *)
  u1, u2,               (* Tailnet users.                                  *)
  member, admin         (* Roles.                                          *)

AnnRequests == [g \in Grants |-> ann]
BobApproves == [g \in Grants |-> {ann, bob}]
TwoTicks    == [g \in Grants |-> 2]
OneTick     == [g \in Grants |-> 1]
AllAdmin    == [g \in Grants |-> admin]
AllMembers  == [u \in Users |-> member]
SameUser    == [g \in Grants |-> u1]

RoleGrants    == [g \in Grants |-> "user_role"]

(* A tag grant and a user restore, about different targets.                *)
TagAndRestore == (g1 :> "tag") @@ (g2 :> "user_restore")
OwnUsers      == (g1 :> u1) @@ (g2 :> u2)
=============================================================================
