----------------------------- MODULE MCTailGrant -----------------------------
(***************************************************************************)
(* Instances of TailGrant for TLC.                                         *)
(***************************************************************************)
EXTENDS TailGrant

CONSTANTS
  n1,                   (* A device.                                       *)
  g1, g2,               (* Grants.                                         *)
  ta, tb, tbase,        (* Tags.                                           *)
  ann, bob,             (* ann requests, bob approves.                     *)
  u1, member            (* A user and a role, which tag grants leave be.   *)

AllTag      == [g \in Grants |-> "tag"]
AnnRequests == [g \in Grants |-> ann]
BobApproves == [g \in Grants |-> {ann, bob}]
OneTick     == [g \in Grants |-> 1]
MemberRoles == [u \in Users |-> member]
AllMember   == [g \in Grants |-> member]
SameUser    == [g \in Grants |-> u1]
OneDevice   == [g \in Grants |-> n1]

(* Two grants that share tag tb.                                           *)
SharedTag ==
  [g \in Grants |->
     [tags |-> IF g = g1 THEN {ta, tb} ELSE {tb}, posture |-> {}, requester |-> NoNode]]
OneBase == [n \in Nodes |-> {tbase}]
=============================================================================
