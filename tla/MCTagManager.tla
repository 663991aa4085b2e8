---------------------------- MODULE MCTagManager ----------------------------
(***************************************************************************)
(* Instances of TagManager for TLC.                                        *)
(***************************************************************************)
EXTENDS TagManager

CONSTANTS
  n1, n2,               (* Devices.                                        *)
  g1, g2, g3,           (* Grants.                                         *)
  ta, tb, tbase,        (* Tags.                                           *)
  k1, k2                (* Posture keys.                                   *)

Attr(k, target) == [key |-> k, target |-> target]

(* Two grants on one device that share a tag and an attribute.             *)
SharedTarget == (g1 :> n1) @@ (g2 :> n1)
SharedAssets ==
  (g1 :> [tags |-> {ta, tb}, posture |-> {Attr(k1, "target")}, requester |-> NoNode]) @@
  (g2 :> [tags |-> {tb}, posture |-> {Attr(k1, "target"), Attr(k2, "target")},
          requester |-> NoNode])
OneBase == (n1 :> {tbase})

(* Two devices; the grant on the first also marks the second, from which   *)
(* it was requested, with an attribute the grant on the second uses too.   *)
CrossTarget == (g1 :> n1) @@ (g2 :> n2)
CrossAssets ==
  (g1 :> [tags |-> {ta}, posture |-> {Attr(k1, "requester")}, requester |-> n2]) @@
  (g2 :> [tags |-> {}, posture |-> {Attr(k1, "target")}, requester |-> NoNode])
TwoBases == (n1 :> {tbase}) @@ (n2 :> {})
=============================================================================
