------------------------------- MODULE TagOps -------------------------------
(***************************************************************************)
(* The pure helpers of internal/grant/tagmanager.go.  Slices and Go maps   *)
(* are sets here: every caller sorts, deduplicates or iterates in random   *)
(* order, so order and multiplicity carry no meaning.  A posture attribute *)
(* is [key, target], its value left out; a cell <<device, key>> is a place *)
(* on the tailnet that can hold an attribute.                              *)
(***************************************************************************)
EXTENDS FiniteSets

CONSTANT
  NoNode        (* The empty device ID of a requester that has no device. *)

(* What a grant asks for on a device: the value type of ActiveGrants.      *)
GrantAssets(tags, keys, nodes) ==
  [ tags      : SUBSET tags,
    posture   : SUBSET [key : keys, target : {"target", "requester"}],
    requester : nodes \cup {NoNode} ]

(* The zero value read from ActiveGrants for an unknown grant.             *)
ZeroAssets == [ tags |-> {}, posture |-> {}, requester |-> NoNode ]

(* Every tag asked for by a set of grants.                                 *)
TagsOf(assets, grants) == UNION { assets[g].tags : g \in grants }

-----------------------------------------------------------------------------
(* Mutant: the removed tags are stripped last, so a tag still claimed by   *)
(* another grant goes with them.                                           *)
StripLast(current, claimed, removed) == (current \cup claimed) \ removed

(* Strip the removed grant's tags, then add what active grants claim.      *)
computeDesiredTags(current, claimed, removed) ==
  (current \ removed) \cup claimed

-----------------------------------------------------------------------------
resolvePostureTarget(target, pa, requester) ==
  IF pa.target = "target" THEN target ELSE requester

(* The cells a grant's attributes name, the one without a device included. *)
CellsOf(node, a) ==
  { << resolvePostureTarget(node, pa, a.requester), pa.key >> : pa \in a.posture }

(* Attributes without a device are skipped by apply and remove alike.      *)
Reachable(cells) == { c \in cells : c[1] # NoNode }

(* The cells the active grants of one target device claim.                 *)
ClaimedCells(node, assets, grants) ==
  UNION { CellsOf(node, assets[g]) : g \in grants }

(* Mutant: the removed grant's attributes are deleted, shared or not.      *)
AllOfRemoved(node, removed, claimed) == CellsOf(node, removed)

(* What of a removed grant no remaining grant claims on the same device.   *)
orphanedPostureAttributes(node, removed, claimed) ==
  CellsOf(node, removed) \ claimed

(* Mutant: only the prefix is looked at, claimed keys go too.              *)
AllCustom(node, posture, custom, expected) ==
  { c \in posture : c[1] = node /\ c[2] \in custom }

(* What a sync deletes: keys of the target device that look grant-managed  *)
(* ("custom:" prefix) and that no active grant expects.                    *)
staleCells(node, posture, custom, expected) ==
  { c \in posture : c[1] = node /\ c[2] \in custom /\ c \notin expected }
=============================================================================
