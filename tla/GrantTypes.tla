------------------------------ MODULE GrantTypes ------------------------------
(***************************************************************************)
(* The grant type store of internal/grant/policy.go and the grant types of *)
(* types.go: what of a configuration is accepted, and what it becomes.     *)
(*                                                                         *)
(* Texts are reduced to what the code asks of them: a tag is well formed   *)
(* or not, a key has the prefix "custom:" or not, a duration parses or     *)
(* not.  The store reports the first error; here it accepts or does not.   *)
(***************************************************************************)
EXTENDS Naturals, Functions

CONSTANTS
  WellFormedTags,   (* The tags that validateTag lets pass.               *)
  PrefixedKeys,     (* The keys with prefix "custom:".                    *)
  ValidRoles,       (* The roles that a grant may give.                   *)
  NotADuration,     (* A text that time.ParseDuration refuses.            *)
  Spelling          (* Spelling[s]: s trimmed and in lower case, for the  *)
                    (* levels s that are not written so.                  *)

(* The words for the levels are trimmed and in lower case.                 *)
ASSUME SpellingAssumption == {"low", "medium", "high"} \cap DOMAIN Spelling = {}

RiskLow == 0

(* strings.ToLower(strings.TrimSpace(s)).                                  *)
Normalised(s) == IF s \in DOMAIN Spelling THEN Spelling[s] ELSE s

(* Anything but "medium" and "high", a misspelt level too, is low.         *)
ParseRiskLevel(s) ==
  CASE Normalised(s) = "medium" -> 1
    [] Normalised(s) = "high"   -> 2
    [] OTHER                    -> RiskLow

RiskString(r) == CASE r = 1 -> "medium" [] r = 2 -> "high" [] OTHER -> "low"

ActionOf(c) == IF c.action = "" THEN "tag" ELSE c.action

validateTag(tag) == tag \in WellFormedTags

validatePostureAttribute(pa) ==
  /\ pa.key \in PrefixedKeys
  /\ pa.hasValue
  /\ pa.target \in {"", "requester", "target"}

(* Where an attribute goes that does not say so.                           *)
convertPostureAttribute(pa) ==
  [key |-> pa.key, target |-> IF pa.target = "" THEN "requester" ELSE pa.target]

(* What the action needs is there, and is valid.                           *)
ValidAction(c) ==
  CASE ActionOf(c) = "tag" ->
         /\ c.tags # {} \/ c.attrs # {}
         /\ \A tag \in c.tags : validateTag(tag)
         /\ \A pa \in c.attrs : validatePostureAttribute(pa)
    [] ActionOf(c) = "user_role"    -> c.role \in ValidRoles
    [] ActionOf(c) = "user_restore" -> TRUE
    [] OTHER -> FALSE

ApproversGiven(c) == ParseRiskLevel(c.risk) > RiskLow => c.approvers # {}

(* A maximum duration of zero, or less, is a duration all the same.        *)
Valid(c) == c.maxDuration # NotADuration /\ ValidAction(c) /\ ApproversGiven(c)

(* NewYAMLGrantTypeStore returns a store, not an error.                    *)
Accepted(configs) ==
  /\ \A i \in DOMAIN configs : Valid(configs[i])
  /\ \A i, j \in DOMAIN configs : configs[i].name = configs[j].name => i = j

(* The GrantType made of an entry.                                         *)
GrantTypeOf(c) ==
  [ tags        |-> c.tags,
    attrs       |-> {convertPostureAttribute(pa) : pa \in c.attrs},
    maxDuration |-> c.maxDuration,
    riskLevel   |-> ParseRiskLevel(c.risk),
    approvers   |-> c.approvers,
    action      |-> ActionOf(c),
    role        |-> c.role ]

(* The store: Get is its application, List its range.                      *)
NewYAMLGrantTypeStore(configs) ==
  [name \in {configs[i].name : i \in DOMAIN configs} |->
     GrantTypeOf(configs[CHOOSE i \in DOMAIN configs : configs[i].name = name])]

(* A GrantType as a workflow gets it, by way of JSON: levels become words  *)
(* and levels again; durations, tags and names come back as they were.     *)
Transported(gt) == [gt EXCEPT !.riskLevel = ParseRiskLevel(RiskString(@))]

-----------------------------------------------------------------------------
(* Mutant: the condition is the wrong way round.                           *)
UserTypes(store) ==
  {gt \in Range(store) : gt.action \in {"user_role", "user_restore"}}

(* The grant types whose tags and keys the worker collects.                *)
TagTypes(store) ==
  {gt \in Range(store) : gt.action \notin {"user_role", "user_restore"}}

AllGrantTags(store)   == UNION {gt.tags : gt \in TagTypes(store)}
AllPostureKeys(store) == UNION {{pa.key : pa \in gt.attrs} : gt \in TagTypes(store)}

(* What GrantWorkflow and TagManager assume of the type of a grant.        *)
SoundType(gt) ==
  /\ gt.riskLevel > RiskLow => gt.approvers # {}
  /\ gt.action \in {"tag", "user_role", "user_restore"}
  /\ gt.action = "user_role" => gt.role \in ValidRoles
  /\ gt.action = "tag" =>
       /\ gt.tags \subseteq WellFormedTags
       /\ \A pa \in gt.attrs : pa.key \in PrefixedKeys /\ pa.target \in {"requester", "target"}
=============================================================================
