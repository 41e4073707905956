---------------------------- MODULE LiveAuthority ----------------------------
(***************************************************************************)
(* The live authority state of AuthBoundry and the changes that may be     *)
(* made to it (crates/boundary/src/control.rs).  The state overlays the    *)
(* immutable contract: which routes need which capability, the policy of   *)
(* each capability, which providers are switched on and an optional        *)
(* password policy.  Everything here is pure: the operators compute the    *)
(* next state of a change, or Error where the code returns Err.            *)
(*                                                                         *)
(* A BTreeMap is a total function whose absent keys map to None.  Policy,  *)
(* password policy, route and capability values are opaque.                *)
(***************************************************************************)
EXTENDS Integers, Outcome

CONSTANTS
    Route,                \* RouteId: a method and a path
    Capability,           \* capability names
    Policy,               \* authz policies
    Provider,             \* provider names
    PasswordPolicy,       \* password policies a client may ask for
    ValidPasswordPolicy   \* those PasswordPolicy::validate accepts

ASSUME LiveAuthorityAssumption ==
    /\ ValidPasswordPolicy \subseteq PasswordPolicy
    /\ None \notin Capability /\ None \notin Policy
    /\ None \notin PasswordPolicy /\ None \notin BOOLEAN

\* What a PreviewState shows: the live state without its revision.
Content ==
    [route_protection    : [Route -> Capability \cup {None}],
     capability_policies : [Capability -> Policy \cup {None}],
     provider_state      : [Provider -> BOOLEAN \cup {None}],
     password_policy     : ValidPasswordPolicy \cup {None}]

Authority == [content : Content, revision : Nat]

\* LiveAuthorityState::new
NewAuthority ==
    [content |->
        [route_protection    |-> [r \in Route |-> None],
         capability_policies |-> [c \in Capability |-> None],
         provider_state      |-> [p \in Provider |-> None],
         password_policy     |-> None],
     revision |-> 0]

(***************************************************************************)
(* A change id carries the revision the change produced and, for a change  *)
(* of a batch, its index in the batch.  The milliseconds the code also     *)
(* puts in are left out: without them ids are no easier to tell apart.     *)
(***************************************************************************)
ChangeId == [revision : Nat, index : Nat]

\* AuthorityChange without Revert.
EditChange ==
    [type : {"ProtectRoute"}, route : Route, capability : Capability]
    \cup [type : {"UnprotectRoute"}, route : Route]
    \cup [type : {"SetCapabilityPolicy"}, capability : Capability, policy : Policy]
    \cup [type : {"SetProviderEnabled"}, provider : Provider, enabled : BOOLEAN]
    \cup [type : {"SetPasswordPolicy"}, policy : PasswordPolicy]

RevertChange == [type : {"Revert"}, change_id : ChangeId]

Change == EditChange \cup RevertChange

\* The edit a change makes to the content, every other key left as it was.
Edit(content, change) ==
    CASE change.type = "ProtectRoute" ->
            [content EXCEPT !.route_protection[change.route] = change.capability]
      [] change.type = "UnprotectRoute" ->
            [content EXCEPT !.route_protection[change.route] = None]
      [] change.type = "SetCapabilityPolicy" ->
            [content EXCEPT !.capability_policies[change.capability] = change.policy]
      [] change.type = "SetProviderEnabled" ->
            [content EXCEPT !.provider_state[change.provider] = change.enabled]
      [] change.type = "SetPasswordPolicy" ->
            [content EXCEPT !.password_policy = change.policy]

NextRevision(current) == current.revision + 1

Bug_NoValidation(policy) == TRUE
Validates(policy) == policy \in ValidPasswordPolicy

\* apply_change: Err for a password policy that does not validate.
apply_change(current, change) ==
    IF change.type = "SetPasswordPolicy" /\ ~ Validates(change.policy)
    THEN Error
    ELSE [content |-> Edit(current.content, change), revision |-> NextRevision(current)]

Bug_RestoreRevision(current, record) == record.previous_state

Bug_RestoreResult(current, record) ==
    [content |-> record.resulting_state.content, revision |-> NextRevision(current)]

\* apply_revert_change: the whole state from before the recorded change.
apply_revert_change(current, record) ==
    IF current.revision < record.resulting_state.revision
    THEN Error
    ELSE [content |-> record.previous_state.content, revision |-> NextRevision(current)]
=============================================================================
