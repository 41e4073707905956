----------------------------- MODULE PolicyEngine -----------------------------
(***************************************************************************)
(* The pure part of authorization: resource scopes and delegations         *)
(* (crates/contract), and the policy evaluator (crates/authz) that answers *)
(* for humans, agents and services.                                        *)
(*                                                                         *)
(* One tenant: every store the evaluator's inputs come from is filtered by *)
(* the tenant.  A decision keeps its outcome and the delegation it rests   *)
(* on; the denial reasons, which no caller here tells apart, are left out. *)
(* So is Condition::TimeBound.                                             *)
(***************************************************************************)
EXTENDS Integers, Sequences

CONSTANTS
    Principal,       \* principal ids
    Capability,
    Role,            \* what the claims of a principal say
    ResourceType,
    ResourceId,      \* ids other than "*"
    AnyId,           \* the id "*"
    Attribute,       \* attribute keys, "tenant" among them
    AttributeValue,
    None             \* Option::None

ASSUME PolicyEngineAssumption ==
    /\ AnyId \notin ResourceId
    /\ None \notin ResourceType \cup ResourceId \cup {AnyId} \cup AttributeValue \cup Role

(***************************************************************************)
(* Resource scopes.  An attribute a scope does not mention is None in it;  *)
(* the attributes of a resource are those its resolver returns, and its    *)
(* tenant.                                                                 *)
(***************************************************************************)

ResourceScope ==
    [resource_type : ResourceType \cup {None},
     resource_id   : ResourceId \cup {AnyId, None},
     attributes    : [Attribute -> AttributeValue \cup {None}]]

\* A request for a whole collection has the id "*".
Resource ==
    [resource_type : ResourceType,
     resource_id   : ResourceId \cup {AnyId},
     attributes    : [Attribute -> AttributeValue \cup {None}]]

any == [resource_type |-> None, resource_id |-> None, attributes |-> [k \in Attribute |-> None]]

is_unconstrained(scope) == scope = any

is_subset_of(scope, parent) ==
    /\ parent.resource_type # None => scope.resource_type = parent.resource_type
    /\ parent.resource_id # None => scope.resource_id = parent.resource_id
    /\ \A k \in Attribute :
        parent.attributes[k] # None => scope.attributes[k] = parent.attributes[k]

\* resource_scope_matches and delegation_scope_matches are the same function.
resource_scope_matches(scope, resource) ==
    \/ is_unconstrained(scope)
    \/ /\ resource # None
       /\ scope.resource_type \in {None, resource.resource_type}
       /\ scope.resource_id \in {None, AnyId, resource.resource_id}
       /\ \A k \in Attribute : scope.attributes[k] \in {None, resource.attributes[k]}

(***************************************************************************)
(* Delegations.  Ids are numbers in the order of the ids, which is the     *)
(* order list_delegations_for_delegate sorts by.                           *)
(***************************************************************************)

Delegation ==
    [id : Nat \ {0}, delegator : Principal, delegate : Principal,
     capabilities : Seq(Capability), resource_scope : ResourceScope,
     issued_at : Nat, expires_at : Nat \cup {None}, revoked : BOOLEAN, chain : Seq(Nat \ {0})]

Covers(delegation, capability) ==
    \E k \in DOMAIN delegation.capabilities : delegation.capabilities[k] = capability

Bug_IgnoreRevocation(delegation, now) ==
    /\ delegation.issued_at <= now
    /\ delegation.expires_at # None => now < delegation.expires_at

is_valid_at(delegation, now) ==
    /\ ~ delegation.revoked
    /\ delegation.issued_at <= now
    /\ delegation.expires_at # None => now < delegation.expires_at

\* The entry with the least id of a set of delegations, None if it is empty.
First(set) ==
    IF set = {} THEN None ELSE CHOOSE d \in set : \A e \in set : d.id <= e.id

\* The first delegation that is valid now and covers the capability, or else
\* the first that covers it.
pick_delegation(delegations, capability, now) ==
    LET covering == {d \in delegations : Covers(d, capability)}
        valid == {d \in covering : is_valid_at(d, now)}
    IN  IF valid # {} THEN First(valid) ELSE First(covering)

(***************************************************************************)
(* Policies: a sequence of rules.  `role` is the claim condition (None for *)
(* Always), `needs` the resources that pass its conditions on the resource *)
(* and `target` the resources and actions its selectors admit (None where  *)
(* the rule has no such part).                                             *)
(***************************************************************************)

Rule ==
    [capability : Capability, role : Role \cup {None},
     needs : (SUBSET Resource) \cup {None}, target : (SUBSET Resource) \cup {None},
     effect : {"Allow", "Deny"}]

\* A principal as the store returns it.
PrincipalRecord ==
    [id : Principal, kind : {"Human", "Agent", "Service"},
     state : {"Active", "Suspended", "Revoked", "Retired", None}, claims : SUBSET Role]

\* assert_principal_is_usable, and the agent checks of the evaluator.
is_usable(principal) == principal.kind = "Agent" => principal.state = "Active"

evaluate_condition(rule, principal, resource) ==
    /\ rule.role = None \/ rule.role \in principal.claims
    /\ rule.needs = None \/ (resource # None /\ resource \in rule.needs)

\* A rule for the capability whose conditions hold without a resource.  The
\* effect and the selectors are not looked at.
GrantedByClaims(policy, principal, capability) ==
    \E k \in DOMAIN policy :
        /\ policy[k].capability = capability
        /\ evaluate_condition(policy[k], principal, None)

\* evaluate_with_delegations: what the envelope of a principal allows.
EnvelopeAllows(policy, principal, delegations, capability, now) ==
    /\ is_usable(principal)
    /\ \/ GrantedByClaims(policy, principal, capability)
       \/ \E d \in delegations : is_valid_at(d, now) /\ Covers(d, capability)

\* context_for: the delegation of the first delegated grant of the envelope.
ContextDelegation(policy, principal, delegations, now) ==
    First({d \in delegations :
            /\ is_usable(principal)
            /\ is_valid_at(d, now)
            /\ \E c \in Capability :
                Covers(d, c) /\ ~ GrantedByClaims(policy, principal, c)})

\* A decision; delegation is 0 when it does not rest on one.
Decision == [allow : BOOLEAN, delegation : Nat]

Denied == [allow |-> FALSE, delegation |-> 0]
Allowed(id) == [allow |-> TRUE, delegation |-> id]

\* What an agent may do by a delegation alone, before its scope is looked at.
DelegationAllows(principal, delegation, capability, now) ==
    /\ principal.kind = "Agent"
    /\ delegation # None
    /\ is_valid_at(delegation, now)
    /\ Covers(delegation, capability)

evaluate_capability(policy, principal, delegation, capability, now) ==
    IF ~ is_usable(principal) THEN Denied
    ELSE IF GrantedByClaims(policy, principal, capability) THEN Allowed(0)
    ELSE IF DelegationAllows(principal, delegation, capability, now) THEN Allowed(delegation.id)
    ELSE Denied

\* The rules that decide a request: capability, selectors and conditions fit.
Deciding(policy, principal, capability, resource) ==
    {k \in DOMAIN policy :
        /\ policy[k].capability = capability
        /\ policy[k].target = None \/ (resource # None /\ resource \in policy[k].target)
        /\ evaluate_condition(policy[k], principal, resource)}

evaluate_authorization_request(policy, principal, delegation, capability, resource, now) ==
    LET rules == Deciding(policy, principal, capability, resource)
        first == CHOOSE k \in rules : \A j \in rules : k <= j
    IN  IF ~ is_usable(principal) THEN Denied
        ELSE IF rules # {}
             THEN IF policy[first].effect = "Allow" THEN Allowed(0) ELSE Denied
        ELSE IF /\ DelegationAllows(principal, delegation, capability, now)
                /\ resource_scope_matches(delegation.resource_scope, resource)
             THEN Allowed(delegation.id)
        ELSE Denied
=============================================================================
