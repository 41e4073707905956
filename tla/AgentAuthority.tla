---------------------------- MODULE AgentAuthority ----------------------------
(***************************************************************************)
(* Who may act for whom: delegations, agents and their runs, and the one   *)
(* enforcement path that every protected request takes                     *)
(* (crates/runtime/src/mesh.rs, crates/boundary/src/runtime.rs).           *)
(*                                                                         *)
(* Request threads share the principal, delegation and run stores and the  *)
(* live capability policies.  Each store is behind a mutex held for one    *)
(* call, so an action is what a thread does around one store call: a       *)
(* request decides on what it has read in several earlier steps, and       *)
(* revocations, cancellations and the clock get in between.                *)
(*                                                                         *)
(* The audit write is the last store call of every handler.  Here it only  *)
(* succeeds or fails; what it writes is left out.  For the handlers that   *)
(* change state it comes after the change and alters nothing but the       *)
(* answer, so it has no step of its own there.                             *)
(***************************************************************************)
EXTENDS PolicyEngine, FiniteSets

CONSTANTS
    Thread,              \* request threads
    InitialPrincipals,   \* the principals at start; None for an id not in use
    TenantPolicy,        \* the tenant's policy, fixed while the process runs
    LivePolicies,        \* policies a SetCapabilityPolicy change may install
    DelegationId,        \* ids clients give to delegations
    RunId,               \* ids of runs
    DelegationRequests,  \* what clients ask delegate for
    RunRequests,         \* what clients ask create_agent_run for
    AccessRequests,      \* the protected requests clients make
    AgentIds,            \* the ids clients post to create_agent
    AgentStates,         \* the states clients move agents to
    ForeignScope,        \* scopes whose tenant attribute names another tenant
    AuditCanFail,        \* whether the audit store may refuse an event
    MaxTime              \* bound on the clock

DelegationRequest ==
    [delegator : Principal, delegate : Principal, capabilities : Seq(Capability),
     resource_scope : ResourceScope, delay : Nat, expires_at : Nat \cup {None}]

RunRequest ==
    [agent : Principal, delegation : Nat \ {0}, parent : Nat,
     capabilities : SUBSET Capability, resource_scope : ResourceScope, expires_at : Nat]

\* resource is None on the routes infer_resource_target has no target for; run
\* is 0 when the request names no run.
AccessRequest ==
    [principal : Principal, capability : Capability, resource : Resource \cup {None}, run : Nat]

\* A live policy may carry an id that is not the id of the tenant's policy.
LivePolicy == [own_id : BOOLEAN, rules : Seq(Rule)]

Run ==
    [agent : Principal, delegation : Nat \ {0}, chain : Seq(Nat \ {0}), parent : Nat,
     capabilities : SUBSET Capability, resource_scope : ResourceScope,
     expires_at : Nat, status : {"Active", "Cancelled"}]

\* The principal store is keyed by the principals' ids.
ASSUME AgentAuthorityAssumption ==
    /\ InitialPrincipals \in [Principal -> PrincipalRecord \cup {None}]
    /\ \A p \in Principal : InitialPrincipals[p] # None => InitialPrincipals[p].id = p
    /\ TenantPolicy \in Seq(Rule)
    /\ LivePolicies \subseteq LivePolicy
    /\ DelegationId \subseteq Nat \ {0}
    /\ RunId \subseteq Nat \ {0}
    /\ DelegationRequests \subseteq DelegationRequest
    /\ RunRequests \subseteq RunRequest
    /\ AccessRequests \subseteq AccessRequest
    /\ AgentIds \subseteq Principal
    /\ AgentStates \subseteq {"Suspended", "Revoked", "Retired"}
    /\ ForeignScope \subseteq ResourceScope
    /\ AuditCanFail \in BOOLEAN
    /\ MaxTime \in Nat
    /\ None \notin PrincipalRecord \cup Delegation \cup Run \cup Resource \cup LivePolicy

VARIABLES
    clock,        \* the boundary's clock, in seconds
    principals,   \* the principal store
    delegations,  \* the delegation store
    runs,         \* the run store
    live,         \* capability_policies of the live authority
    local         \* what each request thread holds on its stack

vars == <<clock, principals, delegations, runs, live, local>>

PC == {"idle", "delegate_check", "delegate_create", "run_check", "run_parent", "run_put",
       "context", "authorize", "mesh", "audit", "answer"}

\* The time and what had been revoked or cancelled when the request came in, and
\* the live policies its capability has had since.  History: only the
\* properties read it.
Begun == [clock : Nat, revoked : SUBSET Nat, cancelled : SUBSET Nat,
          live : SUBSET (LivePolicies \cup {None})]

Local ==
    [pc : PC, request : DelegationRequest \cup RunRequest \cup AccessRequest \cup {None},
     id : Nat, now : Nat, principal : PrincipalRecord \cup {None},
     delegation : Delegation \cup {None}, chain : Seq(Nat \ {0}),
     decision : Decision, begun : Begun]

Idle ==
    [pc |-> "idle", request |-> None, id |-> 0, now |-> 0, principal |-> None,
     delegation |-> None, chain |-> <<>>, decision |-> Denied,
     begun |-> [clock |-> 0, revoked |-> {}, cancelled |-> {}, live |-> {}]]

TypeOK ==
    /\ clock \in Nat
    /\ principals \in [Principal -> PrincipalRecord \cup {None}]
    /\ delegations \in [DelegationId -> Delegation \cup {None}]
    /\ runs \in [RunId -> Run \cup {None}]
    /\ live \in [Capability -> LivePolicies \cup {None}]
    /\ local \in [Thread -> Local]

(***************************************************************************)
(* Reading the stores                                                      *)
(***************************************************************************)

delegations_for(p) ==
    {delegations[i] : i \in {j \in DelegationId :
        delegations[j] # None /\ delegations[j].delegate = p}}

Known(i) == i \in DelegationId /\ delegations[i] # None

\* checked_run: a run that is there, active and not expired.
checked_run(i, now) ==
    /\ i \in RunId /\ runs[i] # None
    /\ runs[i].status = "Active"
    /\ now < runs[i].expires_at

Return(t) == local' = [local EXCEPT ![t] = Idle]

(***************************************************************************)
(* delegate                                                                *)
(***************************************************************************)

\* The checks on the request itself and on the two principals.
Delegate(t) ==
    /\ local[t].pc = "idle"
    /\ \E q \in DelegationRequests, id \in DelegationId :
        LET delegator == principals[q.delegator]
            delegate == principals[q.delegate]
        IN  /\ q.capabilities # <<>>
            /\ q.expires_at # None => q.expires_at > clock + q.delay
            /\ delegator # None /\ delegate # None
            /\ delegate.kind # "Human" /\ is_usable(delegate)
            /\ local' = [local EXCEPT ![t] = [Idle EXCEPT !.pc = "delegate_check",
                    !.request = q, !.id = id, !.now = clock, !.principal = delegator]]
    /\ UNCHANGED <<clock, principals, delegations, runs, live>>

\* The delegation an agent passes a capability on from: its first valid one.
ParentOf(me, capability) ==
    First({d \in delegations_for(me.principal.id) :
            is_valid_at(d, me.now) /\ Covers(d, capability)})

\* The delegator's envelope allows the capability; an agent must also narrow
\* the scope of the delegation it holds the capability by.
Bug_AnyScope(me, capability) ==
    /\ EnvelopeAllows(TenantPolicy, me.principal, delegations_for(me.principal.id),
                      capability, me.now)
    /\ me.principal.kind = "Agent" => ParentOf(me, capability) # None

MayDelegate(me, capability) ==
    /\ EnvelopeAllows(TenantPolicy, me.principal, delegations_for(me.principal.id),
                      capability, me.now)
    /\ me.principal.kind = "Agent" =>
        /\ ParentOf(me, capability) # None
        /\ is_subset_of(me.request.resource_scope, ParentOf(me, capability).resource_scope)

\* The chain follows the parent of the first capability.
Bug_ForgetParent(me) ==
    LET parent == ParentOf(me, Head(me.request.capabilities))
    IN  IF me.principal.kind = "Agent" THEN parent.chain ELSE <<>>

ChainOf(me) ==
    LET parent == ParentOf(me, Head(me.request.capabilities))
    IN  IF me.principal.kind = "Agent" THEN Append(parent.chain, parent.id) ELSE <<>>

DelegateCheck(t) ==
    LET me == local[t]
        wanted == me.request.capabilities
    IN  /\ me.pc = "delegate_check"
        /\ IF \A k \in DOMAIN wanted : MayDelegate(me, wanted[k])
           THEN local' = [local EXCEPT ![t] =
                    [me EXCEPT !.pc = "delegate_create", !.chain = ChainOf(me)]]
           ELSE Return(t)
        /\ UNCHANGED <<clock, principals, delegations, runs, live>>

\* create_delegation: not to oneself, and not under an id already taken.
DelegateCreate(t) ==
    LET me == local[t]
        q == me.request
    IN  /\ me.pc = "delegate_create"
        /\ IF q.delegator = q.delegate \/ delegations[me.id] # None
           THEN UNCHANGED delegations
           ELSE delegations' = [delegations EXCEPT ![me.id] =
                    [id |-> me.id, delegator |-> q.delegator, delegate |-> q.delegate,
                     capabilities |-> q.capabilities, resource_scope |-> q.resource_scope,
                     issued_at |-> me.now + q.delay, expires_at |-> q.expires_at,
                     revoked |-> FALSE, chain |-> me.chain]]
        /\ Return(t)
        /\ UNCHANGED <<clock, principals, runs, live>>

\* revoke_delegation: one store call; revoking again changes nothing.
RevokeDelegation ==
    /\ \E i \in DelegationId :
        /\ delegations[i] # None
        /\ delegations' = [delegations EXCEPT ![i].revoked = TRUE]
    /\ UNCHANGED <<clock, principals, runs, live, local>>

(***************************************************************************)
(* create_agent_run and cancel_agent_run                                   *)
(***************************************************************************)

CreateRun(t) ==
    /\ local[t].pc = "idle"
    /\ \E q \in RunRequests, id \in RunId :
        /\ q.capabilities # {}
        /\ q.expires_at > clock
        /\ principals[q.agent] # None
        /\ principals[q.agent].kind = "Agent" /\ is_usable(principals[q.agent])
        /\ local' = [local EXCEPT ![t] = [Idle EXCEPT !.pc = "run_check",
                        !.request = q, !.id = id, !.now = clock]]
    /\ UNCHANGED <<clock, principals, delegations, runs, live>>

\* The run stays within the delegation: its life, capabilities and scope.
RunFits(q, d, now) ==
    /\ d.delegate = q.agent
    /\ is_valid_at(d, now)
    /\ d.expires_at # None => q.expires_at <= d.expires_at
    /\ \A c \in q.capabilities : Covers(d, c)
    /\ q.resource_scope \notin ForeignScope
    /\ is_subset_of(q.resource_scope, d.resource_scope)

RunCheck(t) ==
    LET me == local[t]
        q == me.request
        d == delegations[q.delegation]
    IN  /\ me.pc = "run_check"
        /\ IF Known(q.delegation) /\ RunFits(q, d, me.now)
           THEN local' = [local EXCEPT ![t] =
                    [me EXCEPT !.pc = IF q.parent = 0 THEN "run_put" ELSE "run_parent",
                               !.chain = Append(d.chain, d.id)]]
           ELSE Return(t)
        /\ UNCHANGED <<clock, principals, delegations, runs, live>>

\* A child run stays within its parent.
Bug_ChildAnyCapability(q, parent) ==
    /\ is_subset_of(q.resource_scope, parent.resource_scope)
    /\ q.expires_at <= parent.expires_at

ChildFits(q, parent) ==
    /\ q.capabilities \subseteq parent.capabilities
    /\ is_subset_of(q.resource_scope, parent.resource_scope)
    /\ q.expires_at <= parent.expires_at

RunParent(t) ==
    LET me == local[t]
        q == me.request
    IN  /\ me.pc = "run_parent"
        /\ IF checked_run(q.parent, me.now) /\ ChildFits(q, runs[q.parent])
           THEN local' = [local EXCEPT ![t].pc = "run_put"]
           ELSE Return(t)
        /\ UNCHANGED <<clock, principals, delegations, runs, live>>

\* put_run: not under an id already taken.
PutRun(t) ==
    LET me == local[t]
        q == me.request
    IN  /\ me.pc = "run_put"
        /\ IF runs[me.id] # None
           THEN UNCHANGED runs
           ELSE runs' = [runs EXCEPT ![me.id] =
                    [agent |-> q.agent, delegation |-> q.delegation, chain |-> me.chain,
                     parent |-> q.parent, capabilities |-> q.capabilities,
                     resource_scope |-> q.resource_scope, expires_at |-> q.expires_at,
                     status |-> "Active"]]
        /\ Return(t)
        /\ UNCHANGED <<clock, principals, delegations, live>>

\* cancel_agent_run: nobody else writes a stored run, so its read and its
\* write are one step.  It does not look at the status, nor at child runs.
CancelRun ==
    /\ \E i \in RunId :
        /\ runs[i] # None
        /\ runs' = [runs EXCEPT ![i].status = "Cancelled"]
    /\ UNCHANGED <<clock, principals, delegations, live, local>>

(***************************************************************************)
(* Agents and live policies                                                *)
(***************************************************************************)

\* suspend_agent, revoke_agent, retire_agent: from any state.
SetAgentState ==
    /\ \E p \in Principal, state \in AgentStates :
        /\ principals[p] # None
        /\ principals[p].kind = "Agent"
        /\ principals' = [principals EXCEPT ![p].state = state]
    /\ UNCHANGED <<clock, delegations, runs, live, local>>

\* create_agent: put_principal, over whatever is stored under the id.
CreateAgent ==
    /\ \E p \in AgentIds :
        principals' = [principals EXCEPT ![p] =
            [id |-> p, kind |-> "Agent", state |-> "Active", claims |-> {}]]
    /\ UNCHANGED <<clock, delegations, runs, live, local>>

\* A request in progress for capability c sees the live policy change.
Sees(me, c, policy) ==
    IF me.pc \in {"context", "authorize", "mesh"} /\ me.request.capability = c
    THEN [me EXCEPT !.begun.live = @ \cup {policy}]
    ELSE me

\* The control plane applies a SetCapabilityPolicy change, or reverts one.
SetLivePolicy ==
    /\ \E c \in Capability, policy \in LivePolicies \cup {None} :
        /\ policy # live[c]
        /\ live' = [live EXCEPT ![c] = policy]
        /\ local' = [t \in Thread |-> Sees(local[t], c, policy)]
    /\ UNCHANGED <<clock, principals, delegations, runs>>

Tick ==
    /\ clock < MaxTime
    /\ clock' = clock + 1
    /\ UNCHANGED <<principals, delegations, runs, live, local>>

(***************************************************************************)
(* enforce                                                                 *)
(***************************************************************************)

Now(capability) ==
    [clock     |-> clock,
     revoked   |-> {i \in DelegationId : Known(i) /\ delegations[i].revoked},
     cancelled |-> {i \in RunId : runs[i] # None /\ runs[i].status = "Cancelled"},
     live      |-> {live[capability]}]

\* authenticate, up to the principal the session's credential stands for.
Authenticate(t) ==
    /\ local[t].pc = "idle"
    /\ \E q \in AccessRequests :
        LET principal == principals[q.principal]
        IN  /\ principal # None
            /\ is_usable(principal)
            /\ local' = [local EXCEPT ![t] = [Idle EXCEPT !.pc = "context",
                    !.request = q, !.now = clock, !.principal = principal,
                    !.begun = Now(q.capability)]]
    /\ UNCHANGED <<clock, principals, delegations, runs, live>>

\* context_for: reads the principal's delegations, at the time authenticate
\* took from the clock.
Context(t) ==
    LET me == local[t]
    IN  /\ me.pc = "context"
        /\ local' = [local EXCEPT ![t] = [me EXCEPT !.pc = "authorize",
                !.delegation = ContextDelegation(TenantPolicy, me.principal,
                                   delegations_for(me.principal.id), me.now)]]
        /\ UNCHANGED <<clock, principals, delegations, runs, live>>

Decide(t, me, decision, pc) ==
    local' = [local EXCEPT ![t] = [me EXCEPT !.pc = pc, !.decision = decision]]

\* A live policy with a foreign id answers nobody.
Bug_TenantDecides(me, policy) ==
    evaluate_capability(TenantPolicy, me.principal, me.delegation, me.request.capability, clock)

LiveDecision(me, policy) ==
    IF policy.own_id
    THEN evaluate_capability(policy.rules, me.principal, me.delegation,
                             me.request.capability, clock)
    ELSE Denied

\* AuthPortRuntime::authorize, a request without a resource: a live policy for
\* the capability answers at once, by the delegation of the context.
AuthorizeLive(t) ==
    LET me == local[t]
        policy == live[me.request.capability]
    IN  /\ me.pc = "authorize"
        /\ me.request.resource = None
        /\ IF policy = None
           THEN local' = [local EXCEPT ![t] = [me EXCEPT !.pc = "mesh", !.now = clock]]
           ELSE Decide(t, me, LiveDecision(me, policy), "answer")
        /\ UNCHANGED <<clock, principals, delegations, runs, live>>

\* authorize_resource: nothing is read before the mesh is called.
AuthorizeResource(t) ==
    /\ local[t].pc = "authorize"
    /\ local[t].request.resource # None /\ local[t].request.run = 0
    /\ local' = [local EXCEPT ![t] = [local[t] EXCEPT !.pc = "mesh", !.now = clock]]
    /\ UNCHANGED <<clock, principals, delegations, runs, live>>

\* checked_run_for_request: the run is the caller's and admits the request.
RunAdmits(me, i, now) ==
    /\ checked_run(i, now)
    /\ runs[i].agent = me.principal.id
    /\ me.request.capability \in runs[i].capabilities
    /\ resource_scope_matches(runs[i].resource_scope, me.request.resource)

\* authorize_run_resource: the run first; a refusal is audited like the rest.
AuthorizeRun(t) ==
    LET me == local[t]
        q == me.request
    IN  /\ me.pc = "authorize"
        /\ q.resource # None /\ q.run # 0
        /\ IF RunAdmits(me, q.run, clock)
           THEN local' = [local EXCEPT ![t] = [me EXCEPT !.pc = "mesh", !.now = clock]]
           ELSE Decide(t, me, Denied, "audit")
        /\ UNCHANGED <<clock, principals, delegations, runs, live>>

\* AuthMesh::authorize and authorize_request: the delegation is picked anew.
AuthorizeMesh(t) ==
    LET me == local[t]
        q == me.request
        picked == pick_delegation(delegations_for(me.principal.id), q.capability, me.now)
    IN  /\ me.pc = "mesh"
        /\ Decide(t, me,
             IF q.resource = None
             THEN evaluate_capability(TenantPolicy, me.principal, picked, q.capability, me.now)
             ELSE evaluate_authorization_request(TenantPolicy, me.principal, picked,
                      q.capability, q.resource, me.now), "audit")
        /\ UNCHANGED <<clock, principals, delegations, runs, live>>

\* record_decision: a decision that cannot be recorded is a denial.
Unrecorded(me) == [me EXCEPT !.pc = "answer", !.decision = Denied]

Audit(t) ==
    LET me == local[t]
    IN  /\ me.pc = "audit"
        /\ \/ local' = [local EXCEPT ![t] = [me EXCEPT !.pc = "answer"]]
           \/ AuditCanFail /\ local' = [local EXCEPT ![t] = Unrecorded(me)]
        /\ UNCHANGED <<clock, principals, delegations, runs, live>>

\* The route runs, or the denial is sent.
Answer(t) ==
    /\ local[t].pc = "answer"
    /\ Return(t)
    /\ UNCHANGED <<clock, principals, delegations, runs, live>>

(***************************************************************************)
(* The specification                                                       *)
(***************************************************************************)

Init ==
    /\ clock = 0
    /\ principals = InitialPrincipals
    /\ delegations = [i \in DelegationId |-> None]
    /\ runs = [i \in RunId |-> None]
    /\ live = [c \in Capability |-> None]
    /\ local = [t \in Thread |-> Idle]

\* What a thread does on its own once its request has started.
Continue(t) ==
    \/ DelegateCheck(t) \/ DelegateCreate(t)
    \/ RunCheck(t) \/ RunParent(t) \/ PutRun(t)
    \/ Context(t) \/ AuthorizeLive(t) \/ AuthorizeResource(t) \/ AuthorizeRun(t)
    \/ AuthorizeMesh(t) \/ Audit(t) \/ Answer(t)

Step(t) == Delegate(t) \/ CreateRun(t) \/ Authenticate(t) \/ Continue(t)

Admin == RevokeDelegation \/ CancelRun \/ SetAgentState \/ CreateAgent \/ SetLivePolicy

Next == (\E t \in Thread : Step(t)) \/ Admin \/ Tick

Spec == Init /\ [][Next]_vars

(***************************************************************************)
(* Properties                                                              *)
(***************************************************************************)

\* The decision thread t has reached, or is about to answer with, is to allow.
Allows(t) == local[t].pc \in {"audit", "answer"} /\ local[t].decision.allow

\* A request that comes in after a delegation was revoked, or after it ended, is
\* not allowed by it, whatever was cached in the request's context and however
\* revocation, clock and the request's steps interleave (evaluator.rs,
\* evaluate_capability and evaluate_authorization_request).
LapsedIsDenied ==
    \A t \in Thread :
        LET me == local[t]
            d == delegations[me.decision.delegation]
        IN  Allows(t) /\ me.decision.delegation # 0 =>
                /\ me.decision.delegation \notin me.begun.revoked
                /\ d.expires_at # None => me.begun.clock < d.expires_at

\* What an agent delegates names the delegations it comes from, each known, the
\* last made to the one who delegates further, and its scope is within every one
\* of theirs (mesh.rs, delegate: "delegation scope must narrow the delegator's
\* authority").
ChainNarrows ==
    \A i \in DelegationId :
        Known(i) =>
            LET d == delegations[i]
                last == d.chain[Len(d.chain)]
            IN  /\ d.chain = <<>> =>
                    InitialPrincipals[d.delegator] = None
                        \/ InitialPrincipals[d.delegator].kind # "Agent"
                /\ d.chain # <<>> =>
                    /\ delegations[last].delegate = d.delegator
                    /\ d.chain = Append(delegations[last].chain, last)
                    /\ \A k \in DOMAIN d.chain :
                        /\ Known(d.chain[k]) /\ d.chain[k] # i
                        /\ is_subset_of(d.resource_scope,
                                         delegations[d.chain[k]].resource_scope)

\* Every capability that is delegated is one the delegator holds by its claims,
\* or holds by a delegation whose scope is at least as wide (mesh.rs, delegate:
\* "A delegation can never widen authority").  No step adds a claim, so what a
\* delegator held by its claims it held at the start.
NeverWidens ==
    \A i \in DelegationId :
        Known(i) => \A c \in {k \in Capability : Covers(delegations[i], k)} :
            LET delegator == InitialPrincipals[delegations[i].delegator]
            IN  \/ delegator # None /\ GrantedByClaims(TenantPolicy, delegator, c)
                \/ \E e \in delegations_for(delegations[i].delegator) :
                    /\ Covers(e, c)
                    /\ is_subset_of(delegations[i].resource_scope, e.resource_scope)

\* A request for a resource allowed under a run is the run's own agent's, was
\* made before the run was cancelled or ended, and is within the run, its parent
\* run, and every delegation the run's authority came through.  A request without
\* a resource is never held to the run it names (boundary/src/runtime.rs, enforce).
RunConfines ==
    \A t \in Thread :
        LET me == local[t]
            q == me.request
            run == runs[q.run]
        IN  Allows(t) /\ q.run # 0 /\ q.resource # None =>
                /\ run.agent = q.principal
                /\ q.run \notin me.begun.cancelled /\ me.begun.clock < run.expires_at
                /\ resource_scope_matches(run.resource_scope, q.resource)
                /\ \A k \in DOMAIN run.chain :
                    resource_scope_matches(delegations[run.chain[k]].resource_scope, q.resource)
                /\ run.parent # 0 =>
                    /\ q.capability \in runs[run.parent].capabilities
                    /\ resource_scope_matches(runs[run.parent].resource_scope, q.resource)

\* A request without a resource, for a capability that has a live policy all the
\* while, is allowed only by a policy it has had in that time, or by a delegation
\* (control.rs: "this defines what is currently permitted").
LivePolicyGoverns ==
    \A t \in Thread :
        LET me == local[t]
        IN  /\ Allows(t) /\ me.request.resource = None
            /\ None \notin me.begun.live /\ me.decision.delegation = 0
            =>
                \E policy \in me.begun.live :
                    GrantedByClaims(policy.rules, me.principal, me.request.capability)
=============================================================================
