------------------------- MODULE AgentAuthorityProofs -------------------------
(***************************************************************************)
(* Theorems about delegations, runs and the enforcement path: for any      *)
(* number of principals, threads, delegations and runs, any policies and   *)
(* any requests.                                                           *)
(***************************************************************************)
EXTENDS AgentAuthority, SequenceTheorems, WellFoundedInduction, TLAPS

Delegating == {"delegate_check", "delegate_create"}
Running == {"run_check", "run_parent", "run_put"}
Enforcing == {"context", "authorize", "mesh", "audit", "answer"}

\* A thread holds a request of the kind it is working on.
Fits(t) ==
    LET me == local[t]
    IN  /\ me.pc \in Delegating =>
              /\ me.request \in DelegationRequests /\ me.id \in DelegationId
              /\ me.principal \in PrincipalRecord /\ me.request.capabilities # <<>>
        /\ me.pc \in Running => me.request \in RunRequests /\ me.id \in RunId
        /\ me.pc \in Enforcing =>
              me.request \in AccessRequests /\ me.principal \in PrincipalRecord

TypeInv == TypeOK /\ \A t \in Thread : Fits(t)

KnownRun(i) == i \in RunId /\ runs[i] # None

\* The stores are keyed by id, and only agents ever differ from what they were at
\* the start.
StoreInv ==
    /\ \A i \in DelegationId : Known(i) => delegations[i].id = i
    /\ \A p \in Principal :
          /\ principals[p] # None => principals[p].id = p
          /\ principals[p] # None /\ principals[p].kind # "Agent"
                => principals[p] = InitialPrincipals[p]

\* What a request noted when it came in still holds.
BegunInv(t) ==
    LET me == local[t]
    IN  me.pc \in Enforcing =>
          /\ me.principal.id = me.request.principal
          /\ me.begun.clock <= clock
          /\ me.pc \in {"context", "mesh"} => me.begun.clock <= me.now
          /\ \A i \in me.begun.revoked : Known(i) /\ delegations[i].revoked
          /\ \A i \in me.begun.cancelled : KnownRun(i) /\ runs[i].status = "Cancelled"

BaseInv == TypeInv /\ StoreInv /\ \A t \in Thread : BegunInv(t)

\* The delegation in a request's context is one of the store, as it was then.
LapseInv(t) ==
    LET me == local[t]
        d == me.delegation
        chosen == me.decision.delegation
    IN  /\ me.pc = "authorize" /\ d # None =>
              /\ Known(d.id) /\ delegations[d.id].expires_at = d.expires_at
              /\ ~ d.revoked => d.id \notin me.begun.revoked
        /\ Allows(t) /\ chosen # 0 =>
              /\ Known(chosen) /\ chosen \notin me.begun.revoked
              /\ delegations[chosen].expires_at # None =>
                    me.begun.clock < delegations[chosen].expires_at

\* The chain of a delegation, stored in ds or about to be: each link is known, the
\* last made to the delegator, and the scope is within all of theirs.
Linked(ds, chain, delegator, scope) ==
    /\ chain = <<>> =>
          InitialPrincipals[delegator] = None \/ InitialPrincipals[delegator].kind # "Agent"
    /\ chain # <<>> =>
          /\ ds[chain[Len(chain)]].delegate = delegator
          /\ chain = Append(ds[chain[Len(chain)]].chain, chain[Len(chain)])
    /\ \A k \in DOMAIN chain :
          /\ chain[k] \in DelegationId /\ ds[chain[k]] # None
          /\ is_subset_of(scope, ds[chain[k]].resource_scope)

\* A delegation under way acts for the principal it read, and has its chain.
ChainThread(t) ==
    LET me == local[t]
    IN  /\ me.pc = "delegate_check" =>
              /\ me.principal.id = me.request.delegator
              /\ me.principal.kind # "Agent" =>
                    me.principal = InitialPrincipals[me.request.delegator]
        /\ me.pc = "delegate_create" =>
              Linked(delegations, me.chain, me.request.delegator, me.request.resource_scope)

ChainInv ==
    /\ BaseInv
    /\ \A i \in DelegationId : Known(i) =>
          /\ Linked(delegations, delegations[i].chain, delegations[i].delegator,
                    delegations[i].resource_scope)
          /\ \A k \in DOMAIN delegations[i].chain : delegations[i].chain[k] # i
    /\ \A t \in Thread : ChainThread(t)

\* A human nobody can turn into an agent.
StaysHuman(p) ==
    /\ InitialPrincipals[p] # None /\ InitialPrincipals[p].kind = "Human"
    /\ p \notin AgentIds

\* Whoever delegates is an agent or such a human.
NoServiceDelegates ==
    \A q \in DelegationRequests :
        LET p == InitialPrincipals[q.delegator]
        IN  p = None \/ p.kind = "Agent" \/ StaysHuman(q.delegator)

\* p holds capability c for the scope: by its claims, or by a delegation of ds.
Holds(ds, p, c, scope) ==
    \/ InitialPrincipals[p] # None /\ GrantedByClaims(TenantPolicy, InitialPrincipals[p], c)
    \/ \E j \in DelegationId :
          /\ ds[j] # None /\ ds[j].delegate = p
          /\ Covers(ds[j], c)
          /\ is_subset_of(scope, ds[j].resource_scope)

WidenThread(t) ==
    LET me == local[t]
        q == me.request
    IN  /\ me.pc \in Delegating => ~ StaysHuman(q.delegate)
        /\ me.pc = "delegate_create" =>
              \A k \in DOMAIN q.capabilities :
                  Holds(delegations, q.delegator, q.capabilities[k], q.resource_scope)

WidenInv ==
    /\ ChainInv
    /\ \A p \in Principal : StaysHuman(p) => principals[p] = InitialPrincipals[p]
    /\ \A i \in DelegationId : Known(i) =>
          /\ ~ StaysHuman(delegations[i].delegate)
          /\ \A k \in DOMAIN delegations[i].capabilities :
                Holds(delegations, delegations[i].delegator, delegations[i].capabilities[k],
                      delegations[i].resource_scope)
    /\ \A t \in Thread : WidenThread(t)

\* A run, or what is to become one, is within the delegations of the chain.
Within(ds, scope, chain) ==
    \A k \in DOMAIN chain :
        /\ chain[k] \in DelegationId /\ ds[chain[k]] # None
        /\ is_subset_of(scope, ds[chain[k]].resource_scope)

\* A run, or what is to become one, is within its parent run.
UnderParent(rs, parent, capabilities, scope) ==
    parent # 0 =>
        /\ parent \in RunId /\ rs[parent] # None
        /\ capabilities \subseteq rs[parent].capabilities
        /\ is_subset_of(scope, rs[parent].resource_scope)

\* A request for a resource was let through by the run it names.
Admitted(t) ==
    LET me == local[t]
        q == me.request
    IN  /\ KnownRun(q.run)
        /\ runs[q.run].agent = q.principal
        /\ q.run \notin me.begun.cancelled /\ me.begun.clock < runs[q.run].expires_at
        /\ q.capability \in runs[q.run].capabilities
        /\ resource_scope_matches(runs[q.run].resource_scope, q.resource)

RunThread(t) ==
    LET me == local[t]
        q == me.request
    IN  /\ me.pc \in {"run_parent", "run_put"} => 
              Within(delegations, q.resource_scope, me.chain)
        /\ me.pc = "run_put" => UnderParent(runs, q.parent, q.capabilities, q.resource_scope)
        /\ (me.pc = "mesh" \/ Allows(t)) => (q.run # 0 /\ q.resource # None => Admitted(t))

RunInv ==
    /\ ChainInv
    /\ \A i \in RunId : KnownRun(i) =>
          /\ Within(delegations, runs[i].resource_scope, runs[i].chain)
          /\ UnderParent(runs, runs[i].parent, runs[i].capabilities, runs[i].resource_scope)
    /\ \A t \in Thread : RunThread(t)

\* A request has noted the live policy of the moment, and goes to the mesh
\* without a resource only when there was none.
LiveThread(t) ==
    LET me == local[t]
    IN  /\ me.pc \in {"context", "authorize", "mesh"} =>
              live[me.request.capability] \in me.begun.live
        /\ me.pc = "mesh" /\ me.request.resource = None => None \in me.begun.live
        /\ Allows(t) /\ me.request.resource = None /\ None \notin me.begun.live
              /\ me.decision.delegation = 0 =>
              \E policy \in me.begun.live :
                  GrantedByClaims(policy.rules, me.principal, me.request.capability)

(***************************************************************************)
(* Scopes, ids and decisions                                               *)
(***************************************************************************)

\* Narrowing is transitive.
LEMMA NarrowsOn ==
    ASSUME NEW a, NEW b, NEW c, is_subset_of(a, b), is_subset_of(b, c)
    PROVE  is_subset_of(a, c)
BY DEF is_subset_of

\* What a narrower scope matches, a wider one matches.
LEMMA MatchesWider ==
    ASSUME NEW scope \in ResourceScope, NEW parent \in ResourceScope, NEW resource,
           is_subset_of(scope, parent), resource_scope_matches(scope, resource)
    PROVE  resource_scope_matches(parent, resource)
<1>1. CASE is_unconstrained(scope)
  <2>1. scope.resource_type = None /\ scope.resource_id = None
        /\ \A k \in Attribute : scope.attributes[k] = None
    BY <1>1 DEF is_unconstrained, any
  <2>2. parent.resource_type = None /\ parent.resource_id = None
        /\ \A k \in Attribute : parent.attributes[k] = None
    BY <2>1 DEF is_subset_of
  <2>3. parent.attributes \in [Attribute -> AttributeValue \cup {None}]
    BY DEF ResourceScope
  <2>4. parent.attributes = [k \in Attribute |-> None]
    BY <2>2, <2>3
  <2>5. parent = [resource_type |-> parent.resource_type, resource_id |-> parent.resource_id,
                  attributes |-> parent.attributes]
    BY DEF ResourceScope
  <2>6. parent = any
    BY <2>2, <2>4, <2>5 DEF any
  <2> QED BY <2>6 DEF resource_scope_matches, is_unconstrained
<1>2. CASE ~ is_unconstrained(scope)
  <2>1. /\ resource # None
        /\ scope.resource_type \in {None, resource.resource_type}
        /\ scope.resource_id \in {None, AnyId, resource.resource_id}
        /\ \A k \in Attribute : scope.attributes[k] \in {None, resource.attributes[k]}
    BY <1>2 DEF resource_scope_matches
  <2>2. /\ parent.resource_type \in {None, resource.resource_type}
        /\ parent.resource_id \in {None, AnyId, resource.resource_id}
        /\ \A k \in Attribute : parent.attributes[k] \in {None, resource.attributes[k]}
    BY <2>1 DEF is_subset_of
  <2> QED BY <2>1, <2>2 DEF resource_scope_matches
<1> QED BY <1>1, <1>2

\* A set of numbers has a least one.
LEMMA LeastId ==
    ASSUME NEW T, T \subseteq Nat, T # {}
    PROVE  \E i \in T : \A j \in T : i <= j
<1>1. \E x \in T : \A y \in T : ~ (<<y, x>> \in OpToRel(<, Nat))
  BY NatLessThanWellFounded, WFMin
<1>2. PICK x \in T : \A y \in T : ~ (<<y, x>> \in OpToRel(<, Nat))
  BY <1>1
<1>3. \A y \in T : ~ (y < x)
  BY <1>2 DEF OpToRel
<1> QED BY <1>3

\* First picks one of the delegations it is given, if there are any.
LEMMA FirstPicks ==
    ASSUME NEW S, S \subseteq Delegation
    PROVE  First(S) \in S \cup {None} /\ (S # {} => First(S) \in S)
<1>1. CASE S = {}
  BY <1>1 DEF First
<1>2. CASE S # {}
  <2> DEFINE T == {d.id : d \in S}
  <2>1. T \subseteq Nat /\ T # {}
    BY <1>2 DEF Delegation
  <2> HIDE DEF T
  <2>2. PICK i \in T : \A j \in T : i <= j
    BY <2>1, LeastId
  <2>3. PICK d \in S : d.id = i
    BY DEF T
  <2>4. \A e \in S : d.id <= e.id
    BY <2>2, <2>3 DEF T
  <2>5. (CHOOSE x \in S : \A e \in S : x.id <= e.id) \in S
    BY <2>4
  <2> QED BY <1>2, <2>5 DEF First
<1> QED BY <1>1, <1>2

\* The delegations of a principal are stored ones.
LEMMA DelegationsFor ==
    ASSUME TypeOK, NEW p
    PROVE  /\ delegations_for(p) \subseteq Delegation
           /\ \A d \in delegations_for(p) :
                 \E i \in DelegationId : Known(i) /\ d = delegations[i] /\ d.delegate = p
<1>1. delegations \in [DelegationId -> Delegation \cup {None}]
  BY DEF TypeOK
<1>2. \A d \in delegations_for(p) :
         \E i \in DelegationId : Known(i) /\ d = delegations[i] /\ d.delegate = p
  BY DEF delegations_for, Known
<1> QED BY <1>1, <1>2 DEF Known

\* What pick_delegation, ContextDelegation and ParentOf return: None, or a stored
\* delegation of the principal, as good as the operator says.
LEMMA Picked ==
    ASSUME TypeOK, NEW p, NEW c, NEW now
    PROVE  LET d == pick_delegation(delegations_for(p), c, now)
           IN  d \in delegations_for(p) \cup {None}
<1> DEFINE covering == {d \in delegations_for(p) : Covers(d, c)}
           valid == {d \in covering : is_valid_at(d, now)}
<1>1. delegations_for(p) \subseteq Delegation
  BY DelegationsFor
<1>2. First(covering) \in covering \cup {None} /\ First(valid) \in valid \cup {None}
  <2>1. covering \subseteq Delegation /\ valid \subseteq Delegation
    BY <1>1
  <2> HIDE DEF covering, valid
  <2> QED BY <2>1, FirstPicks
<1> QED BY <1>2 DEF pick_delegation

\* The delegation of a request's context.
LEMMA PickedForContext ==
    ASSUME TypeOK, NEW policy, NEW principal, NEW now, NEW p
    PROVE  ContextDelegation(policy, principal, delegations_for(p), now)
             \in delegations_for(p) \cup {None}
<1> DEFINE S == {d \in delegations_for(p) :
                    /\ is_usable(principal)
                    /\ is_valid_at(d, now)
                    /\ \E c \in Capability :
                        Covers(d, c) /\ ~ GrantedByClaims(policy, principal, c)}
<1>1. S \subseteq Delegation /\ S \subseteq delegations_for(p)
  BY DelegationsFor
<1>2. ContextDelegation(policy, principal, delegations_for(p), now) = First(S)
  BY DEF ContextDelegation
<1> HIDE DEF S
<1> QED BY <1>1, <1>2, FirstPicks

\* The parent an agent delegates from.
LEMMA PickedAsParent ==
    ASSUME TypeOK, NEW me, NEW c
    PROVE  /\ ParentOf(me, c) \in delegations_for(me.principal.id) \cup {None}
           /\ ParentOf(me, c) # None => Covers(ParentOf(me, c), c)
<1> DEFINE S == {d \in delegations_for(me.principal.id) : is_valid_at(d, me.now) /\ Covers(d, c)}
<1>1. S \subseteq Delegation /\ S \subseteq delegations_for(me.principal.id)
      /\ \A d \in S : Covers(d, c)
  BY DelegationsFor
<1>2. ParentOf(me, c) = First(S)
  BY DEF ParentOf
<1> HIDE DEF S
<1>3. First(S) \in S \cup {None}
  BY <1>1, FirstPicks
<1> QED BY <1>1, <1>2, <1>3

\* What evaluate_capability rests a decision on.
LEMMA CapabilityDecision ==
    ASSUME NEW policy, NEW principal, NEW d \in Delegation \cup {None}, NEW c, NEW now,
           NEW decision, decision = evaluate_capability(policy, principal, d, c, now)
    PROVE  /\ decision \in Decision
           /\ decision.allow /\ decision.delegation = 0 => GrantedByClaims(policy, principal, c)
           /\ decision.allow /\ decision.delegation # 0 =>
                d # None /\ d \in Delegation /\ decision.delegation = d.id /\ is_valid_at(d, now)
<1>1. Denied \in Decision /\ ~ Denied.allow
  BY DEF Denied, Decision
<1>2. Allowed(0) \in Decision /\ Allowed(0).delegation = 0
  BY DEF Allowed, Decision
<1>3. ASSUME d # None
      PROVE  d \in Delegation /\ Allowed(d.id) \in Decision /\ Allowed(d.id).delegation = d.id /\ d.id # 0
  BY <1>3 DEF Allowed, Decision, Delegation
<1>4. \/ decision = Denied
      \/ decision = Allowed(0) /\ GrantedByClaims(policy, principal, c)
      \/ decision = Allowed(d.id) /\ DelegationAllows(principal, d, c, now)
  BY DEF evaluate_capability
<1> QED BY <1>1, <1>2, <1>3, <1>4 DEF DelegationAllows

\* What evaluate_authorization_request rests a decision on.
LEMMA ResourceDecision ==
    ASSUME NEW policy, NEW principal, NEW d \in Delegation \cup {None}, NEW c, NEW resource, NEW now,
           NEW decision,
           decision = evaluate_authorization_request(policy, principal, d, c, resource, now)
    PROVE  /\ decision \in Decision
           /\ decision.allow /\ decision.delegation # 0 =>
                d # None /\ d \in Delegation /\ decision.delegation = d.id /\ is_valid_at(d, now)
<1>1. Denied \in Decision /\ ~ Denied.allow
  BY DEF Denied, Decision
<1>2. Allowed(0) \in Decision /\ Allowed(0).delegation = 0
  BY DEF Allowed, Decision
<1>3. ASSUME d # None
      PROVE  d \in Delegation /\ Allowed(d.id) \in Decision /\ Allowed(d.id).delegation = d.id
  BY <1>3 DEF Allowed, Decision, Delegation
<1>4. \/ decision = Denied
      \/ decision = Allowed(0)
      \/ decision = Allowed(d.id) /\ DelegationAllows(principal, d, c, now)
  BY DEF evaluate_authorization_request
<1> QED BY <1>1, <1>2, <1>3, <1>4 DEF DelegationAllows

(***************************************************************************)
(* What each step does to the thread that takes it                         *)
(***************************************************************************)

\* Only thread t moves.
Keeps(t) ==
    /\ local' \in [Thread -> Local]
    /\ \A u \in Thread \ {t} : local'[u] = local[u]

\* The thread keeps its request and what it noted when it came in.
KeepsRequest(t) ==
    /\ local'[t].request = local[t].request
    /\ local'[t].id = local[t].id
    /\ local'[t].principal = local[t].principal
    /\ local'[t].begun = local[t].begun

StoresSame == UNCHANGED <<principals, delegations, runs, live, clock>>

\* One thread gets a new record.
LEMMA SetThread ==
    ASSUME TypeOK, NEW t \in Thread, NEW x \in Local, local' = [local EXCEPT ![t] = x]
    PROVE  Keeps(t) /\ local'[t] = x
BY DEF TypeOK, Keeps

\* The record of a thread without a request.
LEMMA IdleTyped == Idle \in Local /\ Idle.pc = "idle"
<1>1. Denied \in Decision
  BY DEF Denied, Decision
<1>2. [clock |-> 0, revoked |-> {}, cancelled |-> {}, live |-> {}] \in Begun
  BY DEF Begun
<1>3. <<>> \in Seq(Nat \ {0}) /\ "idle" \in PC /\ 0 \in Nat
  BY DEF PC
<1> QED BY <1>1, <1>2, <1>3 DEF Idle, Local

\* A thread whose request is over is idle.
LEMMA Returned ==
    ASSUME TypeOK, NEW t \in Thread, Return(t)
    PROVE  Keeps(t) /\ local'[t] = Idle
BY SetThread, IdleTyped DEF Return

\* Requests of the three kinds can be held by a thread.
Asked == DelegationRequest \cup RunRequest \cup AccessRequest \cup {None}

\* What clients ask is well formed.
LEMMA AskedTyped ==
    /\ \A q \in DelegationRequests : q \in Asked /\ q \in DelegationRequest
    /\ \A q \in RunRequests : q \in Asked /\ q \in RunRequest
    /\ \A q \in AccessRequests : q \in Asked /\ q \in AccessRequest
    /\ DelegationId \subseteq Nat /\ RunId \subseteq Nat
BY AgentAuthorityAssumption DEF Asked

\* The fields of a thread's record.
LEMMA LocalFields ==
    ASSUME NEW me \in Local
    PROVE  /\ me.pc \in PC /\ me.request \in Asked /\ me.id \in Nat /\ me.now \in Nat
           /\ me.principal \in PrincipalRecord \cup {None}
           /\ me.delegation \in Delegation \cup {None}
           /\ me.chain \in Seq(Nat \ {0}) /\ me.decision \in Decision /\ me.begun \in Begun
BY DEF Local, Asked

\* delegate, the first step.
LEMMA DelegateStep ==
    ASSUME TypeOK, NEW t \in Thread, Delegate(t)
    PROVE  /\ Keeps(t) /\ StoresSame
           /\ local[t].pc = "idle" /\ local'[t].pc = "delegate_check"
           /\ local'[t].request \in DelegationRequests /\ local'[t].id \in DelegationId
           /\ local'[t].request.capabilities # <<>>
           /\ local'[t].principal = principals[local'[t].request.delegator]
           /\ local'[t].principal \in PrincipalRecord
           /\ principals[local'[t].request.delegate] # None
           /\ principals[local'[t].request.delegate].kind # "Human"
<1>1. PICK q \in DelegationRequests, id \in DelegationId :
        /\ q.capabilities # <<>>
        /\ principals[q.delegator] # None /\ principals[q.delegate] # None
        /\ principals[q.delegate].kind # "Human"
        /\ local' = [local EXCEPT ![t] = [Idle EXCEPT !.pc = "delegate_check",
                    !.request = q, !.id = id, !.now = clock, !.principal = principals[q.delegator]]]
  BY DEF Delegate
<1> DEFINE x == [Idle EXCEPT !.pc = "delegate_check", !.request = q, !.id = id, !.now = clock,
                             !.principal = principals[q.delegator]]
<1>2. q \in DelegationRequest /\ q \in Asked /\ id \in Nat /\ clock \in Nat
  BY AskedTyped DEF TypeOK
<1>3. principals[q.delegator] \in PrincipalRecord
  BY <1>1, <1>2 DEF TypeOK, DelegationRequest
<1>4. x \in Local
  BY <1>2, <1>3, IdleTyped DEF Local, Asked, PC
<1>5. /\ x.pc = "delegate_check" /\ x.request = q /\ x.id = id
      /\ x.principal = principals[q.delegator]
  BY DEF Idle
<1> HIDE DEF x
<1>6. Keeps(t) /\ local'[t] = x
  BY <1>1, <1>4, SetThread DEF x
<1> QED BY <1>1, <1>3, <1>5, <1>6 DEF Delegate, StoresSame

\* delegate, the checks against what the delegator holds.
LEMMA DelegateCheckStep ==
    ASSUME TypeInv, NEW t \in Thread, DelegateCheck(t)
    PROVE  /\ Keeps(t) /\ StoresSame /\ local[t].pc = "delegate_check"
           /\ \/ local'[t] = Idle
              \/ /\ local'[t].pc = "delegate_create" /\ KeepsRequest(t)
                 /\ local'[t].chain = ChainOf(local[t])
                 /\ \A k \in DOMAIN local[t].request.capabilities :
                       MayDelegate(local[t], local[t].request.capabilities[k])
<1>t. TypeOK /\ local[t] \in Local /\ Fits(t)
  BY DEF TypeInv, TypeOK
<1>p. local[t].pc = "delegate_check" /\ StoresSame
  BY DEF DelegateCheck, StoresSame
<1>1. CASE \A k \in DOMAIN local[t].request.capabilities :
              MayDelegate(local[t], local[t].request.capabilities[k])
  <2> DEFINE x == [local[t] EXCEPT !.pc = "delegate_create", !.chain = ChainOf(local[t])]
  <2>1. local' = [local EXCEPT ![t] = x]
    BY <1>1, Zenon DEF DelegateCheck
  <2>2. ChainOf(local[t]) \in Seq(Nat \ {0})
    <3> DEFINE c == Head(local[t].request.capabilities)
               parent == ParentOf(local[t], c)
    <3>1. CASE local[t].principal.kind # "Agent"
      BY <3>1 DEF ChainOf
    <3>2. CASE local[t].principal.kind = "Agent"
      <4>1. local[t].request \in DelegationRequest /\ local[t].request.capabilities # <<>>
        BY <1>t, <1>p, AskedTyped DEF Fits, Delegating
      <4>2. local[t].request.capabilities \in Seq(Capability)
        BY <4>1 DEF DelegationRequest
      <4>3. 1 \in DOMAIN local[t].request.capabilities /\ c = local[t].request.capabilities[1]
        BY <4>1, <4>2
      <4>4. MayDelegate(local[t], c)
        BY <4>3, <1>1
      <4>5. parent # None
        BY <4>4, <3>2 DEF MayDelegate
      <4>6. parent \in Delegation
        BY <4>5, <1>t, PickedAsParent, DelegationsFor
      <4>7. parent.chain \in Seq(Nat \ {0}) /\ parent.id \in Nat \ {0}
        BY <4>6 DEF Delegation
      <4>8. ChainOf(local[t]) = Append(parent.chain, parent.id)
        BY <3>2 DEF ChainOf
      <4> HIDE DEF parent
      <4> QED BY <4>7, <4>8
    <3> QED BY <3>1, <3>2
  <2>3. x \in Local
    BY <1>t, <2>2 DEF Local, PC
  <2>4. /\ x.pc = "delegate_create" /\ x.chain = ChainOf(local[t])
        /\ x.request = local[t].request /\ x.id = local[t].id
        /\ x.principal = local[t].principal /\ x.begun = local[t].begun
    BY <1>t DEF Local
  <2> HIDE DEF x
  <2>5. Keeps(t) /\ local'[t] = x
    BY <2>1, <2>3, <1>t, SetThread
  <2> QED BY <1>1, <1>p, <2>4, <2>5 DEF KeepsRequest
<1>2. CASE ~ \A k \in DOMAIN local[t].request.capabilities :
              MayDelegate(local[t], local[t].request.capabilities[k])
  <2>1. Return(t)
    BY <1>2, Zenon DEF DelegateCheck
  <2> QED BY <2>1, <1>t, <1>p, Returned
<1> QED BY <1>1, <1>2

\* The delegation a thread is about to store.
NewDelegation(me) ==
    [id |-> me.id, delegator |-> me.request.delegator, delegate |-> me.request.delegate,
     capabilities |-> me.request.capabilities, resource_scope |-> me.request.resource_scope,
     issued_at |-> me.now + me.request.delay, expires_at |-> me.request.expires_at,
     revoked |-> FALSE, chain |-> me.chain]

\* delegate, the store call.
LEMMA DelegateCreateStep ==
    ASSUME TypeInv, NEW t \in Thread, DelegateCreate(t)
    PROVE  /\ Keeps(t) /\ local'[t] = Idle /\ local[t].pc = "delegate_create"
           /\ UNCHANGED <<clock, principals, runs, live>>
           /\ \/ delegations' = delegations
              \/ /\ delegations[local[t].id] = None
                 /\ local[t].id \in DelegationId
                 /\ NewDelegation(local[t]) \in Delegation
                 /\ delegations' = [delegations EXCEPT ![local[t].id] = NewDelegation(local[t])]
<1>t. TypeOK /\ local[t] \in Local /\ Fits(t)
  BY DEF TypeInv, TypeOK
<1>p. local[t].pc = "delegate_create" /\ Return(t) /\ UNCHANGED <<clock, principals, runs, live>>
  BY DEF DelegateCreate
<1>1. \/ delegations' = delegations
      \/ /\ delegations[local[t].id] = None
         /\ delegations' = [delegations EXCEPT ![local[t].id] = NewDelegation(local[t])]
  BY DEF DelegateCreate, NewDelegation
<1>2. local[t].request \in DelegationRequest /\ local[t].id \in DelegationId
  BY <1>t, <1>p, AskedTyped DEF Fits, Delegating
<1>3. local[t].id \in Nat \ {0}
  BY <1>2, AgentAuthorityAssumption
<1>4. NewDelegation(local[t]) \in Delegation
  <2>1. local[t].now \in Nat /\ local[t].chain \in Seq(Nat \ {0})
    BY <1>t, LocalFields
  <2>2. local[t].now + local[t].request.delay \in Nat
    BY <2>1, <1>2 DEF DelegationRequest
  <2> QED BY <1>2, <1>3, <2>1, <2>2 DEF NewDelegation, Delegation, DelegationRequest
<1> QED BY <1>t, <1>p, <1>1, <1>2, <1>4, Returned

\* create_agent_run, the first step.
LEMMA CreateRunStep ==
    ASSUME TypeOK, NEW t \in Thread, CreateRun(t)
    PROVE  /\ Keeps(t) /\ StoresSame
           /\ local[t].pc = "idle" /\ local'[t].pc = "run_check"
           /\ local'[t].request \in RunRequests /\ local'[t].id \in RunId
<1>1. PICK q \in RunRequests, id \in RunId :
        local' = [local EXCEPT ![t] = [Idle EXCEPT !.pc = "run_check",
                        !.request = q, !.id = id, !.now = clock]]
  BY DEF CreateRun
<1> DEFINE x == [Idle EXCEPT !.pc = "run_check", !.request = q, !.id = id, !.now = clock]
<1>2. q \in Asked /\ id \in Nat /\ clock \in Nat
  BY AskedTyped DEF TypeOK
<1>4. x \in Local
  BY <1>2, IdleTyped DEF Local, Asked, PC
<1>5. x.pc = "run_check" /\ x.request = q /\ x.id = id
  BY DEF Idle
<1> HIDE DEF x
<1>6. Keeps(t) /\ local'[t] = x
  BY <1>1, <1>4, SetThread DEF x
<1> QED BY <1>1, <1>5, <1>6 DEF CreateRun, StoresSame

\* create_agent_run, the checks against the delegation.
LEMMA RunCheckStep ==
    ASSUME TypeInv, NEW t \in Thread, RunCheck(t)
    PROVE  /\ Keeps(t) /\ StoresSame /\ local[t].pc = "run_check"
           /\ \/ local'[t] = Idle
              \/ LET d == delegations[local[t].request.delegation]
                 IN  /\ local'[t].pc = IF local[t].request.parent = 0 THEN "run_put" ELSE "run_parent"
                     /\ KeepsRequest(t)
                     /\ Known(local[t].request.delegation) /\ d \in Delegation
                     /\ RunFits(local[t].request, d, local[t].now)
                     /\ local'[t].chain = Append(d.chain, d.id)
<1>t. TypeOK /\ local[t] \in Local
  BY DEF TypeInv, TypeOK
<1>p. local[t].pc = "run_check" /\ StoresSame
  BY DEF RunCheck, StoresSame
<1> DEFINE q == local[t].request
           d == delegations[q.delegation]
           pc == IF q.parent = 0 THEN "run_put" ELSE "run_parent"
           x == [local[t] EXCEPT !.pc = pc, !.chain = Append(d.chain, d.id)]
<1>1. CASE Known(q.delegation) /\ RunFits(q, d, local[t].now)
  <2>1. local' = [local EXCEPT ![t] = x]
    BY <1>1, Zenon DEF RunCheck
  <2>2. d \in Delegation
    BY <1>1, <1>t DEF Known, TypeOK
  <2>3. d.chain \in Seq(Nat \ {0}) /\ d.id \in Nat \ {0}
    BY <2>2 DEF Delegation
  <2>4. Append(d.chain, d.id) \in Seq(Nat \ {0}) /\ pc \in PC
    BY <2>3 DEF PC
  <2> HIDE DEF d, pc
  <2>5. x \in Local
    BY <1>t, <2>4 DEF Local
  <2>6. /\ x.pc = pc /\ x.chain = Append(d.chain, d.id)
        /\ x.request = local[t].request /\ x.id = local[t].id
        /\ x.principal = local[t].principal /\ x.begun = local[t].begun
    BY <1>t DEF Local
  <2> HIDE DEF x
  <2>7. Keeps(t) /\ local'[t] = x
    BY <2>1, <2>5, <1>t, SetThread
  <2> QED BY <1>1, <1>p, <2>2, <2>6, <2>7 DEF KeepsRequest, d, pc
<1>2. CASE ~ (Known(q.delegation) /\ RunFits(q, d, local[t].now))
  <2>1. Return(t)
    BY <1>2, Zenon DEF RunCheck
  <2> QED BY <2>1, <1>t, <1>p, Returned
<1> QED BY <1>1, <1>2

\* create_agent_run, the checks against the parent run.
LEMMA RunParentStep ==
    ASSUME TypeInv, NEW t \in Thread, RunParent(t)
    PROVE  /\ Keeps(t) /\ StoresSame /\ local[t].pc = "run_parent"
           /\ \/ local'[t] = Idle
              \/ /\ local'[t].pc = "run_put" /\ KeepsRequest(t)
                 /\ local'[t].chain = local[t].chain
                 /\ checked_run(local[t].request.parent, local[t].now)
                 /\ ChildFits(local[t].request, runs[local[t].request.parent])
<1>t. TypeOK /\ local[t] \in Local
  BY DEF TypeInv, TypeOK
<1>p. local[t].pc = "run_parent" /\ StoresSame
  BY DEF RunParent, StoresSame
<1> DEFINE q == local[t].request
           x == [local[t] EXCEPT !.pc = "run_put"]
<1>1. CASE checked_run(q.parent, local[t].now) /\ ChildFits(q, runs[q.parent])
  <2>1. local' = [local EXCEPT ![t] = x]
    BY <1>1, Zenon DEF RunParent
  <2>2. x \in Local
    BY <1>t DEF Local, PC
  <2>3. /\ x.pc = "run_put" /\ x.chain = local[t].chain
        /\ x.request = local[t].request /\ x.id = local[t].id
        /\ x.principal = local[t].principal /\ x.begun = local[t].begun
    BY <1>t DEF Local
  <2> HIDE DEF x
  <2>4. Keeps(t) /\ local'[t] = x
    BY <2>1, <2>2, <1>t, SetThread
  <2> QED BY <1>1, <1>p, <2>3, <2>4 DEF KeepsRequest
<1>2. CASE ~ (checked_run(q.parent, local[t].now) /\ ChildFits(q, runs[q.parent]))
  <2>1. Return(t)
    BY <1>2, Zenon DEF RunParent
  <2> QED BY <2>1, <1>t, <1>p, Returned
<1> QED BY <1>1, <1>2

\* The run a thread is about to store.
NewRun(me) ==
    [agent |-> me.request.agent, delegation |-> me.request.delegation, chain |-> me.chain,
     parent |-> me.request.parent, capabilities |-> me.request.capabilities,
     resource_scope |-> me.request.resource_scope, expires_at |-> me.request.expires_at,
     status |-> "Active"]

\* create_agent_run, the store call.
LEMMA PutRunStep ==
    ASSUME TypeInv, NEW t \in Thread, PutRun(t)
    PROVE  /\ Keeps(t) /\ local'[t] = Idle /\ local[t].pc = "run_put"
           /\ UNCHANGED <<clock, principals, delegations, live>>
           /\ \/ runs' = runs
              \/ /\ runs[local[t].id] = None
                 /\ local[t].id \in RunId /\ NewRun(local[t]) \in Run
                 /\ runs' = [runs EXCEPT ![local[t].id] = NewRun(local[t])]
<1>t. TypeOK /\ local[t] \in Local /\ Fits(t)
  BY DEF TypeInv, TypeOK
<1>p. local[t].pc = "run_put" /\ Return(t) /\ UNCHANGED <<clock, principals, delegations, live>>
  BY DEF PutRun
<1>1. \/ runs' = runs
      \/ /\ runs[local[t].id] = None
         /\ runs' = [runs EXCEPT ![local[t].id] = NewRun(local[t])]
  BY DEF PutRun, NewRun
<1>2. local[t].request \in RunRequest /\ local[t].id \in RunId
  BY <1>t, <1>p, AskedTyped DEF Fits, Running
<1>3. NewRun(local[t]) \in Run
  <2>1. local[t].chain \in Seq(Nat \ {0})
    BY <1>t, LocalFields
  <2> QED BY <1>2, <2>1 DEF NewRun, Run, RunRequest
<1> QED BY <1>t, <1>p, <1>1, <1>2, <1>3, Returned

\* enforce, the first step.
LEMMA AuthenticateStep ==
    ASSUME TypeOK, NEW t \in Thread, Authenticate(t)
    PROVE  /\ Keeps(t) /\ StoresSame
           /\ local[t].pc = "idle" /\ local'[t].pc = "context"
           /\ local'[t].request \in AccessRequests
           /\ local'[t].now = clock
           /\ local'[t].principal = principals[local'[t].request.principal]
           /\ local'[t].principal \in PrincipalRecord
           /\ local'[t].begun = Now(local'[t].request.capability)
<1>1. PICK q \in AccessRequests :
        /\ principals[q.principal] # None
        /\ local' = [local EXCEPT ![t] = [Idle EXCEPT !.pc = "context", !.request = q, !.now = clock,
                        !.principal = principals[q.principal], !.begun = Now(q.capability)]]
  BY DEF Authenticate
<1> DEFINE x == [Idle EXCEPT !.pc = "context", !.request = q, !.now = clock,
                        !.principal = principals[q.principal], !.begun = Now(q.capability)]
<1>2. q \in AccessRequest /\ q \in Asked /\ clock \in Nat
  BY AskedTyped DEF TypeOK
<1>3. principals[q.principal] \in PrincipalRecord
  BY <1>1, <1>2 DEF TypeOK, AccessRequest
<1>4. Now(q.capability) \in Begun
  <2>1. live[q.capability] \in LivePolicies \cup {None}
    BY <1>2 DEF TypeOK, AccessRequest
  <2>2. DelegationId \subseteq Nat /\ RunId \subseteq Nat
    BY AskedTyped
  <2> QED BY <1>2, <2>1, <2>2 DEF Now, Begun
<1>5. x \in Local
  BY <1>2, <1>3, <1>4, IdleTyped DEF Local, Asked, PC
<1>6. /\ x.pc = "context" /\ x.request = q /\ x.now = clock
      /\ x.principal = principals[q.principal] /\ x.begun = Now(q.capability)
  BY DEF Idle
<1> HIDE DEF x
<1>7. Keeps(t) /\ local'[t] = x
  BY <1>1, <1>5, SetThread DEF x
<1> QED BY <1>1, <1>3, <1>6, <1>7 DEF Authenticate, StoresSame

\* context_for.
LEMMA ContextStep ==
    ASSUME TypeInv, NEW t \in Thread, Context(t)
    PROVE  /\ Keeps(t) /\ StoresSame /\ KeepsRequest(t)
           /\ local[t].pc = "context" /\ local'[t].pc = "authorize"
           /\ local'[t].delegation \in delegations_for(local[t].principal.id) \cup {None}
<1>t. TypeOK /\ local[t] \in Local
  BY DEF TypeInv, TypeOK
<1> DEFINE d == ContextDelegation(TenantPolicy, local[t].principal,
                    delegations_for(local[t].principal.id), local[t].now)
           x == [local[t] EXCEPT !.pc = "authorize", !.delegation = d]
<1>1. /\ local[t].pc = "context" /\ StoresSame
      /\ local' = [local EXCEPT ![t] = x]
  BY DEF Context, StoresSame
<1>2. d \in delegations_for(local[t].principal.id) \cup {None}
  BY <1>t, PickedForContext
<1>3. d \in Delegation \cup {None}
  BY <1>2, <1>t, DelegationsFor
<1> HIDE DEF d
<1>4. x \in Local
  BY <1>t, <1>3 DEF Local, PC
<1>5. /\ x.pc = "authorize" /\ x.delegation = d
      /\ x.request = local[t].request /\ x.id = local[t].id
      /\ x.principal = local[t].principal /\ x.begun = local[t].begun
  BY <1>t DEF Local
<1> HIDE DEF x
<1>6. Keeps(t) /\ local'[t] = x
  BY <1>1, <1>4, <1>t, SetThread
<1> QED BY <1>1, <1>2, <1>5, <1>6 DEF KeepsRequest

\* A thread reaches a decision.
LEMMA DecideStep ==
    ASSUME TypeOK, NEW t \in Thread, NEW decision \in Decision, NEW pc \in PC,
           Decide(t, local[t], decision, pc)
    PROVE  /\ Keeps(t) /\ KeepsRequest(t) /\ local'[t].pc = pc /\ local'[t].decision = decision
<1>t. local[t] \in Local
  BY DEF TypeOK
<1> DEFINE x == [local[t] EXCEPT !.pc = pc, !.decision = decision]
<1>1. local' = [local EXCEPT ![t] = x]
  BY DEF Decide
<1>2. x \in Local
  BY <1>t DEF Local
<1>3. /\ x.pc = pc /\ x.decision = decision
      /\ x.request = local[t].request /\ x.id = local[t].id
      /\ x.principal = local[t].principal /\ x.begun = local[t].begun
  BY <1>t DEF Local
<1> HIDE DEF x
<1> QED BY <1>1, <1>2, <1>3, SetThread DEF KeepsRequest

\* A thread goes on to the mesh, with the time of the moment.
ToMesh(t) ==
    /\ local' = [local EXCEPT ![t] = [local[t] EXCEPT !.pc = "mesh", !.now = clock]]

\* A thread that goes on to the mesh keeps its request.
LEMMA ToMeshStep ==
    ASSUME TypeOK, NEW t \in Thread, ToMesh(t)
    PROVE  /\ Keeps(t) /\ KeepsRequest(t) /\ local'[t].pc = "mesh" /\ local'[t].now = clock
<1>t. local[t] \in Local /\ clock \in Nat
  BY DEF TypeOK
<1> DEFINE x == [local[t] EXCEPT !.pc = "mesh", !.now = clock]
<1>1. local' = [local EXCEPT ![t] = x]
  BY DEF ToMesh
<1>2. x \in Local
  BY <1>t DEF Local, PC
<1>3. /\ x.pc = "mesh" /\ x.now = clock
      /\ x.request = local[t].request /\ x.id = local[t].id
      /\ x.principal = local[t].principal /\ x.begun = local[t].begun
  BY <1>t DEF Local
<1> HIDE DEF x
<1> QED BY <1>1, <1>2, <1>3, SetThread DEF KeepsRequest

\* AuthPortRuntime::authorize.
LEMMA AuthorizeLiveStep ==
    ASSUME TypeInv, NEW t \in Thread, AuthorizeLive(t)
    PROVE  /\ Keeps(t) /\ StoresSame /\ KeepsRequest(t)
           /\ local[t].pc = "authorize" /\ local[t].request.resource = None
           /\ \/ /\ local'[t].pc = "mesh" /\ local'[t].now = clock
                 /\ live[local[t].request.capability] = None
              \/ /\ local'[t].pc = "answer" /\ live[local[t].request.capability] # None
                 /\ live[local[t].request.capability] \in LivePolicies
                 /\ local'[t].decision.allow /\ local'[t].decision.delegation = 0 =>
                       GrantedByClaims(live[local[t].request.capability].rules,
                                       local[t].principal, local[t].request.capability)
                 /\ local'[t].decision.allow /\ local'[t].decision.delegation # 0 =>
                       /\ local[t].delegation # None /\ local[t].delegation \in Delegation
                       /\ local'[t].decision.delegation = local[t].delegation.id
                       /\ is_valid_at(local[t].delegation, clock)
<1>t. TypeOK /\ local[t] \in Local /\ Fits(t)
  BY DEF TypeInv, TypeOK
<1> DEFINE policy == live[local[t].request.capability]
<1>p. local[t].pc = "authorize" /\ StoresSame /\ local[t].request.resource = None
  BY DEF AuthorizeLive, StoresSame
<1>q. local[t].request \in AccessRequest
  BY <1>t, <1>p, AskedTyped DEF Fits, Enforcing
<1>1. CASE policy = None
  <2>1. ToMesh(t)
    BY <1>1, Zenon DEF AuthorizeLive, ToMesh
  <2> QED BY <1>1, <1>p, <1>t, <2>1, ToMeshStep
<1>2. CASE policy # None
  <2>1. Decide(t, local[t], LiveDecision(local[t], policy), "answer")
    BY <1>2, Zenon DEF AuthorizeLive
  <2>2. policy \in LivePolicies
    BY <1>2, <1>q, <1>t DEF TypeOK, AccessRequest
  <2> HIDE DEF policy
  <2> DEFINE decision == LiveDecision(local[t], policy)
  <2>3. /\ decision \in Decision
        /\ decision.allow /\ decision.delegation = 0 =>
             GrantedByClaims(policy.rules, local[t].principal, local[t].request.capability)
        /\ decision.allow /\ decision.delegation # 0 =>
             /\ local[t].delegation # None /\ local[t].delegation \in Delegation
             /\ decision.delegation = local[t].delegation.id
             /\ is_valid_at(local[t].delegation, clock)
    <3>1. CASE policy.own_id
      <4>1. decision = evaluate_capability(policy.rules, local[t].principal, local[t].delegation,
                             local[t].request.capability, clock)
        BY <3>1 DEF LiveDecision
      <4>2. local[t].delegation \in Delegation \cup {None}
        BY <1>t, LocalFields
      <4> HIDE DEF decision
      <4> QED BY <4>1, <4>2, CapabilityDecision
    <3>2. CASE ~ policy.own_id
      <4>1. decision = Denied
        BY <3>2 DEF LiveDecision
      <4> QED BY <4>1 DEF Denied, Decision
    <3> QED BY <3>1, <3>2
  <2> HIDE DEF decision
  <2>4. "answer" \in PC
    BY DEF PC
  <2>5. Keeps(t) /\ KeepsRequest(t) /\ local'[t].pc = "answer" /\ local'[t].decision = decision
    BY <2>1, <2>3, <2>4, <1>t, DecideStep DEF decision
  <2> QED BY <1>2, <1>p, <2>2, <2>3, <2>5 DEF policy
<1> QED BY <1>1, <1>2

\* authorize_resource.
LEMMA AuthorizeResourceStep ==
    ASSUME TypeInv, NEW t \in Thread, AuthorizeResource(t)
    PROVE  /\ Keeps(t) /\ StoresSame /\ KeepsRequest(t)
           /\ local[t].pc = "authorize" /\ local'[t].pc = "mesh" /\ local'[t].now = clock
           /\ local[t].request.resource # None /\ local[t].request.run = 0
<1>1. TypeOK /\ ToMesh(t)
  BY DEF TypeInv, AuthorizeResource, ToMesh
<1> QED BY <1>1, ToMeshStep DEF AuthorizeResource, StoresSame

\* authorize_run_resource.
LEMMA AuthorizeRunStep ==
    ASSUME TypeInv, NEW t \in Thread, AuthorizeRun(t)
    PROVE  /\ Keeps(t) /\ StoresSame /\ KeepsRequest(t)
           /\ local[t].pc = "authorize" /\ local[t].request.resource # None
           /\ \/ /\ local'[t].pc = "mesh" /\ local'[t].now = clock
                 /\ RunAdmits(local[t], local[t].request.run, clock)
              \/ local'[t].pc = "audit" /\ local'[t].decision = Denied
<1>t. TypeOK
  BY DEF TypeInv
<1>p. local[t].pc = "authorize" /\ StoresSame /\ local[t].request.resource # None
  BY DEF AuthorizeRun, StoresSame
<1>1. CASE RunAdmits(local[t], local[t].request.run, clock)
  <2>1. ToMesh(t)
    BY <1>1, Zenon DEF AuthorizeRun, ToMesh
  <2> QED BY <1>1, <1>p, <1>t, <2>1, ToMeshStep
<1>2. CASE ~ RunAdmits(local[t], local[t].request.run, clock)
  <2>1. Decide(t, local[t], Denied, "audit")
    BY <1>2, Zenon DEF AuthorizeRun
  <2>2. Denied \in Decision /\ "audit" \in PC
    BY DEF Denied, Decision, PC
  <2> QED BY <1>p, <1>t, <2>1, <2>2, DecideStep
<1> QED BY <1>1, <1>2

\* AuthMesh::authorize and authorize_request.
LEMMA AuthorizeMeshStep ==
    ASSUME TypeInv, NEW t \in Thread, AuthorizeMesh(t)
    PROVE  /\ Keeps(t) /\ StoresSame /\ KeepsRequest(t)
           /\ local[t].pc = "mesh" /\ local'[t].pc = "audit"
           /\ local'[t].decision.allow /\ local'[t].decision.delegation # 0 =>
                 \E d \in delegations_for(local[t].principal.id) :
                    local'[t].decision.delegation = d.id /\ is_valid_at(d, local[t].now)
<1>t. TypeOK
  BY DEF TypeInv
<1> DEFINE q == local[t].request
           picked == pick_delegation(delegations_for(local[t].principal.id), q.capability, local[t].now)
           decision == IF q.resource = None
             THEN evaluate_capability(TenantPolicy, local[t].principal, picked, q.capability, local[t].now)
             ELSE evaluate_authorization_request(TenantPolicy, local[t].principal, picked,
                      q.capability, q.resource, local[t].now)
<1>1. local[t].pc = "mesh" /\ StoresSame /\ Decide(t, local[t], decision, "audit")
  BY DEF AuthorizeMesh, StoresSame
<1>2. picked \in delegations_for(local[t].principal.id) \cup {None}
  BY <1>t, Picked
<1>3. picked \in Delegation \cup {None}
  BY <1>2, <1>t, DelegationsFor
<1> HIDE DEF picked
<1>4. /\ decision \in Decision
      /\ decision.allow /\ decision.delegation # 0 =>
           picked # None /\ decision.delegation = picked.id /\ is_valid_at(picked, local[t].now)
  <2>1. CASE q.resource = None
    <3>1. decision = evaluate_capability(TenantPolicy, local[t].principal, picked, q.capability, local[t].now)
      BY <2>1
    <3> HIDE DEF decision
    <3> QED BY <3>1, <1>3, CapabilityDecision
  <2>2. CASE q.resource # None
    <3>1. decision = evaluate_authorization_request(TenantPolicy, local[t].principal, picked,
                      q.capability, q.resource, local[t].now)
      BY <2>2
    <3> HIDE DEF decision
    <3> QED BY <3>1, <1>3, ResourceDecision
  <2> QED BY <2>1, <2>2
<1> HIDE DEF decision
<1>5. "audit" \in PC
  BY DEF PC
<1>6. Keeps(t) /\ KeepsRequest(t) /\ local'[t].pc = "audit" /\ local'[t].decision = decision
  BY <1>1, <1>4, <1>5, <1>t, DecideStep
<1> QED BY <1>1, <1>2, <1>4, <1>6

\* record_decision.
LEMMA AuditStep ==
    ASSUME TypeInv, NEW t \in Thread, Audit(t)
    PROVE  /\ Keeps(t) /\ StoresSame /\ KeepsRequest(t)
           /\ local[t].pc = "audit" /\ local'[t].pc = "answer"
           /\ local'[t].decision \in {local[t].decision, Denied}
<1>t. TypeOK /\ local[t] \in Local
  BY DEF TypeInv, TypeOK
<1>p. local[t].pc = "audit" /\ StoresSame
  BY DEF Audit, StoresSame
<1>1. CASE local' = [local EXCEPT ![t] = [local[t] EXCEPT !.pc = "answer"]]
  <2> DEFINE x == [local[t] EXCEPT !.pc = "answer"]
  <2>1. x \in Local
    BY <1>t DEF Local, PC
  <2>2. /\ x.pc = "answer" /\ x.decision = local[t].decision
        /\ x.request = local[t].request /\ x.id = local[t].id
        /\ x.principal = local[t].principal /\ x.begun = local[t].begun
    BY <1>t DEF Local
  <2>3. local' = [local EXCEPT ![t] = x]
    BY <1>1
  <2> HIDE DEF x
  <2> QED BY <1>p, <1>t, <2>1, <2>2, <2>3, SetThread DEF KeepsRequest
<1>2. CASE local' = [local EXCEPT ![t] = Unrecorded(local[t])]
  <2>1. Decide(t, local[t], Denied, "answer")
    BY <1>2 DEF Decide, Unrecorded
  <2>2. Denied \in Decision /\ "answer" \in PC
    BY DEF Denied, Decision, PC
  <2> QED BY <1>p, <1>t, <2>1, <2>2, DecideStep
<1> QED BY <1>1, <1>2 DEF Audit

\* The answer ends the request.
LEMMA AnswerStep ==
    ASSUME TypeInv, NEW t \in Thread, Answer(t)
    PROVE  Keeps(t) /\ StoresSame /\ local[t].pc = "answer" /\ local'[t] = Idle
<1>1. TypeOK /\ Return(t) /\ local[t].pc = "answer" /\ StoresSame
  BY DEF TypeInv, Answer, StoresSame
<1> QED BY <1>1, Returned

(***************************************************************************)
(* What no step takes away                                                 *)
(***************************************************************************)

\* The thread is where it was; it may have noted another live policy.
SameThread(u) ==
    /\ local'[u].pc = local[u].pc
    /\ local'[u].request = local[u].request
    /\ local'[u].id = local[u].id
    /\ local'[u].now = local[u].now
    /\ local'[u].principal = local[u].principal
    /\ local'[u].delegation = local[u].delegation
    /\ local'[u].chain = local[u].chain
    /\ local'[u].decision = local[u].decision
    /\ local'[u].begun.clock = local[u].begun.clock
    /\ local'[u].begun.revoked = local[u].begun.revoked
    /\ local'[u].begun.cancelled = local[u].begun.cancelled

\* A stored delegation e, later, is d but may have been revoked.
SameDelegation(d, e) ==
    /\ e # None
    /\ e.id = d.id /\ e.delegator = d.delegator /\ e.delegate = d.delegate
    /\ e.capabilities = d.capabilities /\ e.resource_scope = d.resource_scope
    /\ e.expires_at = d.expires_at /\ e.chain = d.chain
    /\ d.revoked => e.revoked

\* A stored run e, later, is d but may have been cancelled.
SameRun(d, e) ==
    /\ e # None
    /\ e.agent = d.agent /\ e.chain = d.chain /\ e.parent = d.parent
    /\ e.capabilities = d.capabilities /\ e.resource_scope = d.resource_scope
    /\ e.expires_at = d.expires_at
    /\ d.status = "Cancelled" => e.status = "Cancelled"

Grows ==
    /\ clock <= clock'
    /\ \A i \in DelegationId : Known(i) => SameDelegation(delegations[i], delegations'[i])
    /\ \A i \in RunId : KnownRun(i) => SameRun(runs[i], runs'[i])

StoreTypes ==
    /\ clock \in Nat
    /\ principals \in [Principal -> PrincipalRecord \cup {None}]
    /\ delegations \in [DelegationId -> Delegation \cup {None}]
    /\ runs \in [RunId -> Run \cup {None}]
    /\ live \in [Capability -> LivePolicies \cup {None}]

\* Delegations are only added and revoked.
LEMMA DelegationsNext ==
    ASSUME TypeInv, [Next]_vars
    PROVE  /\ delegations' \in [DelegationId -> Delegation \cup {None}]
           /\ \A i \in DelegationId : Known(i) => SameDelegation(delegations[i], delegations'[i])
<1>t. delegations \in [DelegationId -> Delegation \cup {None}]
  BY DEF TypeInv, TypeOK
<1>n. None \notin Delegation
  BY AgentAuthorityAssumption
<1>s. ASSUME delegations' = delegations
      PROVE  /\ delegations' \in [DelegationId -> Delegation \cup {None}]
             /\ \A i \in DelegationId : Known(i) => SameDelegation(delegations[i], delegations'[i])
  BY <1>s, <1>t DEF SameDelegation, Known
<1>1. ASSUME NEW t \in Thread, DelegateCreate(t), delegations' # delegations
      PROVE  /\ delegations' \in [DelegationId -> Delegation \cup {None}]
             /\ \A i \in DelegationId : Known(i) => SameDelegation(delegations[i], delegations'[i])
  <2> DEFINE x == NewDelegation(local[t])
  <2>1. /\ delegations[local[t].id] = None /\ local[t].id \in DelegationId
        /\ x \in Delegation /\ delegations' = [delegations EXCEPT ![local[t].id] = x]
    BY <1>1, DelegateCreateStep
  <2> HIDE DEF x
  <2> QED BY <2>1, <1>t DEF SameDelegation, Known
<1>2. ASSUME RevokeDelegation
      PROVE  /\ delegations' \in [DelegationId -> Delegation \cup {None}]
             /\ \A i \in DelegationId : Known(i) => SameDelegation(delegations[i], delegations'[i])
  <2>1. PICK j \in DelegationId :
           delegations[j] # None /\ delegations' = [delegations EXCEPT ![j].revoked = TRUE]
    BY <1>2 DEF RevokeDelegation
  <2> DEFINE x == [delegations[j] EXCEPT !.revoked = TRUE]
  <2>2. delegations' = [delegations EXCEPT ![j] = x]
    BY <2>1
  <2>3. delegations[j] \in Delegation
    BY <2>1, <1>t
  <2>4. x \in Delegation
    BY <2>3 DEF Delegation
  <2>5. SameDelegation(delegations[j], x)
    BY <2>3, <2>4, <1>n DEF SameDelegation, Delegation
  <2> HIDE DEF x
  <2> QED BY <2>2, <2>4, <2>5, <1>t DEF SameDelegation, Known
<1> QED
  BY <1>s, <1>1, <1>2 DEF Next, vars, Step, Continue, Admin, Tick, Delegate, CreateRun, Authenticate,
     DelegateCheck, RunCheck, RunParent, PutRun, Context, AuthorizeLive, AuthorizeResource,
     AuthorizeRun, AuthorizeMesh, Audit, Answer, CancelRun, SetAgentState, CreateAgent, SetLivePolicy

\* Runs are only added and cancelled.
LEMMA RunsNext ==
    ASSUME TypeInv, [Next]_vars
    PROVE  /\ runs' \in [RunId -> Run \cup {None}]
           /\ \A i \in RunId : KnownRun(i) => SameRun(runs[i], runs'[i])
<1>t. runs \in [RunId -> Run \cup {None}]
  BY DEF TypeInv, TypeOK
<1>n. None \notin Run
  BY AgentAuthorityAssumption
<1>s. ASSUME runs' = runs
      PROVE  /\ runs' \in [RunId -> Run \cup {None}]
             /\ \A i \in RunId : KnownRun(i) => SameRun(runs[i], runs'[i])
  BY <1>s, <1>t DEF SameRun, KnownRun
<1>1. ASSUME NEW t \in Thread, PutRun(t), runs' # runs
      PROVE  /\ runs' \in [RunId -> Run \cup {None}]
             /\ \A i \in RunId : KnownRun(i) => SameRun(runs[i], runs'[i])
  <2> DEFINE x == NewRun(local[t])
  <2>1. /\ runs[local[t].id] = None /\ local[t].id \in RunId
        /\ x \in Run /\ runs' = [runs EXCEPT ![local[t].id] = x]
    BY <1>1, PutRunStep
  <2> HIDE DEF x
  <2> QED BY <2>1, <1>t DEF SameRun, KnownRun
<1>2. ASSUME CancelRun
      PROVE  /\ runs' \in [RunId -> Run \cup {None}]
             /\ \A i \in RunId : KnownRun(i) => SameRun(runs[i], runs'[i])
  <2>1. PICK j \in RunId : runs[j] # None /\ runs' = [runs EXCEPT ![j].status = "Cancelled"]
    BY <1>2 DEF CancelRun
  <2> DEFINE x == [runs[j] EXCEPT !.status = "Cancelled"]
  <2>2. runs' = [runs EXCEPT ![j] = x]
    BY <2>1
  <2>3. runs[j] \in Run
    BY <2>1, <1>t
  <2>4. x \in Run
    BY <2>3 DEF Run
  <2>5. SameRun(runs[j], x)
    BY <2>3, <2>4, <1>n DEF SameRun, Run
  <2> HIDE DEF x
  <2> QED BY <2>2, <2>4, <2>5, <1>t DEF SameRun, KnownRun
<1> QED
  BY <1>s, <1>1, <1>2 DEF Next, vars, Step, Continue, Admin, Tick, Delegate, CreateRun, Authenticate,
     DelegateCheck, DelegateCreate, RunCheck, RunParent, Context, AuthorizeLive, AuthorizeResource,
     AuthorizeRun, AuthorizeMesh, Audit, Answer, RevokeDelegation, SetAgentState, CreateAgent,
     SetLivePolicy

\* Only agents change, and only an id of AgentIds becomes one.
PrincipalMoves(p) ==
    \/ principals'[p] = principals[p]
    \/ /\ principals'[p] \in PrincipalRecord
       /\ principals'[p].id = p /\ principals'[p].kind = "Agent"
       /\ \/ p \in AgentIds
          \/ principals[p] # None /\ principals[p].kind = "Agent"

\* What the steps of the administration do to principals.
LEMMA PrincipalsNext ==
    ASSUME TypeInv, StoreInv, [Next]_vars
    PROVE  /\ principals' \in [Principal -> PrincipalRecord \cup {None}]
           /\ \A p \in Principal : PrincipalMoves(p)
<1>t. principals \in [Principal -> PrincipalRecord \cup {None}]
  BY DEF TypeInv, TypeOK
<1>s. ASSUME principals' = principals
      PROVE  /\ principals' \in [Principal -> PrincipalRecord \cup {None}]
             /\ \A p \in Principal : PrincipalMoves(p)
  BY <1>s, <1>t DEF PrincipalMoves
<1>1. ASSUME SetAgentState
      PROVE  /\ principals' \in [Principal -> PrincipalRecord \cup {None}]
             /\ \A p \in Principal : PrincipalMoves(p)
  <2>1. PICK p \in Principal, state \in AgentStates :
          /\ principals[p] # None /\ principals[p].kind = "Agent"
          /\ principals' = [principals EXCEPT ![p].state = state]
    BY <1>1 DEF SetAgentState
  <2> DEFINE x == [principals[p] EXCEPT !.state = state]
  <2>2. principals' = [principals EXCEPT ![p] = x]
    BY <2>1
  <2>3. principals[p] \in PrincipalRecord /\ principals[p].id = p
    BY <2>1, <1>t DEF StoreInv
  <2>4. state \in {"Suspended", "Revoked", "Retired"}
    BY AgentAuthorityAssumption
  <2>5. x \in PrincipalRecord /\ x.id = p /\ x.kind = "Agent"
    BY <2>1, <2>3, <2>4 DEF PrincipalRecord
  <2> HIDE DEF x
  <2> QED BY <2>1, <2>2, <2>5, <1>t DEF PrincipalMoves
<1>2. ASSUME CreateAgent
      PROVE  /\ principals' \in [Principal -> PrincipalRecord \cup {None}]
             /\ \A p \in Principal : PrincipalMoves(p)
  <2>1. PICK p \in AgentIds :
          principals' = [principals EXCEPT ![p] =
              [id |-> p, kind |-> "Agent", state |-> "Active", claims |-> {}]]
    BY <1>2 DEF CreateAgent
  <2> DEFINE x == [id |-> p, kind |-> "Agent", state |-> "Active", claims |-> {}]
  <2>2. p \in Principal
    BY AgentAuthorityAssumption
  <2>3. x \in PrincipalRecord /\ x.id = p /\ x.kind = "Agent"
    BY <2>2 DEF PrincipalRecord
  <2>4. principals' = [principals EXCEPT ![p] = x]
    BY <2>1
  <2> HIDE DEF x
  <2> QED BY <2>2, <2>3, <2>4, <1>t DEF PrincipalMoves
<1> QED
  BY <1>s, <1>1, <1>2 DEF Next, vars, Step, Continue, Admin, Tick, Delegate, CreateRun, Authenticate,
     DelegateCheck, DelegateCreate, RunCheck, RunParent, PutRun, Context, AuthorizeLive,
     AuthorizeResource, AuthorizeRun, AuthorizeMesh, Audit, Answer, RevokeDelegation, CancelRun,
     SetLivePolicy

\* The live policies stay policies, and time does not go back.
LEMMA LiveNext ==
    ASSUME TypeInv, [Next]_vars
    PROVE  /\ live' \in [Capability -> LivePolicies \cup {None}]
           /\ clock' \in Nat /\ clock <= clock'
<1>t. live \in [Capability -> LivePolicies \cup {None}] /\ clock \in Nat
  BY DEF TypeInv, TypeOK
<1>1. \/ live' = live
      \/ \E c \in Capability, policy \in LivePolicies \cup {None} : live' = [live EXCEPT ![c] = policy]
  BY DEF Next, vars, Step, Continue, Admin, Tick, Delegate, CreateRun, Authenticate,
     DelegateCheck, DelegateCreate, RunCheck, RunParent, PutRun, Context, AuthorizeLive,
     AuthorizeResource, AuthorizeRun, AuthorizeMesh, Audit, Answer, RevokeDelegation, CancelRun,
     SetAgentState, CreateAgent, SetLivePolicy
<1>2. clock' = clock \/ clock' = clock + 1
  BY DEF Next, vars, Step, Continue, Admin, Tick, Delegate, CreateRun, Authenticate,
     DelegateCheck, DelegateCreate, RunCheck, RunParent, PutRun, Context, AuthorizeLive,
     AuthorizeResource, AuthorizeRun, AuthorizeMesh, Audit, Answer, RevokeDelegation, CancelRun,
     SetAgentState, CreateAgent, SetLivePolicy
<1> QED BY <1>t, <1>1, <1>2

\* Nothing a property relies on is taken out of a store.
LEMMA StoresGrow ==
    ASSUME TypeInv, StoreInv, [Next]_vars
    PROVE  Grows /\ StoreTypes'
BY DelegationsNext, RunsNext, PrincipalsNext, LiveNext DEF Grows, StoreTypes

\* Record x is me with the change of c's live policy noted.
Notes(me, x, c, policy) ==
    /\ x \in Local
    /\ x.pc = me.pc /\ x.request = me.request /\ x.id = me.id /\ x.now = me.now
    /\ x.principal = me.principal /\ x.delegation = me.delegation /\ x.chain = me.chain
    /\ x.decision = me.decision
    /\ x.begun.clock = me.begun.clock /\ x.begun.revoked = me.begun.revoked
    /\ x.begun.cancelled = me.begun.cancelled
    /\ x.begun.live = IF me.pc \in {"context", "authorize", "mesh"} /\ me.request.capability = c
                      THEN me.begun.live \cup {policy} ELSE me.begun.live

\* A thread that sees a live policy change keeps everything but its note of it.
LEMMA SeesFields ==
    ASSUME NEW me \in Local, NEW c, NEW policy \in LivePolicies \cup {None}
    PROVE  Notes(me, Sees(me, c, policy), c, policy)
<1> DEFINE x == Sees(me, c, policy)
<1>1. CASE me.pc \in {"context", "authorize", "mesh"} /\ me.request.capability = c
  <2> DEFINE b == [me.begun EXCEPT !.live = me.begun.live \cup {policy}]
  <2>1. x = [me EXCEPT !.begun = b]
    BY <1>1 DEF Sees
  <2>2. me.begun \in Begun
    BY LocalFields
  <2>3. /\ b \in Begun /\ b.clock = me.begun.clock /\ b.revoked = me.begun.revoked
        /\ b.cancelled = me.begun.cancelled /\ b.live = me.begun.live \cup {policy}
    BY <2>2 DEF Begun
  <2> HIDE DEF b, x
  <2>4. /\ x \in Local /\ x.begun = b
        /\ x.pc = me.pc /\ x.request = me.request /\ x.id = me.id /\ x.now = me.now
        /\ x.principal = me.principal /\ x.delegation = me.delegation /\ x.chain = me.chain
        /\ x.decision = me.decision
    BY <2>1, <2>3 DEF Local
  <2>5. Notes(me, x, c, policy)
    BY <1>1, <2>3, <2>4 DEF Notes
  <2> QED BY <2>5 DEF x
<1>2. CASE ~ (me.pc \in {"context", "authorize", "mesh"} /\ me.request.capability = c)
  <2>1. x = me
    BY <1>2 DEF Sees
  <2> QED BY <1>2, <2>1 DEF Notes
<1> QED BY <1>1, <1>2

\* Steps that no thread takes leave the threads where they are.
LEMMA AdminKeepsThreads ==
    ASSUME TypeInv, Admin \/ Tick \/ UNCHANGED vars
    PROVE  local' \in [Thread -> Local] /\ \A u \in Thread : SameThread(u)
<1>t. local \in [Thread -> Local]
  BY DEF TypeInv, TypeOK
<1>1. CASE local' = local
  BY <1>1, <1>t DEF SameThread
<1>2. CASE SetLivePolicy
  <2>1. PICK c \in Capability, policy \in LivePolicies \cup {None} :
           local' = [u \in Thread |-> Sees(local[u], c, policy)]
    BY <1>2 DEF SetLivePolicy
  <2>2. ASSUME NEW u \in Thread PROVE local'[u] \in Local /\ SameThread(u)
    <3>1. local[u] \in Local /\ local'[u] = Sees(local[u], c, policy)
      BY <1>t, <2>1
    <3>2. Notes(local[u], local'[u], c, policy)
      BY <3>1, SeesFields
    <3> QED BY <3>2 DEF Notes, SameThread
  <2> QED BY <2>1, <2>2
<1> QED BY <1>1, <1>2 DEF Admin, Tick, vars, RevokeDelegation, CancelRun, SetAgentState, CreateAgent

(***************************************************************************)
(* Types, stores and what a request noted                                  *)
(***************************************************************************)

\* A step is one thread's, and the others stay where they are, or it is nobody's.
LEMMA OneMoves ==
    ASSUME TypeInv, [Next]_vars
    PROVE  /\ local' \in [Thread -> Local]
           /\ \/ \E t \in Thread : Step(t) /\ \A u \in Thread \ {t} : SameThread(u)
              \/ (Admin \/ Tick \/ UNCHANGED vars) /\ \A u \in Thread : SameThread(u)
<1>1. ASSUME NEW t \in Thread, Step(t) PROVE Keeps(t)
  <2>1. TypeOK
    BY DEF TypeInv
  <2> QED BY <1>1, <2>1, DelegateStep, DelegateCheckStep, DelegateCreateStep, CreateRunStep,
        RunCheckStep, RunParentStep, PutRunStep, AuthenticateStep, ContextStep, AuthorizeLiveStep,
        AuthorizeResourceStep, AuthorizeRunStep, AuthorizeMeshStep, AuditStep, AnswerStep
        DEF Step, Continue
<1>2. ASSUME NEW t \in Thread, Step(t)
      PROVE  local' \in [Thread -> Local] /\ \A u \in Thread \ {t} : SameThread(u)
  BY <1>1, <1>2 DEF Keeps, SameThread
<1>3. ASSUME Admin \/ Tick \/ UNCHANGED vars
      PROVE  local' \in [Thread -> Local] /\ \A u \in Thread : SameThread(u)
  BY <1>3, AdminKeepsThreads
<1> QED BY <1>2, <1>3 DEF Next

\* A thread that stays keeps its request and what it noted.
LEMMA BaseStays ==
    ASSUME BaseInv, Grows, StoreTypes', NEW u \in Thread, SameThread(u)
    PROVE  Fits(u)' /\ BegunInv(u)'
<1>1. Fits(u)'
  BY DEF BaseInv, TypeInv, Fits, SameThread
<1>2. ASSUME local[u].pc \in Enforcing PROVE BegunInv(u)'
  <2>1. BegunInv(u) /\ local[u] \in Local /\ clock \in Nat
    BY DEF BaseInv, TypeInv, TypeOK
  <2>2. local[u].begun \in Begun
    BY <2>1, LocalFields
  <2>3. local[u].begun.clock \in Nat
    BY <2>2 DEF Begun
  <2>4. clock' \in Nat /\ clock <= clock'
    BY DEF Grows, StoreTypes
  <2>5. local[u].begun.clock <= clock'
    BY <2>1, <2>3, <2>4, <1>2 DEF BegunInv
  <2>6. ASSUME NEW i \in local[u].begun.revoked PROVE Known(i)' /\ delegations'[i].revoked
    BY <1>2, <2>1 DEF BegunInv, Grows, SameDelegation, Known
  <2>7. ASSUME NEW i \in local[u].begun.cancelled PROVE KnownRun(i)' /\ runs'[i].status = "Cancelled"
    BY <1>2, <2>1 DEF BegunInv, Grows, SameRun, KnownRun
  <2> QED BY <1>2, <2>1, <2>5, <2>6, <2>7 DEF BegunInv, SameThread
<1>3. CASE local[u].pc \notin Enforcing
  BY <1>1, <1>3 DEF BegunInv, SameThread
<1> QED BY <1>1, <1>2, <1>3

\* A thread that goes on with its request keeps it, and what it noted.
LEMMA BaseGoesOn ==
    ASSUME BaseInv, Grows, StoreTypes', NEW t \in Thread, KeepsRequest(t),
           StoresSame, local[t].pc \in Enforcing, local'[t].pc \in Enforcing,
           local'[t].pc \in {"context", "mesh"} => local'[t].now = clock
    PROVE  Fits(t)' /\ BegunInv(t)'
<1>1. Fits(t) /\ BegunInv(t)
  BY DEF BaseInv, TypeInv
<1>2. Fits(t)'
  BY <1>1 DEF Fits, KeepsRequest, Enforcing, Delegating, Running
<1>3. /\ local'[t].principal.id = local'[t].request.principal
      /\ local'[t].begun.clock <= clock'
      /\ local'[t].pc \in {"context", "mesh"} => local'[t].begun.clock <= local'[t].now
  BY <1>1 DEF BegunInv, KeepsRequest, StoresSame
<1>4. ASSUME NEW i \in local'[t].begun.revoked PROVE Known(i)' /\ delegations'[i].revoked
  BY <1>1 DEF BegunInv, KeepsRequest, StoresSame, Known
<1>5. ASSUME NEW i \in local'[t].begun.cancelled PROVE KnownRun(i)' /\ runs'[i].status = "Cancelled"
  BY <1>1 DEF BegunInv, KeepsRequest, StoresSame, KnownRun
<1> QED BY <1>2, <1>3, <1>4, <1>5 DEF BegunInv

\* A thread whose request is over holds nothing.
LEMMA BaseIdle ==
    ASSUME NEW t \in Thread, local'[t] = Idle
    PROVE  Fits(t)' /\ BegunInv(t)'
BY IdleTyped DEF Fits, BegunInv, Delegating, Running, Enforcing

\* The thread that moves.
LEMMA BaseMover ==
    ASSUME BaseInv, Grows, StoreTypes', NEW t \in Thread, Step(t)
    PROVE  Fits(t)' /\ BegunInv(t)'
<1>t. TypeInv /\ TypeOK /\ StoreInv /\ Fits(t)
  BY DEF BaseInv, TypeInv
<1>1. CASE Delegate(t)
  BY <1>1, <1>t, DelegateStep DEF Fits, BegunInv, Delegating, Running, Enforcing
<1>2. CASE DelegateCheck(t)
  <2>1. CASE local'[t] = Idle
    BY <2>1, BaseIdle
  <2>2. CASE local'[t].pc = "delegate_create" /\ KeepsRequest(t) /\ local[t].pc = "delegate_check"
    BY <2>2, <1>t DEF Fits, BegunInv, Delegating, Running, Enforcing, KeepsRequest
  <2> QED BY <1>2, <1>t, <2>1, <2>2, DelegateCheckStep
<1>3. CASE DelegateCreate(t)
  BY <1>3, <1>t, DelegateCreateStep, BaseIdle
<1>4. CASE CreateRun(t)
  BY <1>4, <1>t, CreateRunStep DEF Fits, BegunInv, Delegating, Running, Enforcing
<1>5. CASE RunCheck(t)
  <2>1. CASE local'[t] = Idle
    BY <2>1, BaseIdle
  <2>2. CASE local'[t].pc \in {"run_put", "run_parent"} /\ KeepsRequest(t) /\ local[t].pc = "run_check"
    BY <2>2, <1>t DEF Fits, BegunInv, Delegating, Running, Enforcing, KeepsRequest
  <2> QED BY <1>5, <1>t, <2>1, <2>2, RunCheckStep
<1>6. CASE RunParent(t)
  <2>1. CASE local'[t] = Idle
    BY <2>1, BaseIdle
  <2>2. CASE local'[t].pc = "run_put" /\ KeepsRequest(t) /\ local[t].pc = "run_parent"
    BY <2>2, <1>t DEF Fits, BegunInv, Delegating, Running, Enforcing, KeepsRequest
  <2> QED BY <1>6, <1>t, <2>1, <2>2, RunParentStep
<1>7. CASE PutRun(t)
  BY <1>7, <1>t, PutRunStep, BaseIdle
<1>8. CASE Authenticate(t)
  <2>1. /\ local'[t].pc = "context" /\ local'[t].request \in AccessRequests /\ StoresSame
        /\ local'[t].now = clock /\ local'[t].principal = principals[local'[t].request.principal]
        /\ local'[t].principal \in PrincipalRecord
        /\ local'[t].begun = Now(local'[t].request.capability)
    BY <1>8, <1>t, AuthenticateStep
  <2>2. Fits(t)'
    BY <2>1 DEF Fits, Delegating, Running, Enforcing
  <2>3. local'[t].request \in AccessRequest /\ None \notin PrincipalRecord
    BY <2>1, AskedTyped, AgentAuthorityAssumption
  <2>4. local'[t].principal.id = local'[t].request.principal
    BY <2>1, <2>3, <1>t DEF StoreInv, AccessRequest
  <2>5. clock \in Nat /\ local'[t].begun.clock = clock
    BY <2>1, <1>t DEF Now, TypeOK
  <2>6. \A i \in local'[t].begun.revoked : Known(i)' /\ delegations'[i].revoked
    BY <2>1 DEF Now, Known, StoresSame
  <2>7. \A i \in local'[t].begun.cancelled : KnownRun(i)' /\ runs'[i].status = "Cancelled"
    BY <2>1 DEF Now, KnownRun, StoresSame
  <2> QED BY <2>1, <2>2, <2>4, <2>5, <2>6, <2>7 DEF BegunInv, StoresSame
<1>9. CASE Context(t)
  <2>1. /\ KeepsRequest(t) /\ StoresSame
        /\ local[t].pc = "context" /\ local'[t].pc = "authorize"
    BY <1>9, <1>t, ContextStep
  <2> QED BY <2>1, BaseGoesOn DEF Enforcing
<1>10. CASE AuthorizeLive(t)
  <2>1. /\ KeepsRequest(t) /\ StoresSame /\ local[t].pc = "authorize"
        /\ local'[t].pc = "answer" \/ (local'[t].pc = "mesh" /\ local'[t].now = clock)
    BY <1>10, <1>t, AuthorizeLiveStep
  <2> QED BY <2>1, BaseGoesOn DEF Enforcing
<1>11. CASE AuthorizeResource(t)
  <2>1. /\ KeepsRequest(t) /\ StoresSame /\ local[t].pc = "authorize"
        /\ local'[t].pc = "mesh" /\ local'[t].now = clock
    BY <1>11, <1>t, AuthorizeResourceStep
  <2> QED BY <2>1, BaseGoesOn DEF Enforcing
<1>12. CASE AuthorizeRun(t)
  <2>1. /\ KeepsRequest(t) /\ StoresSame /\ local[t].pc = "authorize"
        /\ local'[t].pc = "audit" \/ (local'[t].pc = "mesh" /\ local'[t].now = clock)
    BY <1>12, <1>t, AuthorizeRunStep
  <2> QED BY <2>1, BaseGoesOn DEF Enforcing
<1>13. CASE AuthorizeMesh(t)
  <2>1. /\ KeepsRequest(t) /\ StoresSame /\ local[t].pc = "mesh" /\ local'[t].pc = "audit"
    BY <1>13, <1>t, AuthorizeMeshStep
  <2> QED BY <2>1, BaseGoesOn DEF Enforcing
<1>14. CASE Audit(t)
  <2>1. /\ KeepsRequest(t) /\ StoresSame /\ local[t].pc = "audit" /\ local'[t].pc = "answer"
    BY <1>14, <1>t, AuditStep
  <2> QED BY <2>1, BaseGoesOn DEF Enforcing
<1>15. CASE Answer(t)
  BY <1>15, <1>t, AnswerStep, BaseIdle
<1> QED BY <1>1, <1>2, <1>3, <1>4, <1>5, <1>6, <1>7, <1>8, <1>9, <1>10, <1>11, <1>12, <1>13, <1>14,
           <1>15 DEF Step, Continue

\* Who made a delegation that was not there before.
LEMMA NewlyKnown ==
    ASSUME TypeInv, [Next]_vars, NEW i \in DelegationId, ~ Known(i), Known(i)'
    PROVE  \E t \in Thread :
              /\ local[t].pc = "delegate_create" /\ local[t].id = i
              /\ delegations'[i] = NewDelegation(local[t])
<1>t. TypeOK
  BY DEF TypeInv
<1>1. delegations'[i] # delegations[i]
  BY DEF Known
<1>2. PICK t \in Thread : DelegateCreate(t) /\ delegations' # delegations
  <2>1. ~ RevokeDelegation
    <3> SUFFICES ASSUME RevokeDelegation PROVE FALSE
      OBVIOUS
    <3>1. PICK j \in DelegationId :
             delegations[j] # None /\ delegations' = [delegations EXCEPT ![j].revoked = TRUE]
      BY DEF RevokeDelegation
    <3>2. i # j
      BY <3>1 DEF Known
    <3> QED BY <3>1, <3>2, <1>1, <1>t DEF TypeOK
  <2> QED BY <1>1, <2>1 DEF Next, vars, Step, Continue, Admin, Tick, Delegate, CreateRun,
        Authenticate, DelegateCheck, RunCheck, RunParent, PutRun, Context, AuthorizeLive,
        AuthorizeResource, AuthorizeRun, AuthorizeMesh, Audit, Answer, CancelRun,
        SetAgentState, CreateAgent, SetLivePolicy
<1>3. /\ delegations' = [delegations EXCEPT ![local[t].id] = NewDelegation(local[t])]
      /\ local[t].pc = "delegate_create"
  BY <1>2, DelegateCreateStep
<1>4. i = local[t].id /\ delegations'[i] = NewDelegation(local[t])
  BY <1>1, <1>3, <1>t DEF TypeOK
<1> QED BY <1>3, <1>4

\* Who made a run that was not there before.
LEMMA NewlyRun ==
    ASSUME TypeInv, [Next]_vars, NEW i \in RunId, ~ KnownRun(i), KnownRun(i)'
    PROVE  \E t \in Thread :
              /\ local[t].pc = "run_put" /\ local[t].id = i
              /\ runs'[i] = NewRun(local[t])
<1>t. TypeOK
  BY DEF TypeInv
<1>1. runs'[i] # runs[i]
  BY DEF KnownRun
<1>2. PICK t \in Thread : PutRun(t) /\ runs' # runs
  <2>1. ~ CancelRun
    <3> SUFFICES ASSUME CancelRun PROVE FALSE
      OBVIOUS
    <3>1. PICK j \in RunId : runs[j] # None /\ runs' = [runs EXCEPT ![j].status = "Cancelled"]
      BY DEF CancelRun
    <3>2. i # j
      BY <3>1 DEF KnownRun
    <3> QED BY <3>1, <3>2, <1>1, <1>t DEF TypeOK
  <2> QED BY <1>1, <2>1 DEF Next, vars, Step, Continue, Admin, Tick, Delegate, CreateRun,
        Authenticate, DelegateCheck, DelegateCreate, RunCheck, RunParent, Context, AuthorizeLive,
        AuthorizeResource, AuthorizeRun, AuthorizeMesh, Audit, Answer, RevokeDelegation,
        SetAgentState, CreateAgent, SetLivePolicy
<1>3. /\ runs' = [runs EXCEPT ![local[t].id] = NewRun(local[t])]
      /\ local[t].pc = "run_put"
  BY <1>2, PutRunStep
<1>4. i = local[t].id /\ runs'[i] = NewRun(local[t])
  BY <1>1, <1>3, <1>t DEF TypeOK
<1> QED BY <1>3, <1>4

\* The stores stay keyed by id.
LEMMA StoreNext ==
    ASSUME BaseInv, [Next]_vars
    PROVE  StoreInv'
<1>t. TypeInv /\ StoreInv /\ TypeOK
  BY DEF BaseInv, TypeInv
<1>1. ASSUME NEW i \in DelegationId, Known(i)' PROVE delegations'[i].id = i
  <2>1. CASE Known(i)
    BY <2>1, <1>t, DelegationsNext DEF SameDelegation, StoreInv
  <2>2. CASE ~ Known(i)
    <3>1. PICK t \in Thread : local[t].id = i /\ delegations'[i] = NewDelegation(local[t])
      BY <1>1, <2>2, <1>t, NewlyKnown
    <3> QED BY <3>1 DEF NewDelegation
  <2> QED BY <2>1, <2>2
<1>2. ASSUME NEW p \in Principal
      PROVE  /\ principals'[p] # None => principals'[p].id = p
             /\ principals'[p] # None /\ principals'[p].kind # "Agent"
                  => principals'[p] = InitialPrincipals[p]
  BY <1>t, PrincipalsNext DEF PrincipalMoves, StoreInv
<1> QED BY <1>1, <1>2 DEF StoreInv

\* Every step keeps the types, the stores' keys and what requests noted.
LEMMA BaseNext == BaseInv /\ [Next]_vars => BaseInv'
<1> SUFFICES ASSUME BaseInv, [Next]_vars PROVE BaseInv'
  OBVIOUS
<1>t. TypeInv /\ StoreInv
  BY DEF BaseInv
<1>1. Grows /\ StoreTypes' /\ StoreInv'
  BY <1>t, StoresGrow, StoreNext
<1>2. local' \in [Thread -> Local]
  BY <1>t, OneMoves
<1>3. ASSUME NEW u \in Thread PROVE Fits(u)' /\ BegunInv(u)'
  <2>1. SameThread(u) \/ Step(u)
    BY <1>t, OneMoves
  <2> QED BY <2>1, <1>1, BaseStays, BaseMover
<1>4. TypeOK'
  BY <1>1, <1>2 DEF TypeOK, StoreTypes
<1> QED BY <1>1, <1>3, <1>4 DEF BaseInv, TypeInv

\* The start.
LEMMA BaseInit == Init => BaseInv
<1> SUFFICES ASSUME Init PROVE BaseInv
  OBVIOUS
<1>1. TypeOK
  BY IdleTyped, AgentAuthorityAssumption DEF Init, TypeOK
<1>2. \A t \in Thread : local[t] = Idle
  BY DEF Init
<1>3. \A t \in Thread : Fits(t) /\ BegunInv(t)
  BY <1>2, IdleTyped DEF Fits, BegunInv, Delegating, Running, Enforcing
<1>4. StoreInv
  BY AgentAuthorityAssumption DEF Init, StoreInv, Known
<1> QED BY <1>1, <1>3, <1>4 DEF BaseInv, TypeInv

\* Every store and every thread's record keep their types, and a thread holds the
\* kind of request its step reads (the fields the handlers of mesh.rs unwrap).
THEOREM AgentTypes == Spec => []TypeInv
<1>1. BaseInv => TypeInv
  BY DEF BaseInv
<1> QED BY <1>1, BaseInit, BaseNext, PTL DEF Spec

(***************************************************************************)
(* What has lapsed is denied                                               *)
(***************************************************************************)

LapsedInv == BaseInv /\ \A t \in Thread : LapseInv(t)

\* A thread that stays rests on what it rested on.
LEMMA LapseStays ==
    ASSUME LapsedInv, Grows, NEW u \in Thread, SameThread(u)
    PROVE  LapseInv(u)'
<1>1. LapseInv(u)
  BY DEF LapsedInv
<1>2. ASSUME local'[u].pc = "authorize", local'[u].delegation # None
      PROVE  /\ Known(local[u].delegation.id)'
             /\ delegations'[local[u].delegation.id].expires_at = local[u].delegation.expires_at
             /\ ~ local[u].delegation.revoked =>
                   local[u].delegation.id \notin local[u].begun.revoked
  BY <1>1, <1>2 DEF LapseInv, SameThread, Grows, SameDelegation, Known
<1>3. ASSUME Allows(u)', local'[u].decision.delegation # 0
      PROVE  /\ Known(local[u].decision.delegation)'
             /\ local[u].decision.delegation \notin local[u].begun.revoked
             /\ delegations'[local[u].decision.delegation].expires_at # None =>
                   local[u].begun.clock < delegations'[local[u].decision.delegation].expires_at
  <2>1. Allows(u) /\ local[u].decision.delegation # 0
    BY <1>3 DEF Allows, SameThread
  <2> DEFINE i == local[u].decision.delegation
  <2>2. /\ Known(i) /\ i \notin local[u].begun.revoked
        /\ delegations[i].expires_at # None => local[u].begun.clock < delegations[i].expires_at
    BY <1>1, <2>1 DEF LapseInv
  <2> HIDE DEF i
  <2>3. delegations'[i] # None /\ delegations'[i].expires_at = delegations[i].expires_at
        /\ i \in DelegationId
    BY <2>2 DEF Grows, SameDelegation, Known
  <2> QED BY <2>2, <2>3 DEF Known, i, SameThread
<1> QED BY <1>2, <1>3 DEF LapseInv, SameThread

\* A delegation of the store that is valid at some time since the request came in.
LEMMA ValidIsGood ==
    ASSUME LapsedInv, NEW t \in Thread, local[t].pc \in Enforcing,
           NEW now \in Nat, local[t].begun.clock <= now,
           NEW d, NEW i \in DelegationId, Known(i), delegations[i].expires_at = d.expires_at,
           i \notin local[t].begun.revoked,
           is_valid_at(d, now)
    PROVE  /\ Known(i) /\ i \notin local[t].begun.revoked
           /\ delegations[i].expires_at # None => local[t].begun.clock < delegations[i].expires_at
<1>1. TypeOK
  BY DEF LapsedInv, BaseInv, TypeInv
<1>2. local[t].begun \in Begun /\ delegations[i] \in Delegation
  BY <1>1, LocalFields DEF TypeOK, Known
<1>3. local[t].begun.clock \in Nat /\ delegations[i].expires_at \in Nat \cup {None}
  BY <1>2 DEF Begun, Delegation
<1>4. d.expires_at # None => now < d.expires_at
  BY DEF is_valid_at
<1> QED BY <1>3, <1>4

\* The thread that moves rests on what is good.
LEMMA LapseMover ==
    ASSUME LapsedInv, NEW t \in Thread, Step(t)
    PROVE  LapseInv(t)'
<1>t. TypeInv /\ TypeOK /\ StoreInv /\ Fits(t) /\ LapseInv(t) /\ BegunInv(t) /\ clock \in Nat
  BY DEF LapsedInv, BaseInv, TypeInv, TypeOK
<1>i. ASSUME local'[t] = Idle PROVE LapseInv(t)'
  BY <1>i, IdleTyped DEF LapseInv, Allows
<1>o. ASSUME local'[t].pc \notin {"authorize", "audit", "answer"} PROVE LapseInv(t)'
  BY <1>o DEF LapseInv, Allows
<1>1. CASE Delegate(t)
  BY <1>1, <1>t, <1>o, DelegateStep
<1>2. CASE DelegateCheck(t)
  <2>1. local'[t] = Idle \/ local'[t].pc = "delegate_create"
    BY <1>2, <1>t, DelegateCheckStep
  <2> QED BY <2>1, <1>i, <1>o
<1>3. CASE DelegateCreate(t)
  BY <1>3, <1>t, <1>i, DelegateCreateStep
<1>4. CASE CreateRun(t)
  BY <1>4, <1>t, <1>o, CreateRunStep
<1>5. CASE RunCheck(t)
  <2>1. local'[t] = Idle \/ local'[t].pc \in {"run_put", "run_parent"}
    BY <1>5, <1>t, RunCheckStep
  <2> QED BY <2>1, <1>i, <1>o
<1>6. CASE RunParent(t)
  <2>1. local'[t] = Idle \/ local'[t].pc = "run_put"
    BY <1>6, <1>t, RunParentStep
  <2> QED BY <2>1, <1>i, <1>o
<1>7. CASE PutRun(t)
  BY <1>7, <1>t, <1>i, PutRunStep
<1>8. CASE Authenticate(t)
  BY <1>8, <1>t, <1>o, AuthenticateStep
<1>9. CASE Context(t)
  <2>1. /\ KeepsRequest(t) /\ StoresSame
        /\ local[t].pc = "context" /\ local'[t].pc = "authorize"
        /\ local'[t].delegation \in delegations_for(local[t].principal.id) \cup {None}
    BY <1>9, <1>t, ContextStep
  <2>2. ASSUME local'[t].delegation # None
        PROVE  /\ Known(local'[t].delegation.id)
               /\ delegations[local'[t].delegation.id] = local'[t].delegation
    <3>1. PICK i \in DelegationId : Known(i) /\ local'[t].delegation = delegations[i]
      BY <2>1, <2>2, <1>t, DelegationsFor
    <3>2. local'[t].delegation.id = i
      BY <3>1, <1>t DEF StoreInv
    <3> QED BY <3>1, <3>2
  <2>3. ASSUME local'[t].delegation # None, local'[t].delegation.id \in local[t].begun.revoked
        PROVE  local'[t].delegation.revoked
    BY <2>1, <2>2, <2>3, <1>t DEF BegunInv, Enforcing
  <2> QED BY <2>1, <2>2, <2>3 DEF LapseInv, Allows, KeepsRequest, StoresSame, Known
<1>10. CASE AuthorizeLive(t)
  <2>1. /\ KeepsRequest(t) /\ StoresSame /\ local[t].pc = "authorize"
        /\ local'[t].pc \in {"mesh", "answer"}
    BY <1>10, <1>t, AuthorizeLiveStep
  <2>2. ASSUME local'[t].pc = "answer", local'[t].decision.allow, local'[t].decision.delegation # 0
        PROVE  LET i == local'[t].decision.delegation
               IN  /\ Known(i) /\ i \notin local[t].begun.revoked
                   /\ delegations[i].expires_at # None =>
                         local[t].begun.clock < delegations[i].expires_at
    <3> DEFINE i == local'[t].decision.delegation
               d == local[t].delegation
    <3>1. d # None /\ d \in Delegation /\ i = d.id /\ is_valid_at(d, clock)
      BY <1>10, <2>2, <1>t, AuthorizeLiveStep
    <3>2. ~ d.revoked
      BY <3>1 DEF is_valid_at
    <3>3. /\ Known(i) /\ delegations[i].expires_at = d.expires_at
          /\ i \notin local[t].begun.revoked
      BY <3>1, <3>2, <2>1, <1>t DEF LapseInv
    <3>4. local[t].begun.clock <= clock /\ local[t].pc \in Enforcing
      BY <2>1, <1>t DEF BegunInv, Enforcing
    <3>5. i \in DelegationId
      BY <3>3 DEF Known
    <3> HIDE DEF i, d
    <3>6. /\ Known(i) /\ i \notin local[t].begun.revoked
          /\ delegations[i].expires_at # None => local[t].begun.clock < delegations[i].expires_at
      BY <3>1, <3>3, <3>4, <3>5, <1>t, ValidIsGood
    <3> QED BY <3>6 DEF i
  <2> QED BY <2>1, <2>2 DEF LapseInv, Allows, KeepsRequest, StoresSame, Known
<1>11. CASE AuthorizeResource(t)
  BY <1>11, <1>t, <1>o, AuthorizeResourceStep
<1>12. CASE AuthorizeRun(t)
  <2>1. local'[t].pc = "mesh" \/ (local'[t].pc = "audit" /\ local'[t].decision = Denied)
    BY <1>12, <1>t, AuthorizeRunStep
  <2>2. ~ Denied.allow
    BY DEF Denied
  <2> QED BY <2>1, <2>2 DEF LapseInv, Allows
<1>13. CASE AuthorizeMesh(t)
  <2>1. /\ KeepsRequest(t) /\ StoresSame /\ local[t].pc = "mesh" /\ local'[t].pc = "audit"
        /\ local'[t].decision.allow /\ local'[t].decision.delegation # 0 =>
                 \E d \in delegations_for(local[t].principal.id) :
                    local'[t].decision.delegation = d.id /\ is_valid_at(d, local[t].now)
    BY <1>13, <1>t, AuthorizeMeshStep
  <2>2. ASSUME local'[t].decision.allow, local'[t].decision.delegation # 0
        PROVE  LET i == local'[t].decision.delegation
               IN  /\ Known(i) /\ i \notin local[t].begun.revoked
                   /\ delegations[i].expires_at # None =>
                         local[t].begun.clock < delegations[i].expires_at
    <3>1. PICK d \in delegations_for(local[t].principal.id) :
             local'[t].decision.delegation = d.id /\ is_valid_at(d, local[t].now)
      BY <2>1, <2>2
    <3>2. PICK i \in DelegationId : Known(i) /\ d = delegations[i]
      BY <1>t, DelegationsFor
    <3>3. i = local'[t].decision.delegation /\ delegations[i].expires_at = d.expires_at
      BY <3>1, <3>2, <1>t DEF StoreInv
    <3>4. i \notin local[t].begun.revoked
      BY <3>1, <3>2, <2>1, <1>t DEF is_valid_at, BegunInv, Enforcing
    <3>5. local[t].begun.clock <= local[t].now /\ local[t].pc \in Enforcing
      BY <2>1, <1>t DEF BegunInv, Enforcing
    <3>6. local[t].now \in Nat
      BY <1>t, LocalFields DEF TypeOK
    <3>7. /\ Known(i) /\ i \notin local[t].begun.revoked
          /\ delegations[i].expires_at # None => local[t].begun.clock < delegations[i].expires_at
      BY <3>1, <3>2, <3>3, <3>4, <3>5, <3>6, ValidIsGood
    <3> QED BY <3>3, <3>7
  <2> QED BY <2>1, <2>2 DEF LapseInv, Allows, KeepsRequest, StoresSame, Known
<1>14. CASE Audit(t)
  <2>1. /\ KeepsRequest(t) /\ StoresSame /\ local[t].pc = "audit" /\ local'[t].pc = "answer"
        /\ local'[t].decision \in {local[t].decision, Denied}
    BY <1>14, <1>t, AuditStep
  <2>2. CASE local'[t].decision = Denied
    BY <2>1, <2>2 DEF LapseInv, Allows, Denied
  <2>3. CASE local'[t].decision = local[t].decision
    BY <2>1, <2>3, <1>t DEF LapseInv, Allows, KeepsRequest, StoresSame, Known
  <2> QED BY <2>1, <2>2, <2>3
<1>15. CASE Answer(t)
  BY <1>15, <1>t, <1>i, AnswerStep
<1> QED BY <1>1, <1>2, <1>3, <1>4, <1>5, <1>6, <1>7, <1>8, <1>9, <1>10, <1>11, <1>12, <1>13, <1>14,
           <1>15 DEF Step, Continue

\* A request that came in after a delegation was revoked or had ended is not
\* allowed by it, however it interleaves with revocations, new delegations and the
\* clock, and although the delegation of its context is a copy (evaluator.rs).
THEOREM LapsedIsDeniedHolds == Spec => []LapsedIsDenied
<1>1. Init => LapsedInv
  <2> SUFFICES ASSUME Init PROVE LapsedInv
    OBVIOUS
  <2>1. \A t \in Thread : local[t].pc = "idle"
    BY IdleTyped DEF Init
  <2> QED BY <2>1, BaseInit DEF LapsedInv, LapseInv, Allows
<1>2. LapsedInv /\ [Next]_vars => LapsedInv'
  <2> SUFFICES ASSUME LapsedInv, [Next]_vars PROVE LapsedInv'
    OBVIOUS
  <2>1. BaseInv /\ BaseInv' /\ TypeInv /\ StoreInv
    BY BaseNext DEF LapsedInv, BaseInv
  <2>2. Grows
    BY <2>1, StoresGrow
  <2>3. ASSUME NEW u \in Thread PROVE LapseInv(u)'
    <3>1. SameThread(u) \/ Step(u)
      BY <2>1, OneMoves
    <3> QED BY <3>1, <2>2, LapseStays, LapseMover
  <2> QED BY <2>1, <2>3 DEF LapsedInv
<1>3. LapsedInv => LapsedIsDenied
  BY DEF LapsedInv, LapseInv, LapsedIsDenied
<1> QED BY <1>1, <1>2, <1>3, PTL DEF Spec

(***************************************************************************)
(* Chains narrow                                                           *)
(***************************************************************************)

\* Every delegation of ds is in es, as SameDelegation has it.
Later(ds, es) == \A i \in DelegationId : ds[i] # None => SameDelegation(ds[i], es[i])

\* Nothing that happens later breaks a chain.
LEMMA LinkedStays ==
    ASSUME NEW ds, NEW es, Later(ds, es), NEW chain \in Seq(Nat \ {0}), NEW delegator, NEW scope,
           Linked(ds, chain, delegator, scope)
    PROVE  Linked(es, chain, delegator, scope)
<1>1. \A k \in DOMAIN chain :
         /\ chain[k] \in DelegationId /\ es[chain[k]] # None
         /\ is_subset_of(scope, es[chain[k]].resource_scope)
  BY DEF Linked, Later, SameDelegation
<1>2. ASSUME chain # <<>>
      PROVE  /\ es[chain[Len(chain)]].delegate = delegator
             /\ chain = Append(es[chain[Len(chain)]].chain, chain[Len(chain)])
  <2>1. Len(chain) \in DOMAIN chain
    BY <1>2
  <2>2. SameDelegation(ds[chain[Len(chain)]], es[chain[Len(chain)]])
    BY <2>1 DEF Linked, Later
  <2> QED BY <1>2, <2>2 DEF Linked, SameDelegation
<1> QED BY <1>1, <1>2 DEF Linked

\* A scope within the last link of a chain is within all of the chain.
LEMMA LinkedOn ==
    ASSUME NEW ds, NEW i \in DelegationId, ds[i] # None, ds[i] \in Delegation,
           Linked(ds, ds[i].chain, ds[i].delegator, ds[i].resource_scope),
           NEW scope, is_subset_of(scope, ds[i].resource_scope), DelegationId \subseteq Nat \ {0}
    PROVE  /\ Linked(ds, Append(ds[i].chain, i), ds[i].delegate, scope)
           /\ Within(ds, scope, Append(ds[i].chain, i))
<1> DEFINE old == ds[i].chain
           new == Append(old, i)
<1>1. old \in Seq(Nat \ {0})
  BY DEF Delegation
<1> HIDE DEF old
<1>2. /\ new \in Seq(Nat \ {0}) /\ Len(new) = Len(old) + 1 /\ Len(old) \in Nat /\ new[Len(new)] = i
      /\ \A k \in 1..Len(old) : new[k] = old[k]
      /\ DOMAIN new = 1..(Len(old) + 1) /\ DOMAIN old = 1..Len(old)
  BY <1>1
<1>3. new # <<>>
  BY <1>2
<1> HIDE DEF new
<1>4. ASSUME NEW k \in DOMAIN new
      PROVE  /\ new[k] \in DelegationId /\ ds[new[k]] # None
             /\ is_subset_of(scope, ds[new[k]].resource_scope)
  <2>1. CASE k = Len(old) + 1
    BY <2>1, <1>2
  <2>2. CASE k # Len(old) + 1
    <3>1. k \in DOMAIN old /\ new[k] = old[k]
      BY <2>2, <1>2
    <3>2. /\ old[k] \in DelegationId /\ ds[old[k]] # None
          /\ is_subset_of(ds[i].resource_scope, ds[old[k]].resource_scope)
      BY <3>1 DEF Linked, old
    <3> QED BY <3>1, <3>2, NarrowsOn
  <2> QED BY <2>1, <2>2
<1>5. new = Append(ds[new[Len(new)]].chain, new[Len(new)])
  BY <1>2 DEF new, old
<1>6. Linked(ds, new, ds[i].delegate, scope)
  BY <1>2, <1>3, <1>4, <1>5 DEF Linked
<1>7. Within(ds, scope, new)
  BY <1>4 DEF Within
<1> QED BY <1>6, <1>7 DEF new, old

\* The parent an agent delegates a capability from.
LEMMA ParentStored ==
    ASSUME BaseInv, NEW t \in Thread, NEW c,
           MayDelegate(local[t], c), local[t].principal.kind = "Agent"
    PROVE  \E i \in DelegationId :
              /\ Known(i) /\ ParentOf(local[t], c) = delegations[i]
              /\ delegations[i].id = i /\ delegations[i] \in Delegation
              /\ delegations[i].delegate = local[t].principal.id
              /\ Covers(delegations[i], c)
              /\ is_subset_of(local[t].request.resource_scope, delegations[i].resource_scope)
<1>1. TypeOK /\ StoreInv
  BY DEF BaseInv, TypeInv
<1>2. /\ ParentOf(local[t], c) # None
      /\ is_subset_of(local[t].request.resource_scope, ParentOf(local[t], c).resource_scope)
  BY DEF MayDelegate
<1>3. /\ ParentOf(local[t], c) \in delegations_for(local[t].principal.id)
      /\ Covers(ParentOf(local[t], c), c)
  BY <1>1, <1>2, PickedAsParent
<1>4. PICK i \in DelegationId :
         /\ Known(i) /\ ParentOf(local[t], c) = delegations[i]
         /\ ParentOf(local[t], c).delegate = local[t].principal.id
  BY <1>1, <1>3, DelegationsFor
<1>5. delegations[i] \in Delegation /\ delegations[i].id = i
  BY <1>1, <1>4 DEF TypeOK, StoreInv, Known
<1> QED BY <1>2, <1>3, <1>4, <1>5

\* The head of what a delegation asks for is one of the capabilities.
LEMMA HeadAsked ==
    ASSUME TypeInv, NEW t \in Thread, local[t].pc \in Delegating
    PROVE  /\ 1 \in DOMAIN local[t].request.capabilities
           /\ Head(local[t].request.capabilities) = local[t].request.capabilities[1]
<1>1. local[t].request \in DelegationRequest /\ local[t].request.capabilities # <<>>
  BY AskedTyped DEF TypeInv, Fits
<1>2. local[t].request.capabilities \in Seq(Capability)
  BY <1>1 DEF DelegationRequest
<1> QED BY <1>1, <1>2

\* The thread that moves has a chain when it is about to store a delegation.
LEMMA ChainMover ==
    ASSUME ChainInv, NEW t \in Thread, Step(t)
    PROVE  ChainThread(t)'
<1>t. BaseInv /\ TypeInv /\ TypeOK /\ StoreInv /\ Fits(t) /\ ChainThread(t)
  BY DEF ChainInv, BaseInv, TypeInv
<1>o. ASSUME local'[t].pc \notin Delegating PROVE ChainThread(t)'
  BY <1>o DEF ChainThread, Delegating
<1>i. ASSUME local'[t] = Idle PROVE ChainThread(t)'
  BY <1>i, <1>o, IdleTyped DEF Delegating
<1>1. CASE Delegate(t)
  <2>1. /\ local'[t].pc = "delegate_check" /\ local'[t].request \in DelegationRequests
        /\ local'[t].principal = principals[local'[t].request.delegator]
        /\ local'[t].principal \in PrincipalRecord
    BY <1>1, <1>t, DelegateStep
  <2>2. local'[t].request.delegator \in Principal /\ None \notin PrincipalRecord
    BY <2>1, AskedTyped, AgentAuthorityAssumption DEF DelegationRequest
  <2> QED BY <2>1, <2>2, <1>t DEF StoreInv, ChainThread
<1>2. CASE DelegateCheck(t)
  <2>1. CASE local'[t] = Idle
    BY <2>1, <1>i
  <2>2. ASSUME local'[t].pc = "delegate_create", KeepsRequest(t), StoresSame,
               local[t].pc = "delegate_check", local'[t].chain = ChainOf(local[t]),
               \A k \in DOMAIN local[t].request.capabilities :
                   MayDelegate(local[t], local[t].request.capabilities[k])
        PROVE  ChainThread(t)'
    <3> DEFINE q == local[t].request
    <3>1. /\ local[t].principal.id = q.delegator
          /\ local[t].principal.kind # "Agent" => local[t].principal = InitialPrincipals[q.delegator]
      BY <2>2, <1>t DEF ChainThread
    <3>2. CASE local[t].principal.kind # "Agent"
      <4>1. ChainOf(local[t]) = <<>>
        BY <3>2 DEF ChainOf
      <4>2. Linked(delegations, <<>>, q.delegator, q.resource_scope)
        BY <3>1, <3>2 DEF Linked
      <4> QED BY <2>2, <4>1, <4>2 DEF ChainThread, KeepsRequest, StoresSame
    <3>3. CASE local[t].principal.kind = "Agent"
      <4> DEFINE c == Head(q.capabilities)
      <4>1. MayDelegate(local[t], c)
        BY <2>2, <1>t, HeadAsked DEF Delegating
      <4>2. PICK i \in DelegationId :
              /\ Known(i) /\ ParentOf(local[t], c) = delegations[i]
              /\ delegations[i].id = i /\ delegations[i] \in Delegation
              /\ delegations[i].delegate = local[t].principal.id
              /\ is_subset_of(q.resource_scope, delegations[i].resource_scope)
        BY <4>1, <3>3, <1>t, ParentStored
      <4>3. ChainOf(local[t]) = Append(delegations[i].chain, i)
        BY <3>3, <4>2 DEF ChainOf
      <4>4. Linked(delegations, delegations[i].chain, delegations[i].delegator,
                   delegations[i].resource_scope)
        BY <4>2 DEF ChainInv
      <4>5. DelegationId \subseteq Nat \ {0} /\ delegations[i] # None
        BY <4>2, AgentAuthorityAssumption DEF Known
      <4>6. Linked(delegations, Append(delegations[i].chain, i), delegations[i].delegate, q.resource_scope)
        BY <4>2, <4>4, <4>5, LinkedOn
      <4> QED BY <2>2, <3>1, <4>2, <4>3, <4>6 DEF ChainThread, KeepsRequest, StoresSame
    <3> QED BY <3>2, <3>3
  <2> QED BY <1>2, <1>t, <2>1, <2>2, DelegateCheckStep
<1>3. CASE DelegateCreate(t)
  BY <1>3, <1>t, <1>i, DelegateCreateStep
<1>4. CASE CreateRun(t)
  BY <1>4, <1>t, <1>o, CreateRunStep DEF Delegating
<1>5. CASE RunCheck(t)
  <2>1. local'[t] = Idle \/ local'[t].pc \in {"run_put", "run_parent"}
    BY <1>5, <1>t, RunCheckStep
  <2> QED BY <2>1, <1>i, <1>o DEF Delegating
<1>6. CASE RunParent(t)
  <2>1. local'[t] = Idle \/ local'[t].pc = "run_put"
    BY <1>6, <1>t, RunParentStep
  <2> QED BY <2>1, <1>i, <1>o DEF Delegating
<1>7. CASE PutRun(t)
  BY <1>7, <1>t, <1>i, PutRunStep
<1>8. CASE Authenticate(t)
  BY <1>8, <1>t, <1>o, AuthenticateStep DEF Delegating
<1>9. CASE Context(t)
  BY <1>9, <1>t, <1>o, ContextStep DEF Delegating
<1>10. CASE AuthorizeLive(t)
  <2>1. local'[t].pc \in {"mesh", "answer"}
    BY <1>10, <1>t, AuthorizeLiveStep
  <2> QED BY <2>1, <1>o DEF Delegating
<1>11. CASE AuthorizeResource(t)
  BY <1>11, <1>t, <1>o, AuthorizeResourceStep DEF Delegating
<1>12. CASE AuthorizeRun(t)
  <2>1. local'[t].pc \in {"mesh", "audit"}
    BY <1>12, <1>t, AuthorizeRunStep
  <2> QED BY <2>1, <1>o DEF Delegating
<1>13. CASE AuthorizeMesh(t)
  BY <1>13, <1>t, <1>o, AuthorizeMeshStep DEF Delegating
<1>14. CASE Audit(t)
  BY <1>14, <1>t, <1>o, AuditStep DEF Delegating
<1>15. CASE Answer(t)
  BY <1>15, <1>t, <1>i, AnswerStep
<1> QED BY <1>1, <1>2, <1>3, <1>4, <1>5, <1>6, <1>7, <1>8, <1>9, <1>10, <1>11, <1>12, <1>13, <1>14,
           <1>15 DEF Step, Continue

\* Every step keeps chains narrowing.
LEMMA ChainNext == ChainInv /\ [Next]_vars => ChainInv'
<1> SUFFICES ASSUME ChainInv, [Next]_vars PROVE ChainInv'
  OBVIOUS
<1>t. BaseInv /\ BaseInv' /\ TypeInv /\ TypeOK /\ StoreInv /\ TypeOK'
  BY BaseNext DEF ChainInv, BaseInv, TypeInv
<1>g. Grows /\ Later(delegations, delegations')
  BY <1>t, StoresGrow DEF Grows, Later, Known
<1>1. ASSUME NEW u \in Thread PROVE ChainThread(u)'
  <2>1. CASE Step(u)
    BY <2>1, ChainMover
  <2>2. CASE SameThread(u)
    <3>1. ChainThread(u) /\ local[u].chain \in Seq(Nat \ {0})
      BY <1>t, LocalFields DEF ChainInv, TypeOK
    <3>2. local[u].pc = "delegate_create" =>
             Linked(delegations', local[u].chain, local[u].request.delegator,
                    local[u].request.resource_scope)
      BY <3>1, <1>g, LinkedStays DEF ChainThread
    <3> QED BY <2>2, <3>1, <3>2 DEF ChainThread, SameThread
  <2> QED BY <2>1, <2>2, <1>t, OneMoves
<1>2. ASSUME NEW i \in DelegationId, Known(i)'
      PROVE  /\ Linked(delegations', delegations'[i].chain, delegations'[i].delegator,
                       delegations'[i].resource_scope)
             /\ \A k \in DOMAIN delegations'[i].chain : delegations'[i].chain[k] # i
  <2>1. CASE Known(i)
    <3>1. /\ Linked(delegations, delegations[i].chain, delegations[i].delegator,
                    delegations[i].resource_scope)
          /\ \A k \in DOMAIN delegations[i].chain : delegations[i].chain[k] # i
      BY <2>1 DEF ChainInv
    <3>2. SameDelegation(delegations[i], delegations'[i]) /\ delegations[i] \in Delegation
      BY <2>1, <1>g, <1>t DEF Grows, Known, TypeOK
    <3>3. delegations[i].chain \in Seq(Nat \ {0})
      BY <3>2 DEF Delegation
    <3>4. Linked(delegations', delegations[i].chain, delegations[i].delegator,
                 delegations[i].resource_scope)
      BY <3>1, <3>3, <1>g, LinkedStays
    <3> QED BY <3>1, <3>2, <3>4 DEF SameDelegation
  <2>2. CASE ~ Known(i)
    <3>1. PICK t \in Thread : /\ local[t].pc = "delegate_create" /\ local[t].id = i
                              /\ delegations'[i] = NewDelegation(local[t])
      BY <1>2, <2>2, <1>t, NewlyKnown
    <3> DEFINE chain == local[t].chain
    <3>2. /\ Linked(delegations, chain, local[t].request.delegator, local[t].request.resource_scope)
          /\ chain \in Seq(Nat \ {0})
      BY <3>1, <1>t, LocalFields DEF ChainInv, ChainThread, TypeOK
    <3>3. Linked(delegations', chain, local[t].request.delegator, local[t].request.resource_scope)
      BY <3>2, <1>g, LinkedStays
    <3>4. \A k \in DOMAIN chain : chain[k] # i
      BY <3>2, <2>2 DEF Linked, Known
    <3>5. /\ delegations'[i].chain = chain /\ delegations'[i].delegator = local[t].request.delegator
          /\ delegations'[i].resource_scope = local[t].request.resource_scope
      BY <3>1 DEF NewDelegation
    <3> QED BY <3>3, <3>4, <3>5
  <2> QED BY <2>1, <2>2
<1> QED BY <1>t, <1>1, <1>2 DEF ChainInv

\* The start has no delegations.
LEMMA ChainInit == Init => ChainInv
<1> SUFFICES ASSUME Init PROVE ChainInv
  OBVIOUS
<1>1. \A t \in Thread : local[t].pc = "idle"
  BY IdleTyped DEF Init
<1>2. \A i \in DelegationId : ~ Known(i)
  BY DEF Init, Known
<1> QED BY <1>1, <1>2, BaseInit DEF ChainInv, ChainThread

\* What an agent delegates names the delegations it comes from, each known, and is
\* within every one of them, for chains of any length (mesh.rs, delegate, whose
\* checks and store call are separate steps).
THEOREM ChainNarrowsHolds == Spec => []ChainNarrows
<1>1. ChainInv => ChainNarrows
  <2> SUFFICES ASSUME ChainInv, NEW i \in DelegationId, Known(i)
               PROVE  LET d == delegations[i]
                          last == d.chain[Len(d.chain)]
                      IN  /\ d.chain = <<>> =>
                              InitialPrincipals[d.delegator] = None
                                  \/ InitialPrincipals[d.delegator].kind # "Agent"
                          /\ d.chain # <<>> =>
                              /\ delegations[last].delegate = d.delegator
                              /\ d.chain = Append(delegations[last].chain, last)
                              /\ \A k \in DOMAIN d.chain :
                                  /\ Known(d.chain[k]) /\ d.chain[k] # i
                                  /\ is_subset_of(d.resource_scope,
                                                   delegations[d.chain[k]].resource_scope)
    BY DEF ChainNarrows
  <2>1. /\ Linked(delegations, delegations[i].chain, delegations[i].delegator,
                  delegations[i].resource_scope)
        /\ \A k \in DOMAIN delegations[i].chain : delegations[i].chain[k] # i
    BY DEF ChainInv
  <2> QED BY <2>1 DEF Linked, Known
<1> QED BY <1>1, ChainInit, ChainNext, PTL DEF Spec

(***************************************************************************)
(* Delegation does not widen                                               *)
(***************************************************************************)

\* What is held stays held.
LEMMA HoldsStays ==
    ASSUME NEW ds, NEW es, Later(ds, es), NEW p, NEW c, NEW scope, Holds(ds, p, c, scope)
    PROVE  Holds(es, p, c, scope)
<1>1. CASE InitialPrincipals[p] # None /\ GrantedByClaims(TenantPolicy, InitialPrincipals[p], c)
  BY <1>1 DEF Holds
<1>2. ASSUME NEW j \in DelegationId, ds[j] # None, ds[j].delegate = p, Covers(ds[j], c),
             is_subset_of(scope, ds[j].resource_scope)
      PROVE  Holds(es, p, c, scope)
  <2>1. SameDelegation(ds[j], es[j])
    BY <1>2 DEF Later
  <2>2. /\ es[j] # None /\ es[j].delegate = p /\ Covers(es[j], c)
        /\ is_subset_of(scope, es[j].resource_scope)
    BY <1>2, <2>1 DEF SameDelegation, Covers
  <2> QED BY <2>2 DEF Holds
<1> QED BY <1>1, <1>2 DEF Holds

\* What the checks of delegate let through is held by the delegator.
LEMMA CheckedIsHeld ==
    ASSUME WidenInv, NoServiceDelegates, NEW t \in Thread, local[t].pc = "delegate_check", NEW c,
           MayDelegate(local[t], c)
    PROVE  Holds(delegations, local[t].request.delegator, c, local[t].request.resource_scope)
<1>t. BaseInv /\ TypeInv /\ TypeOK /\ ChainThread(t) /\ Fits(t)
  BY DEF WidenInv, ChainInv, BaseInv, TypeInv
<1> DEFINE q == local[t].request
<1>1. /\ local[t].principal.id = q.delegator
      /\ local[t].principal.kind # "Agent" => local[t].principal = InitialPrincipals[q.delegator]
      /\ q \in DelegationRequests /\ local[t].principal \in PrincipalRecord
  BY <1>t DEF ChainThread, Fits, Delegating
<1>2. CASE local[t].principal.kind = "Agent"
  <2>1. PICK i \in DelegationId :
              /\ Known(i) /\ delegations[i].delegate = local[t].principal.id
              /\ Covers(delegations[i], c)
              /\ is_subset_of(q.resource_scope, delegations[i].resource_scope)
    BY <1>2, <1>t, ParentStored
  <2> QED BY <2>1, <1>1 DEF Holds, Known
<1>3. CASE local[t].principal.kind # "Agent"
  <2>1. /\ InitialPrincipals[q.delegator] = local[t].principal
        /\ InitialPrincipals[q.delegator] # None
    BY <1>1, <1>3, AgentAuthorityAssumption
  <2>2. StaysHuman(q.delegator)
    BY <1>1, <1>3, <2>1 DEF NoServiceDelegates
  <2>3. ASSUME NEW d \in delegations_for(local[t].principal.id) PROVE FALSE
    <3>1. PICK i \in DelegationId : Known(i) /\ d = delegations[i] /\ d.delegate = local[t].principal.id
      BY <1>t, DelegationsFor
    <3>2. ~ StaysHuman(delegations[i].delegate)
      BY <3>1 DEF WidenInv
    <3> QED BY <3>1, <3>2, <2>2, <1>1
  <2>4. GrantedByClaims(TenantPolicy, local[t].principal, c)
    BY <2>3 DEF MayDelegate, EnvelopeAllows
  <2> QED BY <2>1, <2>4 DEF Holds
<1> QED BY <1>2, <1>3

\* The thread that moves.
LEMMA WidenMover ==
    ASSUME WidenInv, NoServiceDelegates, NEW t \in Thread, Step(t)
    PROVE  WidenThread(t)'
<1>t. TypeInv /\ TypeOK /\ WidenThread(t)
  BY DEF WidenInv, ChainInv, BaseInv, TypeInv
<1>o. ASSUME local'[t].pc \notin Delegating PROVE WidenThread(t)'
  BY <1>o DEF WidenThread, Delegating
<1>i. ASSUME local'[t] = Idle PROVE WidenThread(t)'
  BY <1>i, <1>o, IdleTyped DEF Delegating
<1>1. CASE Delegate(t)
  <2>1. /\ local'[t].pc = "delegate_check" /\ local'[t].request \in DelegationRequests
        /\ principals[local'[t].request.delegate] # None
        /\ principals[local'[t].request.delegate].kind # "Human"
    BY <1>1, <1>t, DelegateStep
  <2>2. local'[t].request.delegate \in Principal
    BY <2>1, AskedTyped DEF DelegationRequest
  <2>3. ~ StaysHuman(local'[t].request.delegate)
    BY <2>1, <2>2 DEF WidenInv, StaysHuman
  <2> QED BY <2>1, <2>3 DEF WidenThread, StaysHuman
<1>2. CASE DelegateCheck(t)
  <2>1. CASE local'[t] = Idle
    BY <2>1, <1>i
  <2>2. ASSUME local'[t].pc = "delegate_create", KeepsRequest(t), StoresSame,
               local[t].pc = "delegate_check",
               \A k \in DOMAIN local[t].request.capabilities :
                   MayDelegate(local[t], local[t].request.capabilities[k])
        PROVE  WidenThread(t)'
    <3>1. \A k \in DOMAIN local[t].request.capabilities :
             Holds(delegations, local[t].request.delegator, local[t].request.capabilities[k],
                   local[t].request.resource_scope)
      BY <2>2, CheckedIsHeld
    <3>2. ~ StaysHuman(local[t].request.delegate)
      BY <2>2, <1>t DEF WidenThread, Delegating
    <3> QED BY <2>2, <3>1, <3>2 DEF WidenThread, KeepsRequest, StoresSame, StaysHuman
  <2> QED BY <1>2, <1>t, <2>1, <2>2, DelegateCheckStep
<1>3. CASE DelegateCreate(t)
  BY <1>3, <1>t, <1>i, DelegateCreateStep
<1>4. CASE CreateRun(t)
  BY <1>4, <1>t, <1>o, CreateRunStep DEF Delegating
<1>5. CASE RunCheck(t)
  <2>1. local'[t] = Idle \/ local'[t].pc \in {"run_put", "run_parent"}
    BY <1>5, <1>t, RunCheckStep
  <2> QED BY <2>1, <1>i, <1>o DEF Delegating
<1>6. CASE RunParent(t)
  <2>1. local'[t] = Idle \/ local'[t].pc = "run_put"
    BY <1>6, <1>t, RunParentStep
  <2> QED BY <2>1, <1>i, <1>o DEF Delegating
<1>7. CASE PutRun(t)
  BY <1>7, <1>t, <1>i, PutRunStep
<1>8. CASE Authenticate(t)
  BY <1>8, <1>t, <1>o, AuthenticateStep DEF Delegating
<1>9. CASE Context(t)
  BY <1>9, <1>t, <1>o, ContextStep DEF Delegating
<1>10. CASE AuthorizeLive(t)
  <2>1. local'[t].pc \in {"mesh", "answer"}
    BY <1>10, <1>t, AuthorizeLiveStep
  <2> QED BY <2>1, <1>o DEF Delegating
<1>11. CASE AuthorizeResource(t)
  BY <1>11, <1>t, <1>o, AuthorizeResourceStep DEF Delegating
<1>12. CASE AuthorizeRun(t)
  <2>1. local'[t].pc \in {"mesh", "audit"}
    BY <1>12, <1>t, AuthorizeRunStep
  <2> QED BY <2>1, <1>o DEF Delegating
<1>13. CASE AuthorizeMesh(t)
  BY <1>13, <1>t, <1>o, AuthorizeMeshStep DEF Delegating
<1>14. CASE Audit(t)
  BY <1>14, <1>t, <1>o, AuditStep DEF Delegating
<1>15. CASE Answer(t)
  BY <1>15, <1>t, <1>i, AnswerStep
<1> QED BY <1>1, <1>2, <1>3, <1>4, <1>5, <1>6, <1>7, <1>8, <1>9, <1>10, <1>11, <1>12, <1>13, <1>14,
           <1>15 DEF Step, Continue

\* Every step keeps delegations within what their delegators hold.
LEMMA WidenNext == NoServiceDelegates /\ WidenInv /\ [Next]_vars => WidenInv'
<1> SUFFICES ASSUME NoServiceDelegates, WidenInv, [Next]_vars PROVE WidenInv'
  OBVIOUS
<1>t. /\ ChainInv /\ ChainInv' /\ TypeInv /\ TypeOK /\ StoreInv
  BY ChainNext DEF WidenInv, ChainInv, BaseInv, TypeInv
<1>g. Grows /\ Later(delegations, delegations')
  BY <1>t, StoresGrow DEF Grows, Later, Known
<1>1. ASSUME NEW p \in Principal, StaysHuman(p) PROVE principals'[p] = InitialPrincipals[p]
  <2>1. principals[p] = InitialPrincipals[p] /\ p \notin AgentIds /\ principals[p].kind = "Human"
    BY <1>1 DEF WidenInv, StaysHuman
  <2>2. PrincipalMoves(p)
    BY <1>t, PrincipalsNext
  <2> QED BY <2>1, <2>2 DEF PrincipalMoves
<1>2. ASSUME NEW u \in Thread PROVE WidenThread(u)'
  <2>1. CASE Step(u)
    BY <2>1, WidenMover
  <2>2. CASE SameThread(u)
    <3>1. WidenThread(u)
      BY DEF WidenInv
    <3>2. local[u].pc = "delegate_create" =>
             \A k \in DOMAIN local[u].request.capabilities :
                Holds(delegations', local[u].request.delegator, local[u].request.capabilities[k],
                      local[u].request.resource_scope)
      BY <3>1, <1>g, HoldsStays DEF WidenThread
    <3> QED BY <2>2, <3>1, <3>2 DEF WidenThread, SameThread, StaysHuman
  <2> QED BY <2>1, <2>2, <1>t, OneMoves
<1>3. ASSUME NEW i \in DelegationId, Known(i)'
      PROVE  /\ ~ StaysHuman(delegations'[i].delegate)
             /\ \A k \in DOMAIN delegations'[i].capabilities :
                   Holds(delegations', delegations'[i].delegator, delegations'[i].capabilities[k],
                         delegations'[i].resource_scope)
  <2>1. CASE Known(i)
    <3>1. SameDelegation(delegations[i], delegations'[i])
      BY <2>1, <1>g DEF Grows
    <3>2. /\ ~ StaysHuman(delegations[i].delegate)
          /\ \A k \in DOMAIN delegations[i].capabilities :
                Holds(delegations, delegations[i].delegator, delegations[i].capabilities[k],
                      delegations[i].resource_scope)
      BY <2>1 DEF WidenInv
    <3>3. \A k \in DOMAIN delegations[i].capabilities :
                Holds(delegations', delegations[i].delegator, delegations[i].capabilities[k],
                      delegations[i].resource_scope)
      BY <3>2, <1>g, HoldsStays
    <3> QED BY <3>1, <3>2, <3>3 DEF SameDelegation
  <2>2. CASE ~ Known(i)
    <3>1. PICK t \in Thread : /\ local[t].pc = "delegate_create" /\ local[t].id = i
                              /\ delegations'[i] = NewDelegation(local[t])
      BY <1>3, <2>2, <1>t, NewlyKnown
    <3>2. /\ ~ StaysHuman(local[t].request.delegate)
          /\ \A k \in DOMAIN local[t].request.capabilities :
                Holds(delegations, local[t].request.delegator, local[t].request.capabilities[k],
                      local[t].request.resource_scope)
      BY <3>1 DEF WidenInv, WidenThread, Delegating
    <3>3. \A k \in DOMAIN local[t].request.capabilities :
                Holds(delegations', local[t].request.delegator, local[t].request.capabilities[k],
                      local[t].request.resource_scope)
      BY <3>2, <1>g, HoldsStays
    <3>4. /\ delegations'[i].delegate = local[t].request.delegate
          /\ delegations'[i].delegator = local[t].request.delegator
          /\ delegations'[i].capabilities = local[t].request.capabilities
          /\ delegations'[i].resource_scope = local[t].request.resource_scope
      BY <3>1 DEF NewDelegation
    <3> QED BY <3>2, <3>3, <3>4
  <2> QED BY <2>1, <2>2
<1> QED BY <1>t, <1>1, <1>2, <1>3 DEF WidenInv, StaysHuman

\* Where whoever delegates is an agent, or a human no CreateAgent can turn into
\* one, a delegation gives nothing its delegator does not hold, by its claims or by
\* a delegation at least as wide (mesh.rs, delegate: "A delegation can never widen
\* authority").  Of services, which no scope is compared for, it is not true.
THEOREM NeverWidensHolds == NoServiceDelegates => (Spec => []NeverWidens)
<1> SUFFICES ASSUME NoServiceDelegates PROVE Spec => []NeverWidens
  OBVIOUS
<1>1. Init => WidenInv
  <2> SUFFICES ASSUME Init PROVE WidenInv
    OBVIOUS
  <2>1. \A t \in Thread : local[t].pc = "idle"
    BY IdleTyped DEF Init
  <2>2. \A i \in DelegationId : ~ Known(i)
    BY DEF Init, Known
  <2>3. principals = InitialPrincipals
    BY DEF Init
  <2> QED BY <2>1, <2>2, <2>3, ChainInit DEF WidenInv, WidenThread, Delegating
<1>2. WidenInv /\ [Next]_vars => WidenInv'
  BY WidenNext
<1>3. WidenInv => NeverWidens
  <2> SUFFICES ASSUME WidenInv, NEW i \in DelegationId, Known(i), NEW c \in Capability,
                      Covers(delegations[i], c)
               PROVE  \/ /\ InitialPrincipals[delegations[i].delegator] # None
                         /\ GrantedByClaims(TenantPolicy, InitialPrincipals[delegations[i].delegator], c)
                      \/ \E e \in delegations_for(delegations[i].delegator) :
                            /\ Covers(e, c)
                            /\ is_subset_of(delegations[i].resource_scope, e.resource_scope)
    BY DEF NeverWidens
  <2>1. Holds(delegations, delegations[i].delegator, c, delegations[i].resource_scope)
    BY DEF WidenInv, Covers
  <2>2. ASSUME NEW j \in DelegationId, delegations[j] # None,
               delegations[j].delegate = delegations[i].delegator
        PROVE  delegations[j] \in delegations_for(delegations[i].delegator)
    BY <2>2 DEF delegations_for
  <2> QED BY <2>1, <2>2 DEF Holds
<1> QED BY <1>1, <1>2, <1>3, PTL DEF Spec

(***************************************************************************)
(* Runs confine                                                            *)
(***************************************************************************)

\* What is within a chain stays within it.
LEMMA WithinStays ==
    ASSUME NEW ds, NEW es, Later(ds, es), NEW scope, NEW chain, Within(ds, scope, chain)
    PROVE  Within(es, scope, chain)
BY DEF Within, Later, SameDelegation

\* What is within a parent run stays within it.
LEMMA UnderParentStays ==
    ASSUME NEW rs, NEW ss, \A i \in RunId : rs[i] # None => SameRun(rs[i], ss[i]),
           NEW parent, NEW capabilities, NEW scope, UnderParent(rs, parent, capabilities, scope)
    PROVE  UnderParent(ss, parent, capabilities, scope)
BY DEF UnderParent, SameRun

\* A request that was let through stays let through: runs are not changed but
\* cancelled, and what matters is what was cancelled when it came in.
LEMMA AdmittedStays ==
    ASSUME Grows, NEW u \in Thread, Admitted(u),
           local'[u].request = local[u].request,
           local'[u].begun.clock = local[u].begun.clock,
           local'[u].begun.cancelled = local[u].begun.cancelled
    PROVE  Admitted(u)'
<1> DEFINE i == local[u].request.run
<1>1. i \in RunId /\ runs[i] # None
  BY DEF Admitted, KnownRun
<1>2. SameRun(runs[i], runs'[i])
  BY <1>1 DEF Grows, KnownRun
<1>3. /\ runs'[i] # None /\ runs'[i].agent = runs[i].agent
      /\ runs'[i].expires_at = runs[i].expires_at
      /\ runs'[i].capabilities = runs[i].capabilities
      /\ runs'[i].resource_scope = runs[i].resource_scope
  BY <1>2 DEF SameRun
<1> QED BY <1>1, <1>3 DEF Admitted, KnownRun

\* The thread that moves.
LEMMA RunMover ==
    ASSUME RunInv, Grows, NEW t \in Thread, Step(t)
    PROVE  RunThread(t)'
<1>t. /\ BaseInv /\ TypeInv /\ TypeOK /\ StoreInv /\ Fits(t) /\ RunThread(t) /\ BegunInv(t)
      /\ clock \in Nat /\ local[t] \in Local
  BY DEF RunInv, ChainInv, BaseInv, TypeInv, TypeOK
<1>o. ASSUME local'[t].pc \notin {"run_parent", "run_put", "mesh", "audit", "answer"}
      PROVE  RunThread(t)'
  BY <1>o DEF RunThread, Allows
<1>i. ASSUME local'[t] = Idle PROVE RunThread(t)'
  BY <1>i, <1>o, IdleTyped
\* A request that has been let through goes on.
<1>k. ASSUME KeepsRequest(t), local'[t].pc \in {"mesh", "audit", "answer"},
             local'[t].pc = "mesh" \/ local'[t].decision.allow =>
                (local[t].request.run # 0 /\ local[t].request.resource # None => Admitted(t))
      PROVE  RunThread(t)'
  <2>1. Admitted(t) => Admitted(t)'
    BY <1>k, AdmittedStays DEF KeepsRequest
  <2> QED BY <1>k, <2>1 DEF RunThread, Allows, KeepsRequest
<1>1. CASE Delegate(t)
  BY <1>1, <1>t, <1>o, DelegateStep
<1>2. CASE DelegateCheck(t)
  <2>1. local'[t] = Idle \/ local'[t].pc = "delegate_create"
    BY <1>2, <1>t, DelegateCheckStep
  <2> QED BY <2>1, <1>i, <1>o
<1>3. CASE DelegateCreate(t)
  BY <1>3, <1>t, <1>i, DelegateCreateStep
<1>4. CASE CreateRun(t)
  BY <1>4, <1>t, <1>o, CreateRunStep
<1>5. CASE RunCheck(t)
  <2> DEFINE q == local[t].request
             d == delegations[q.delegation]
  <2>1. CASE local'[t] = Idle
    BY <2>1, <1>i
  <2>2. ASSUME KeepsRequest(t), StoresSame,
               local'[t].pc = IF q.parent = 0 THEN "run_put" ELSE "run_parent",
               Known(q.delegation), d \in Delegation, RunFits(q, d, local[t].now),
               local'[t].chain = Append(d.chain, d.id)
        PROVE  RunThread(t)'
    <3>1. q.delegation \in DelegationId /\ d # None /\ d.id = q.delegation
      BY <2>2, <1>t DEF Known, StoreInv
    <3>2. Linked(delegations, d.chain, d.delegator, d.resource_scope)
      BY <2>2, <3>1 DEF RunInv, ChainInv
    <3>3. is_subset_of(q.resource_scope, d.resource_scope) /\ DelegationId \subseteq Nat \ {0}
      BY <2>2, AgentAuthorityAssumption DEF RunFits
    <3>4. Within(delegations, q.resource_scope, Append(d.chain, q.delegation))
      BY <2>2, <3>1, <3>2, <3>3, LinkedOn
    <3>5. Within(delegations', local'[t].request.resource_scope, local'[t].chain)
      BY <2>2, <3>1, <3>4 DEF KeepsRequest, StoresSame
    <3>6. local'[t].pc = "run_put" => local'[t].request.parent = 0
      BY <2>2 DEF KeepsRequest
    <3>7. local'[t].pc \in {"run_put", "run_parent"}
      BY <2>2
    <3> QED BY <3>5, <3>6, <3>7 DEF RunThread, UnderParent, Allows
  <2> QED BY <1>5, <1>t, <2>1, <2>2, RunCheckStep
<1>6. CASE RunParent(t)
  <2> DEFINE q == local[t].request
  <2>1. CASE local'[t] = Idle
    BY <2>1, <1>i
  <2>2. ASSUME KeepsRequest(t), StoresSame, local[t].pc = "run_parent", local'[t].pc = "run_put",
               local'[t].chain = local[t].chain,
               checked_run(q.parent, local[t].now), ChildFits(q, runs[q.parent])
        PROVE  RunThread(t)'
    <3>1. Within(delegations, q.resource_scope, local[t].chain)
      BY <2>2, <1>t DEF RunThread
    <3>2. UnderParent(runs, q.parent, q.capabilities, q.resource_scope)
      BY <2>2 DEF checked_run, ChildFits, UnderParent
    <3> QED BY <2>2, <3>1, <3>2 DEF RunThread, KeepsRequest, StoresSame, Allows
  <2> QED BY <1>6, <1>t, <2>1, <2>2, RunParentStep
<1>7. CASE PutRun(t)
  BY <1>7, <1>t, <1>i, PutRunStep
<1>8. CASE Authenticate(t)
  BY <1>8, <1>t, <1>o, AuthenticateStep
<1>9. CASE Context(t)
  BY <1>9, <1>t, <1>o, ContextStep
<1>10. CASE AuthorizeLive(t)
  <2>1. /\ KeepsRequest(t) /\ local[t].request.resource = None
        /\ local'[t].pc \in {"mesh", "answer"}
    BY <1>10, <1>t, AuthorizeLiveStep
  <2> QED BY <2>1, <1>k
<1>11. CASE AuthorizeResource(t)
  <2>1. KeepsRequest(t) /\ local[t].request.run = 0 /\ local'[t].pc = "mesh"
    BY <1>11, <1>t, AuthorizeResourceStep
  <2> QED BY <2>1, <1>k
<1>12. CASE AuthorizeRun(t)
  <2> DEFINE q == local[t].request
  <2>1. /\ KeepsRequest(t) /\ local[t].pc = "authorize"
        /\ \/ local'[t].pc = "mesh" /\ RunAdmits(local[t], q.run, clock)
           \/ local'[t].pc = "audit" /\ local'[t].decision = Denied
    BY <1>12, <1>t, AuthorizeRunStep
  <2>2. CASE local'[t].pc = "audit" /\ local'[t].decision = Denied
    <3>1. ~ local'[t].decision.allow
      BY <2>2 DEF Denied
    <3> QED BY <2>1, <2>2, <3>1, <1>k
  <2>3. CASE local'[t].pc = "mesh" /\ RunAdmits(local[t], q.run, clock)
    <3>1. /\ local[t].principal.id = q.principal /\ local[t].begun.clock <= clock
          /\ \A i \in local[t].begun.cancelled : runs[i].status = "Cancelled"
      BY <2>1, <1>t DEF BegunInv, Enforcing
    <3>2. /\ q.run \in RunId /\ runs[q.run] # None /\ runs[q.run].status = "Active"
          /\ clock < runs[q.run].expires_at /\ runs[q.run].agent = q.principal
          /\ q.capability \in runs[q.run].capabilities
          /\ resource_scope_matches(runs[q.run].resource_scope, q.resource)
      BY <2>3, <3>1 DEF RunAdmits, checked_run
    <3>3. q.run \notin local[t].begun.cancelled
      BY <3>1, <3>2
    <3>4. runs[q.run] \in Run /\ local[t].begun \in Begun
      BY <3>2, <1>t, LocalFields DEF TypeOK
    <3>5. runs[q.run].expires_at \in Nat /\ local[t].begun.clock \in Nat
      BY <3>4 DEF Run, Begun
    <3>6. local[t].begun.clock < runs[q.run].expires_at
      BY <3>1, <3>2, <3>5, <1>t
    <3>7. Admitted(t)
      BY <3>2, <3>3, <3>6 DEF Admitted, KnownRun
    <3> QED BY <2>1, <2>3, <3>7, <1>k
  <2> QED BY <2>1, <2>2, <2>3
<1>13. CASE AuthorizeMesh(t)
  <2>1. KeepsRequest(t) /\ local[t].pc = "mesh" /\ local'[t].pc = "audit"
    BY <1>13, <1>t, AuthorizeMeshStep
  <2>2. local[t].request.run # 0 /\ local[t].request.resource # None => Admitted(t)
    BY <2>1, <1>t DEF RunThread
  <2> QED BY <2>1, <2>2, <1>k
<1>14. CASE Audit(t)
  <2>1. /\ KeepsRequest(t) /\ local[t].pc = "audit" /\ local'[t].pc = "answer"
        /\ local'[t].decision \in {local[t].decision, Denied}
    BY <1>14, <1>t, AuditStep
  <2>2. local'[t].decision.allow => local[t].decision.allow
    BY <2>1 DEF Denied
  <2>3. local'[t].decision.allow =>
           (local[t].request.run # 0 /\ local[t].request.resource # None => Admitted(t))
    BY <2>1, <2>2, <1>t DEF RunThread, Allows
  <2> QED BY <2>1, <2>3, <1>k
<1>15. CASE Answer(t)
  BY <1>15, <1>t, <1>i, AnswerStep
<1> QED BY <1>1, <1>2, <1>3, <1>4, <1>5, <1>6, <1>7, <1>8, <1>9, <1>10, <1>11, <1>12, <1>13, <1>14,
           <1>15 DEF Step, Continue

\* Every step keeps runs within the delegations and the run they come from.
LEMMA RunNext == RunInv /\ [Next]_vars => RunInv'
<1> SUFFICES ASSUME RunInv, [Next]_vars PROVE RunInv'
  OBVIOUS
<1>t. /\ ChainInv /\ ChainInv' /\ TypeInv /\ TypeOK /\ StoreInv
  BY ChainNext DEF RunInv, ChainInv, BaseInv, TypeInv
<1>g. /\ Grows /\ Later(delegations, delegations')
      /\ \A i \in RunId : runs[i] # None => SameRun(runs[i], runs'[i])
  BY <1>t, StoresGrow DEF Grows, Later, Known, KnownRun
<1>1. ASSUME NEW u \in Thread PROVE RunThread(u)'
  <2>1. CASE Step(u)
    BY <2>1, <1>g, RunMover
  <2>2. CASE SameThread(u)
    <3>1. RunThread(u)
      BY DEF RunInv
    <3>2. local[u].pc \in {"run_parent", "run_put"} =>
             Within(delegations', local[u].request.resource_scope, local[u].chain)
      BY <3>1, <1>g, WithinStays DEF RunThread
    <3>3. local[u].pc = "run_put" =>
             UnderParent(runs', local[u].request.parent, local[u].request.capabilities,
                         local[u].request.resource_scope)
      BY <3>1, <1>g, UnderParentStays DEF RunThread
    <3>4. Admitted(u) => Admitted(u)'
      BY <2>2, <1>g, AdmittedStays DEF SameThread
    <3>5. Allows(u)' <=> Allows(u)
      BY <2>2 DEF Allows, SameThread
    <3> QED BY <2>2, <3>1, <3>2, <3>3, <3>4, <3>5 DEF RunThread, SameThread
  <2> QED BY <2>1, <2>2, <1>t, OneMoves
<1>2. ASSUME NEW i \in RunId, KnownRun(i)'
      PROVE  /\ Within(delegations', runs'[i].resource_scope, runs'[i].chain)
             /\ UnderParent(runs', runs'[i].parent, runs'[i].capabilities, runs'[i].resource_scope)
  <2>1. CASE KnownRun(i)
    <3>1. SameRun(runs[i], runs'[i])
      BY <2>1, <1>g DEF KnownRun
    <3>2. /\ Within(delegations, runs[i].resource_scope, runs[i].chain)
          /\ UnderParent(runs, runs[i].parent, runs[i].capabilities, runs[i].resource_scope)
      BY <2>1 DEF RunInv
    <3>3. /\ Within(delegations', runs[i].resource_scope, runs[i].chain)
          /\ UnderParent(runs', runs[i].parent, runs[i].capabilities, runs[i].resource_scope)
      BY <3>2, <1>g, WithinStays, UnderParentStays
    <3> QED BY <3>1, <3>3 DEF SameRun
  <2>2. CASE ~ KnownRun(i)
    <3>1. PICK t \in Thread : /\ local[t].pc = "run_put" /\ local[t].id = i
                              /\ runs'[i] = NewRun(local[t])
      BY <1>2, <2>2, <1>t, NewlyRun
    <3> DEFINE q == local[t].request
    <3>2. /\ Within(delegations, q.resource_scope, local[t].chain)
          /\ UnderParent(runs, q.parent, q.capabilities, q.resource_scope)
      BY <3>1 DEF RunInv, RunThread
    <3>3. /\ Within(delegations', q.resource_scope, local[t].chain)
          /\ UnderParent(runs', q.parent, q.capabilities, q.resource_scope)
      BY <3>2, <1>g, WithinStays, UnderParentStays
    <3>4. /\ runs'[i].resource_scope = q.resource_scope /\ runs'[i].chain = local[t].chain
          /\ runs'[i].parent = q.parent /\ runs'[i].capabilities = q.capabilities
      BY <3>1 DEF NewRun
    <3> QED BY <3>3, <3>4
  <2> QED BY <2>1, <2>2
<1> QED BY <1>t, <1>1, <1>2 DEF RunInv

\* A request for a resource that a run lets through is the run's own agent's, came
\* in before the run was cancelled or had ended, and is within the run, its parent
\* and every delegation behind it, however far down the chain (mesh.rs,
\* checked_run_for_request).
THEOREM RunConfinesHolds == Spec => []RunConfines
<1>1. Init => RunInv
  <2> SUFFICES ASSUME Init PROVE RunInv
    OBVIOUS
  <2>1. \A t \in Thread : local[t].pc = "idle"
    BY IdleTyped DEF Init
  <2>2. \A i \in RunId : ~ KnownRun(i)
    BY DEF Init, KnownRun
  <2> QED BY <2>1, <2>2, ChainInit DEF RunInv, RunThread, Allows
<1>2. RunInv => RunConfines
  <2> SUFFICES ASSUME RunInv, NEW t \in Thread, Allows(t), local[t].request.run # 0,
                      local[t].request.resource # None
               PROVE  LET q == local[t].request
                          run == runs[q.run]
                      IN  /\ run.agent = q.principal
                          /\ q.run \notin local[t].begun.cancelled
                          /\ local[t].begun.clock < run.expires_at
                          /\ resource_scope_matches(run.resource_scope, q.resource)
                          /\ \A k \in DOMAIN run.chain :
                              resource_scope_matches(delegations[run.chain[k]].resource_scope, q.resource)
                          /\ run.parent # 0 =>
                              /\ q.capability \in runs[run.parent].capabilities
                              /\ resource_scope_matches(runs[run.parent].resource_scope, q.resource)
    BY DEF RunConfines
  <2> DEFINE q == local[t].request
             run == runs[q.run]
  <2>1. Admitted(t) /\ TypeOK
    BY DEF RunInv, RunThread, ChainInv, BaseInv, TypeInv
  <2>2. /\ KnownRun(q.run) /\ run.agent = q.principal
        /\ q.run \notin local[t].begun.cancelled /\ local[t].begun.clock < run.expires_at
        /\ q.capability \in run.capabilities
        /\ resource_scope_matches(run.resource_scope, q.resource)
    BY <2>1 DEF Admitted
  <2>3. /\ Within(delegations, run.resource_scope, run.chain)
        /\ UnderParent(runs, run.parent, run.capabilities, run.resource_scope)
    BY <2>2 DEF RunInv, KnownRun
  <2>4. run \in Run
    BY <2>1, <2>2 DEF KnownRun, TypeOK
  <2>5. run.resource_scope \in ResourceScope
    BY <2>4 DEF Run
  <2> HIDE DEF run, q
  <2>6. ASSUME NEW k \in DOMAIN run.chain
        PROVE  resource_scope_matches(delegations[run.chain[k]].resource_scope, q.resource)
    <3> DEFINE d == delegations[run.chain[k]]
    <3>1. /\ run.chain[k] \in DelegationId /\ d # None
          /\ is_subset_of(run.resource_scope, d.resource_scope)
      BY <2>3 DEF Within
    <3>2. d \in Delegation
      BY <3>1, <2>1 DEF TypeOK
    <3>3. d.resource_scope \in ResourceScope
      BY <3>2 DEF Delegation
    <3> HIDE DEF d
    <3>4. resource_scope_matches(d.resource_scope, q.resource)
      BY <3>1, <3>3, <2>2, <2>5, MatchesWider
    <3> QED BY <3>4 DEF d
  <2>7. ASSUME run.parent # 0
        PROVE  /\ q.capability \in runs[run.parent].capabilities
               /\ resource_scope_matches(runs[run.parent].resource_scope, q.resource)
    <3> DEFINE e == runs[run.parent]
    <3>1. /\ run.parent \in RunId /\ e # None
          /\ run.capabilities \subseteq e.capabilities
          /\ is_subset_of(run.resource_scope, e.resource_scope)
      BY <2>3, <2>7 DEF UnderParent
    <3>2. e \in Run
      BY <3>1, <2>1 DEF TypeOK
    <3>3. e.resource_scope \in ResourceScope
      BY <3>2 DEF Run
    <3> HIDE DEF e
    <3>4. resource_scope_matches(e.resource_scope, q.resource)
      BY <3>1, <3>3, <2>2, <2>5, MatchesWider
    <3> QED BY <3>1, <3>4, <2>2 DEF e
  <2> QED BY <2>2, <2>6, <2>7 DEF run, q
<1> QED BY <1>1, <1>2, RunNext, PTL DEF Spec

(***************************************************************************)
(* Live policies govern                                                    *)
(***************************************************************************)

LivesInv == BaseInv /\ \A t \in Thread : LiveThread(t)

\* A request never misses a change of its capability's live policy.
LEMMA LiveStays ==
    ASSUME LivesInv, NEW u \in Thread,
           \/ local'[u] = local[u] /\ live' = live
           \/ SetLivePolicy
    PROVE  LiveThread(u)'
<1>t. LiveThread(u) /\ local[u] \in Local /\ live \in [Capability -> LivePolicies \cup {None}] /\ Fits(u)
  BY DEF LivesInv, BaseInv, TypeInv, TypeOK
<1>1. CASE local'[u] = local[u] /\ live' = live
  BY <1>1, <1>t DEF LiveThread, Allows
<1>2. CASE SetLivePolicy
  <2>1. PICK c \in Capability, policy \in LivePolicies \cup {None} :
          /\ live' = [live EXCEPT ![c] = policy]
          /\ local' = [t \in Thread |-> Sees(local[t], c, policy)]
    BY <1>2 DEF SetLivePolicy
  <2>2. Notes(local[u], local'[u], c, policy)
    BY <2>1, <1>t, SeesFields
  <2>3. /\ local'[u].pc = local[u].pc /\ local'[u].request = local[u].request
        /\ local'[u].principal = local[u].principal /\ local'[u].decision = local[u].decision
        /\ local[u].begun.live \subseteq local'[u].begun.live
    BY <2>2 DEF Notes
  <2>4. ASSUME local[u].pc \in {"context", "authorize", "mesh"}
        PROVE  live'[local[u].request.capability] \in local'[u].begun.live
    <3>1. live[local[u].request.capability] \in local[u].begun.live
      BY <2>4, <1>t DEF LiveThread
    <3>2. CASE local[u].request.capability = c
      <4>1. live'[c] = policy /\ policy \in local'[u].begun.live
        BY <2>1, <2>2, <2>4, <3>2, <1>t DEF Notes
      <4> QED BY <4>1, <3>2
    <3>3. CASE local[u].request.capability # c
      <4>1. local[u].request \in AccessRequest
        BY <2>4, <1>t, AskedTyped DEF Fits, Enforcing
      <4>2. local[u].request.capability \in Capability
        BY <4>1 DEF AccessRequest
      <4>3. live'[local[u].request.capability] = live[local[u].request.capability]
        BY <2>1, <3>3, <4>2, <1>t
      <4> QED BY <4>3, <3>1, <2>3
    <3> QED BY <3>2, <3>3
  <2>5. Allows(u)' <=> Allows(u)
    BY <2>3 DEF Allows
  <2>6. ASSUME Allows(u), local[u].request.resource = None, None \notin local'[u].begun.live,
               local[u].decision.delegation = 0
        PROVE  \E p \in local'[u].begun.live :
                  GrantedByClaims(p.rules, local[u].principal, local[u].request.capability)
    <3>1. \E p \in local[u].begun.live :
                  GrantedByClaims(p.rules, local[u].principal, local[u].request.capability)
      BY <2>3, <2>6, <1>t DEF LiveThread
    <3> QED BY <3>1, <2>3
  <2>7. local[u].pc = "mesh" /\ local[u].request.resource = None => None \in local'[u].begun.live
    BY <2>3, <1>t DEF LiveThread
  <2> QED BY <2>3, <2>4, <2>5, <2>6, <2>7 DEF LiveThread
<1> QED BY <1>1, <1>2

\* The thread that moves.
LEMMA LiveMover ==
    ASSUME LivesInv, NEW t \in Thread, Step(t)
    PROVE  LiveThread(t)'
<1>t. TypeInv /\ TypeOK /\ LiveThread(t)
  BY DEF LivesInv, BaseInv, TypeInv
<1>o. ASSUME local'[t].pc \notin Enforcing PROVE LiveThread(t)'
  BY <1>o DEF LiveThread, Allows, Enforcing
<1>i. ASSUME local'[t] = Idle PROVE LiveThread(t)'
  BY <1>i, <1>o, IdleTyped DEF Enforcing
<1>1. CASE Delegate(t)
  BY <1>1, <1>t, <1>o, DelegateStep DEF Enforcing
<1>2. CASE DelegateCheck(t)
  <2>1. local'[t] = Idle \/ local'[t].pc = "delegate_create"
    BY <1>2, <1>t, DelegateCheckStep
  <2> QED BY <2>1, <1>i, <1>o DEF Enforcing
<1>3. CASE DelegateCreate(t)
  BY <1>3, <1>t, <1>i, DelegateCreateStep
<1>4. CASE CreateRun(t)
  BY <1>4, <1>t, <1>o, CreateRunStep DEF Enforcing
<1>5. CASE RunCheck(t)
  <2>1. local'[t] = Idle \/ local'[t].pc \in {"run_put", "run_parent"}
    BY <1>5, <1>t, RunCheckStep
  <2> QED BY <2>1, <1>i, <1>o DEF Enforcing
<1>6. CASE RunParent(t)
  <2>1. local'[t] = Idle \/ local'[t].pc = "run_put"
    BY <1>6, <1>t, RunParentStep
  <2> QED BY <2>1, <1>i, <1>o DEF Enforcing
<1>7. CASE PutRun(t)
  BY <1>7, <1>t, <1>i, PutRunStep
<1>8. CASE Authenticate(t)
  <2>1. /\ local'[t].pc = "context" /\ local'[t].begun = Now(local'[t].request.capability) /\ StoresSame
    BY <1>8, <1>t, AuthenticateStep
  <2>2. live'[local'[t].request.capability] \in local'[t].begun.live
    BY <2>1 DEF Now, StoresSame
  <2> QED BY <2>1, <2>2 DEF LiveThread, Allows
<1>9. CASE Context(t)
  <2>1. KeepsRequest(t) /\ StoresSame /\ local[t].pc = "context" /\ local'[t].pc = "authorize"
    BY <1>9, <1>t, ContextStep
  <2> QED BY <2>1, <1>t DEF LiveThread, Allows, KeepsRequest, StoresSame
<1>10. CASE AuthorizeLive(t)
  <2> DEFINE c == local[t].request.capability
  <2>1. /\ KeepsRequest(t) /\ StoresSame /\ local[t].pc = "authorize"
        /\ \/ local'[t].pc = "mesh" /\ live[c] = None
           \/ /\ local'[t].pc = "answer"
              /\ local'[t].decision.allow /\ local'[t].decision.delegation = 0 =>
                    GrantedByClaims(live[c].rules, local[t].principal, c)
    BY <1>10, <1>t, AuthorizeLiveStep
  <2>2. live[c] \in local[t].begun.live
    BY <2>1, <1>t DEF LiveThread
  <2>3. CASE local'[t].pc = "mesh" /\ live[c] = None
    BY <2>1, <2>2, <2>3 DEF LiveThread, Allows, KeepsRequest, StoresSame
  <2>4. CASE /\ local'[t].pc = "answer"
             /\ local'[t].decision.allow /\ local'[t].decision.delegation = 0 =>
                    GrantedByClaims(live[c].rules, local[t].principal, c)
    BY <2>1, <2>2, <2>4 DEF LiveThread, Allows, KeepsRequest, StoresSame
  <2> QED BY <2>1, <2>3, <2>4
<1>11. CASE AuthorizeResource(t)
  <2>1. /\ KeepsRequest(t) /\ StoresSame /\ local[t].pc = "authorize" /\ local'[t].pc = "mesh"
        /\ local[t].request.resource # None
    BY <1>11, <1>t, AuthorizeResourceStep
  <2> QED BY <2>1, <1>t DEF LiveThread, Allows, KeepsRequest, StoresSame
<1>12. CASE AuthorizeRun(t)
  <2>1. /\ KeepsRequest(t) /\ StoresSame /\ local[t].pc = "authorize"
        /\ local'[t].pc \in {"mesh", "audit"} /\ local[t].request.resource # None
    BY <1>12, <1>t, AuthorizeRunStep
  <2> QED BY <2>1, <1>t DEF LiveThread, Allows, KeepsRequest, StoresSame
<1>13. CASE AuthorizeMesh(t)
  <2>1. KeepsRequest(t) /\ StoresSame /\ local[t].pc = "mesh" /\ local'[t].pc = "audit"
    BY <1>13, <1>t, AuthorizeMeshStep
  <2> QED BY <2>1, <1>t DEF LiveThread, Allows, KeepsRequest, StoresSame
<1>14. CASE Audit(t)
  <2>1. /\ KeepsRequest(t) /\ StoresSame /\ local[t].pc = "audit" /\ local'[t].pc = "answer"
        /\ local'[t].decision \in {local[t].decision, Denied}
    BY <1>14, <1>t, AuditStep
  <2>2. CASE local'[t].decision = Denied
    BY <2>1, <2>2 DEF LiveThread, Allows, Denied
  <2>3. CASE local'[t].decision = local[t].decision
    BY <2>1, <2>3, <1>t DEF LiveThread, Allows, KeepsRequest
  <2> QED BY <2>1, <2>2, <2>3
<1>15. CASE Answer(t)
  BY <1>15, <1>t, <1>i, AnswerStep
<1> QED BY <1>1, <1>2, <1>3, <1>4, <1>5, <1>6, <1>7, <1>8, <1>9, <1>10, <1>11, <1>12, <1>13, <1>14,
           <1>15 DEF Step, Continue

\* Every step keeps requests aware of their live policies.
LEMMA LivesNext == LivesInv /\ [Next]_vars => LivesInv'
<1> SUFFICES ASSUME LivesInv, [Next]_vars PROVE LivesInv'
  OBVIOUS
<1>t. BaseInv' /\ TypeInv /\ TypeOK
  BY BaseNext DEF LivesInv, BaseInv, TypeInv
<1>1. ASSUME NEW t \in Thread, Step(t), NEW u \in Thread, u # t PROVE LiveThread(u)'
  <2>1. Keeps(t) /\ live' = live
    BY <1>1, <1>t, DelegateStep, DelegateCheckStep, DelegateCreateStep, CreateRunStep,
        RunCheckStep, RunParentStep, PutRunStep, AuthenticateStep, ContextStep, AuthorizeLiveStep,
        AuthorizeResourceStep, AuthorizeRunStep, AuthorizeMeshStep, AuditStep, AnswerStep
        DEF Step, Continue, StoresSame
  <2> QED BY <1>1, <2>1, LiveStays DEF Keeps
<1>2. ASSUME Admin \/ Tick \/ UNCHANGED vars, NEW u \in Thread PROVE LiveThread(u)'
  <2>1. SetLivePolicy \/ (local' = local /\ live' = live)
    BY <1>2 DEF Admin, Tick, vars, RevokeDelegation, CancelRun, SetAgentState, CreateAgent
  <2> QED BY <2>1, LiveStays
<1>3. \A u \in Thread : LiveThread(u)'
  BY <1>1, <1>2, LiveMover DEF Next
<1> QED BY <1>t, <1>3 DEF LivesInv

\* A request without a resource, for a capability that has had a live policy all
\* the while, is allowed without a delegation only by the claims that one of those
\* policies grants it for, however changes and reverts of the policy interleave
\* with the request (boundary/src/runtime.rs, authorize).
THEOREM LivePolicyGovernsHolds == Spec => []LivePolicyGoverns
<1>1. Init => LivesInv
  <2> SUFFICES ASSUME Init PROVE LivesInv
    OBVIOUS
  <2>1. \A t \in Thread : local[t].pc = "idle"
    BY IdleTyped DEF Init
  <2> QED BY <2>1, BaseInit DEF LivesInv, LiveThread, Allows
<1>2. LivesInv => LivePolicyGoverns
  BY DEF LivesInv, LiveThread, LivePolicyGoverns
<1> QED BY <1>1, <1>2, LivesNext, PTL DEF Spec
=============================================================================
