--------------------------- MODULE MCAgentAuthority ---------------------------
(* Small instances of the agent authority for TLC. *)
EXTENDS AgentAuthority, TLC

CONSTANTS t1, t2, alice, robot, helper, fresh, svc, admin, c1, c2, doc, r1, r2,
    owner, tenant, ours, theirs

\* Scopes: everything, all documents, one document.
NoAttributes == [k \in Attribute |-> None]
Documents == [resource_type |-> doc, resource_id |-> None, attributes |-> NoAttributes]
Document1 == [resource_type |-> doc, resource_id |-> r1, attributes |-> NoAttributes]
With(scope, k, v) == [scope EXCEPT !.attributes = [a \in Attribute |-> IF a = k THEN v ELSE @[a]]]
OurDocuments == With(Documents, owner, ours)
TheirDocuments == With(Documents, tenant, theirs)
OtherTenant == {TheirDocuments}

\* Resources: both of our tenant, and the first owned by us.
R2 == With([resource_type |-> doc, resource_id |-> r2, attributes |-> NoAttributes], tenant, ours)
R1 == With([R2 EXCEPT !.resource_id = r1], owner, ours)

\* Alice, an administrator, two agents, a service and an id not in use.
Agent(p) == [id |-> p, kind |-> "Agent", state |-> "Active", claims |-> {}]
Everybody ==
    [p \in Principal |->
        CASE p = alice -> [id |-> p, kind |-> "Human", state |-> None, claims |-> {admin}]
          [] p = svc -> [id |-> p, kind |-> "Service", state |-> None, claims |-> {}]
          [] p = fresh -> None
          [] OTHER -> Agent(p)]

AdminMay(c) ==
    [capability |-> c, role |-> admin, needs |-> None, target |-> None, effect |-> "Allow"]
AdminPolicy == <<AdminMay(c1), AdminMay(c2)>>
NobodyPolicy == [own_id |-> TRUE, rules |-> <<>>]
EverybodyPolicy == [own_id |-> TRUE, rules |-> <<[AdminMay(c1) EXCEPT !.role = None]>>]
ForeignPolicy == [own_id |-> FALSE, rules |-> AdminPolicy]
AnyLivePolicy == {NobodyPolicy, EverybodyPolicy, ForeignPolicy}

Gives(p, q, caps, scope, expires) ==
    [delegator |-> p, delegate |-> q, capabilities |-> caps, resource_scope |-> scope,
     delay |-> 0, expires_at |-> expires]
RunOf(p, d, parent, scope, expires) ==
    [agent |-> p, delegation |-> d, parent |-> parent, capabilities |-> {c1},
     resource_scope |-> scope, expires_at |-> expires]
Asks(p, resource, run) ==
    [principal |-> p, capability |-> c1, resource |-> resource, run |-> run]

ChainRequests ==
    {Gives(alice, robot, <<c1, c2>>, Documents, 1), Gives(alice, robot, <<c1>>, Document1, None),
     Gives(robot, helper, <<c1>>, Document1, None), Gives(robot, helper, <<c2>>, any, None)}
ChainAccess == {Asks(helper, R1, 0), Asks(robot, None, 0)}

RunDelegations ==
    {Gives(alice, robot, <<c1>>, Documents, 2), Gives(robot, helper, <<c1>>, Document1, None),
     Gives(alice, helper, <<c1>>, any, None), Gives(alice, helper, <<c1, c2>>, Document1, None)}
RunCreations ==
    {RunOf(robot, 1, 0, Documents, 2), RunOf(robot, 1, 0, OurDocuments, 1),
     RunOf(robot, 1, 0, TheirDocuments, 2),
     RunOf(helper, 2, 1, Document1, 2), RunOf(helper, 2, 0, Documents, 1),
     [RunOf(helper, 2, 1, Document1, 1) EXCEPT !.capabilities = {c1, c2}]}
RunAccess ==
    {Asks(robot, R2, 1), Asks(helper, R2, 2), Asks(robot, R1, 2),
     [Asks(helper, R1, 2) EXCEPT !.capability = c2]}

LiveDelegations ==
    {Gives(alice, robot, <<c1>>, any, 2),
     [Gives(alice, robot, <<c2, c1>>, any, None) EXCEPT !.delay = 1]}
LiveAccess == {Asks(p, None, 0) : p \in Principal \ {fresh}}

Threads == Permutations(Thread)
=============================================================================
