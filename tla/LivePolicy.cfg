SPECIFICATION Spec
CONSTANTS
    t1 = t1  t2 = t2  alice = alice  robot = robot  helper = helper  fresh = fresh  svc = svc
    admin = admin  c1 = c1  c2 = c2  doc = doc  r1 = r1  r2 = r2
    owner = owner  tenant = tenant  ours = ours  theirs = theirs
    Thread = {t1}
    Principal = {alice, robot, fresh}
    Capability = {c1, c2}
    Role = {admin}
    ResourceType = {doc}
    ResourceId = {r1, r2}
    AnyId = AnyId
    Attribute = {}
    AttributeValue = {}
    None = None
    InitialPrincipals <- Everybody
    TenantPolicy <- AdminPolicy
    LivePolicies <- AnyLivePolicy
    DelegationId = {1}
    RunId = {}
    DelegationRequests <- LiveDelegations
    RunRequests = {}
    AccessRequests <- LiveAccess
    AgentIds = {fresh}
    AgentStates = {"Revoked"}
    ForeignScope = {}
    AuditCanFail = TRUE
    MaxTime = 2
INVARIANTS LivePolicyGoverns
