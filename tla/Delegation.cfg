SPECIFICATION Spec
CONSTANTS
    t1 = t1  t2 = t2  alice = alice  robot = robot  helper = helper  fresh = fresh  svc = svc
    admin = admin  c1 = c1  c2 = c2  doc = doc  r1 = r1  r2 = r2
    owner = owner  tenant = tenant  ours = ours  theirs = theirs
    Thread = {t1, t2}
    Principal = {alice, robot, helper}
    Capability = {c1, c2}
    Role = {admin}
    ResourceType = {doc}
    ResourceId = {r1, r2}
    AnyId = AnyId
    Attribute = {}
    AttributeValue = {}
    None = None
    InitialPrincipals <- Everybody
    TenantPolicy <- AdminPolicy
    LivePolicies = {}
    DelegationId = {1, 2}
    RunId = {}
    DelegationRequests <- ChainRequests
    RunRequests = {}
    AccessRequests <- ChainAccess
    AgentIds = {}
    AgentStates = {}
    ForeignScope = {}
    AuditCanFail = TRUE
    MaxTime = 1
SYMMETRY Threads
INVARIANTS LapsedIsDenied NeverWidens ChainNarrows
