SPECIFICATION Spec
CONSTANTS
    s1 = s1  c1 = c1  u1 = u1  u2 = u2  admin = admin  bob = bob
    StudioThread = {s1}
    ClientThread = {c1}
    Upstream = {u1, u2}
    NoUpstream = NoUpstream
    NoProxy = NoProxy
    Path = {"/", "/a", "/b", "/src/m"}
    PublicEntry = {"/"}
    PublicPrefix = {"/src/m"}
    Offered <- OneMethodEach
    Asked <- AskAll
    User = {admin, bob}
    Seed <- InitRows
    MaxOps = 3
    MaxRestarts = 1
INVARIANTS SavedAccessGoverns ProxyFollowsFile ForwardsOnlyEntitled CreatedUsersStay
