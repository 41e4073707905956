SPECIFICATION Spec
CONSTANTS
    t1 = t1  t2 = t2  alice = alice  bob = bob  a = a  b = b  c = c
    Thread = {t1, t2}
    NoThread = NoThread
    None = None
    User = {alice}
    Password = {a, b, c}
    EmailVerification = TRUE
    ContractPolicy <- Declared
    LivePasswords <- Changing
    SignUps <- StudioOnly
    SignIns = {}
    Links = {}
    PasswordChanges <- AliceChanges
    NewPasswords = {a, c}
    MailCanFail = TRUE
    AuditCanFail = FALSE
    ResetLife = 1
    VerifyLife = 2
    SessionLife = 2
    StartTime = 1
    MaxSessions = 1
    MaxChallenges = 2
    MaxTime = 3
SYMMETRY Threads
INVARIANTS ChallengeWorksOnce PasswordNotReused
PROPERTIES ChallengeKeepsToPurpose
