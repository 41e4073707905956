SPECIFICATION Spec
CONSTANTS
    t1 = t1  t2 = t2  alice = alice  bob = bob  a = a  b = b  c = c
    Thread = {t1, t2}
    NoThread = NoThread
    None = None
    User = {alice, bob}
    Password = {a, b}
    EmailVerification = TRUE
    ContractPolicy <- Declared
    LivePasswords <- Changing
    SignUps <- SignUpAndStudio
    SignIns <- AliceEnters
    Links <- BobJoins
    PasswordChanges <- AliceChanges
    NewPasswords = {a, b}
    MailCanFail = TRUE
    AuditCanFail = TRUE
    ResetLife = 1
    VerifyLife = 2
    SessionLife = 2
    StartTime = 2
    MaxSessions = 2
    MaxChallenges = 2
    MaxTime = 2
SYMMETRY Threads
INVARIANTS UnverifiedIsShutOut NoOrphanIdentity
