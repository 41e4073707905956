SPECIFICATION Spec
CHECK_DEADLOCK FALSE
CONSTANTS
    r1 = r1  r2 = r2
    None = None
    Error = Error
    Reader = {r1, r2}
    Deployments <- UnprotectOnly
    MethodText <- MethodTexts
    Mentions <- Mentioned
    Route <- AppKeys
    Capability <- Capabilities
    Policy <- PolicyValues
    Provider = {"google"}
    PasswordPolicy <- PasswordPolicies
    ValidPasswordPolicy <- PasswordPolicies
INVARIANT RequestUnderstood
