SPECIFICATION Spec
CONSTANTS
    t1 = t1  t2 = t2  r1 = r1  c1 = c1  p1 = p1  v1 = v1  pp1 = pp1  pp2 = pp2
    Thread = {t1, t2}
    NoThread = NoThread
    None = None
    Error = Error
    Route = {r1}
    Capability = {c1}
    Policy = {p1}
    Provider = {v1}
    PasswordPolicy = {pp1, pp2}
    ValidPasswordPolicy = {pp1}
    Requested <- TwoEdits
    DiscoveryRevision = {7}
    Batches <- DistinctBatch
    Embedded = FALSE
    MaxProposals = 2
INVARIANTS TypeOK HistoryIsChain PreviewHonoured NoApplyWithoutApproval AppliedAtMostOnce
PROPERTIES FinalStatusHolds ImplementsLog CurrentCallCommits
