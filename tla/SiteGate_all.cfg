\* Three callers of one site, every interleaving of their cancellations, under
\* the fairness of the goroutines.
SPECIFICATION FairSpec
CONSTANTS
    r1 = r1
    r2 = r2
    r3 = r3
    d1 = d1
    Domains = {d1}
    Requests = {r1, r2, r3}
    DomainOf <- OneSite
    NoRequest = NoRequest
ACTION_CONSTRAINT InOrderNext
INVARIANTS TypeOK Exclusion NoStaleEditor Bookkeeping
PROPERTIES TurnClosesDoor ImplementsAdmission EveryCallEnds
\* Every call may have ended.
CHECK_DEADLOCK FALSE
