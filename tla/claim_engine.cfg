\* Two racing claims, one claim with an unknown id and two cancellations; every Redis fault, database error and worker crash.
CONSTANTS
    r1 = r1
    r2 = r2
    r3 = r3
    c1 = c1
    c2 = c2
    ghost = ghost
    Requests = {r1, r2, r3}
    Cancels = {o1, o2}
    Customers = {c1, c2, ghost}
    Registered = {c1, c2}
    By <- MCBy
    NoCustomer = NoCustomer
    Nobody = Nobody
SPECIFICATION FairSpec
INVARIANTS
    TypeOK
    AtMostOneWinner
    WinnerOnRecord
PROPERTIES
    EveryClaimEnds
    ImplementsFcfs
\* Requests come to an end: the system may stop.
CHECK_DEADLOCK FALSE
