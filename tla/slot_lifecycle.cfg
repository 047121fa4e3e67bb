\* Two broadcasts of one slot on one queue worker: a customer who is alerted and one
\* who claims without an alert, and one cancellation.  Nothing is lost.
CONSTANTS
    Broadcasts = {b1, b2}
    Customers = {c1, c2}
    Waitlist = {c1}
    Cancels = {o1}
    NoCustomer = NoCustomer
    QueueWorkers = 1
    RedisUp = TRUE
    ByAlertOnly = FALSE
    MaxCrashes = 0
SPECIFICATION FairSpec
INVARIANTS
    TypeOK
    NoOrphanSending
    OverbookingNeedsOverwrite
    AuditTrail
PROPERTIES
    UndoneByEarlierReaders
    BroadcastEnds
    EveryRecipientIsLogged
\* Calls, tasks and jobs come to an end: the system may stop.
CHECK_DEADLOCK FALSE
