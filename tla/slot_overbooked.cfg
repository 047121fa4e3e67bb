\* One broadcast, both executors, claims by alert only, nothing lost.
CONSTANTS
    Broadcasts = {b1}
    Customers = {c1, c2}
    Waitlist = {c1, c2}
    Cancels = {}
    NoCustomer = NoCustomer
    QueueWorkers = 2
    RedisUp = TRUE
    ByAlertOnly = TRUE
    MaxCrashes = 0
SPECIFICATION Spec
INVARIANTS
    ZeroOverbooking
\* Calls, tasks and jobs come to an end: the system may stop.
CHECK_DEADLOCK FALSE
