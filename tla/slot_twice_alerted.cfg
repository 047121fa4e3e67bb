\* One broadcast, one recipient, both executors, nothing lost.
CONSTANTS
    Broadcasts = {b1}
    Customers = {c1}
    Waitlist = {c1}
    Cancels = {}
    NoCustomer = NoCustomer
    QueueWorkers = 2
    RedisUp = TRUE
    ByAlertOnly = FALSE
    MaxCrashes = 0
SPECIFICATION Spec
INVARIANTS
    OneAlertPerCustomer
\* Calls, tasks and jobs come to an end: the system may stop.
CHECK_DEADLOCK FALSE
