\* One broadcast with one executor, one recipient, one cancellation, nothing lost.
CONSTANTS
    Broadcasts = {b1}
    Customers = {c1}
    Waitlist = {c1}
    Cancels = {o1}
    NoCustomer = NoCustomer
    QueueWorkers = 2
    RedisUp = FALSE
    ByAlertOnly = TRUE
    MaxCrashes = 0
SPECIFICATION Spec
PROPERTIES
    NoClaimAfterCancel
\* Calls, tasks and jobs come to an end: the system may stop.
CHECK_DEADLOCK FALSE
