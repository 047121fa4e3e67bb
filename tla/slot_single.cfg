\* One quick-published broadcast while Redis is down: a single executor, claims
\* by alert only, no cancellation.
CONSTANTS
    Broadcasts = {b1}
    Customers = {c1, c2}
    Waitlist = {c1, c2}
    Cancels = {}
    NoCustomer = NoCustomer
    QueueWorkers = 2
    RedisUp = FALSE
    ByAlertOnly = TRUE
    MaxCrashes = 1
SPECIFICATION Spec
PROPERTIES
    ImplementsFcfs
\* Calls, tasks and jobs come to an end: the system may stop.
CHECK_DEADLOCK FALSE
