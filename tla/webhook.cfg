SPECIFICATION FairSpec
CONSTANTS
    c1 = c1
    c2 = c2
    c3 = c3
    Callers = {w1, w2}
    MaxRetries = 1
    HasCredentials = TRUE
    Messages <- MCMessages
    Button <- MCButton
    Keywords = {"keyword"}
    Numbers <- MCNumbers
    Unsigned <- MCNumbers
    Falsy = {zero}
    SlotId = slot
    slot = slot
    gone = gone
    zero = zero
    Sender <- MCSender
    Customers <- MCCustomers
    PhoneOf <- MCPhoneOf
    Payloads <- MCPayloads
    Content <- MCContent
    Genuine = {"p1", "p2"}
    SecretSet = TRUE
    Production = TRUE
    MaxPosts <- MCMaxPosts
    MaxFaults = 1
    MaxResends <- MCOnce
    MaxExpiries <- MCOnce
INVARIANTS
    TypeOK
    ActedOnce
    CopiesHaveCause
    SilenceHasCause
    GoodNewsIsTrue
    OnlyGenuineActs
PROPERTIES
    ImplementsContract
    AckedIsHandled
CHECK_DEADLOCK FALSE
