SPECIFICATION Spec
CONSTANTS
    Mobiles = {"5-A"}
    Landlines = {"3-B"}
    None = None
    Forms <- MCForms
    Form <- MCForm
    OptOuts <- MCOptOuts
    Goodbye <- MCGoodbye
    Asks <- MCAsks
    Ask <- MCAsk
    Businesses = {"shiran", "twin"}
    Services = {1}
    Applicants <- MCApplicants
    Seeds = {"seed"}
    Base <- MCBase
    OwnPhone <- MCOwnPhone
    StemWords = 1
    NoToken = NoToken
    CodeRequests <- MCCodeRequests
    Verifications <- MCVerifications
    Codes = {"1111", "2222"}
    LoginAs <- MCLoginAs
    NoCode = NoCode
INVARIANTS
    WaitTypeOK
    OneRowPerPhone
    OnlyOverlapsCoexist
    StoredUntilReplaced
    AlertsAreWanted
    WaitlistedAreAlerted
    GoodbyeIsHeard
    AccountsTypeOK
    UniqueKeys
    FailureHasCause
    OwnBusinessOnly
    LoginTypeOK
    TwiceNeedsOverlap
    LostCodeHasCause
    CodeOpensItsOwn
PROPERTIES
    RequestsEnd
CHECK_DEADLOCK FALSE
