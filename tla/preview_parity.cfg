SPECIFICATION WaitSpec
CONSTANTS
    Mobiles = {"5-A", "5-B"}
    Landlines = {}
    None = None
    Forms <- MCForms
    Form <- MCForm
    OptOuts <- MCOptOuts
    Goodbye <- MCGoodbye
    Asks <- MCAsks
    Ask <- MCAsk
    Businesses = {"shiran"}
    Services = {}
PROPERTY
    PreviewParity
CHECK_DEADLOCK FALSE
