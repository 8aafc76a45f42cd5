SPECIFICATION FairSpec
CONSTANTS
    Pins = {"signal", "other"}
    High = {"signal"}
    Upstreams <- MCUpstreams
    Begins <- MCBegins
    PageCap = 2
    Restarts = 1
PROPERTIES NotRepeated GoneIsGone HighIsTold
