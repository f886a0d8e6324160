\* One ping command; a cache that is full with one address.
CONSTANTS
    OnLink = {gw, host}
    Remote = {far}
    gateway_ip = gw
    ARP_CACHE_SIZE = 1
    Attempts = 2
    ResolveTicks = 1
    PingTicks = 2
    SeqCount = 2
    RxSlots = 2
    Tags = {1}
    MaxPings = 2
    MaxArrivals = 3
SPECIFICATION FairSpec
INVARIANTS
    SentToNextHop
    EchoAnswersRequest
    ReplyIsOurs
PROPERTIES
    GivesUpUnanswered
    PingEnds
\* The bounds end a behaviour.
CHECK_DEADLOCK FALSE
