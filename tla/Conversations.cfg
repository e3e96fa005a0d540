SPECIFICATION FairSpec
CONSTANTS
    x = x
    y = y
    tg = tg
    web = web
    u1 = u1
    u2 = u2
    q = q
    t1 = t1
    b1 = b1
    r1 = r1
    o1 = o1
    h1 = h1
    None = None
    Agents = {x, y}
    Sessions = {tg, web}
    Telegram = {tg}
    Bots = {x}
    Updates = {u1, u2}
    SessionOf <- TwoPeople
    BotOf <- OnX
    Commands <- TaskAndShutdown
    Posts <- AnyPost
    Requests = {q}
    Asker <- FromX
    Target <- ToY
    MaxStarted = 2
    MaxPosted = 2
    MaxTogether = 2
    MaxFaults = 1
    MaxMoves = 1
INVARIANTS
    TypeOK
    AnsweredInPlace
    TwiceOnlyAfterFault
    OnlyCommandsAreWorked
    FirstReplyIsNotUnsolicited
    OneSwallowedPerRequest
    SteadyMembersReached
    OnlyMembersReached
PROPERTIES
    ChatsAreAnswered
    WaitsEnd
CHECK_DEADLOCK FALSE
