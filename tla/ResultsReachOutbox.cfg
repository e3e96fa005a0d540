SPECIFICATION FairSpec
CONSTANTS
    x = x
    y = y
    tg = tg
    web = web
    u1 = u1
    u2 = u2
    q = q
    t1 = t1
    b1 = b1
    r1 = r1
    o1 = o1
    h1 = h1
    None = None
    Agents = {x, y}
    Sessions = {tg, web}
    Telegram = {tg}
    Bots = {x}
    Updates = {u1, u2}
    SessionOf <- TwoPeople
    BotOf <- OnX
    Commands <- TaskAndShutdown
    Posts <- AnyPost
    Requests = {q}
    Asker <- FromX
    Target <- ToY
    MaxStarted = 1
    MaxPosted = 0
    MaxTogether = 1
    MaxFaults = 0
    MaxMoves = 0
PROPERTIES
    ResultsReachOutbox
CHECK_DEADLOCK FALSE
