\* The parts beside booking, orders and coupons, each as the subject.
SPECIFICATION PartsSpec
CONSTANTS
    a1 = a1
    a2 = a2
    o1 = o1
    o2 = o2
    o3 = o3
    Artist = {a1, a2}
    Request = {o1, o2, o3}
    NoOrder = NoOrder
    None = None
    Client = {q1, q2}
    Day = {1, 2}
    DayLength = 3
    Offset = 1
    ArtistHours <- UnequalHours
    Timetable <- TwoTimetables
    Duration = {2}
    MaxActs = 3
    PoolSize = 2
    ArtistOf <- OrderArtist
    PreviousOf <- OrderBefore
    Entry = {x1, x2}
    Account = {c1, c2}
    Email = {e1, e2}
    Password = {w1, w2}
    MaxResets = 1
    Device = {d1, d2}
    Token = {t1, t2}
    Note = {n1}
INVARIANTS
    PartsTyped
    HoursFreeOrSold
    SlotsBookable
    InvoicesWithoutGaps
    StuckOnlyByExhaustion
    UsesCounted
    MarksAgree
    DeletionsStick
    AccountsWhole
    AveragesRight
    ReviewedOnce
    CredentialsStick
    ResetsAsked
    LatestDevice
PROPERTIES
    OpenDaysOffered
    OrdersAnswered
    PurgedInTime
    LastArtistKept
\* A day may be sold out, a request refused for good: the parts may stop.
CHECK_DEADLOCK FALSE
