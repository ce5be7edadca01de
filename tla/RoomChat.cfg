SPECIFICATION RoomSpec
CONSTANTS
    owner = owner
    guest = guest
    tab = tab
    r1 = r1
    r2 = r2
    Users = {owner, guest}
    Tabs = {tab}
    UserOf <- UserOfDef
    Owner = owner
    Requests = {r1, r2}
    HistoryLimit = 1
    MaxMessages = 2
    MaxConnects <- MaxConnectsDef
    p1 = p1
    p2 = p2
    q = q
    other = other
    Pinners = {p1, p2}
    Asked = {q, other}
    NoPin = NoPin
    MaxPins = 3
    a1 = a1
    a2 = a2
    Slots = {a1, a2}
    Unread = Unread
    MaxAsks = 2
    MaxVisits = 3
    MaxDrops = 3
SYMMETRY RequestSymmetry
INVARIANTS
    AnnouncedOnce
    EachShownOnce
    PinRight
    RoomPagesRight
PROPERTIES
    MembersStay
CHECK_DEADLOCK FALSE
