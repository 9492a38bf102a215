CONSTANTS
    r1 = r1
    r2 = r2
    u1 = u1
    n1 = n1
    a = a
    b = b
    Requests = {r1, r2}
    Users = {u1}
    Names = {n1}
    Texts = {a, b}
    Tenant = Tenant
    MaxServed = 1
    None = None
    l1 = l1
    l2 = l2
    v1 = v1
    v2 = v2
    Lookups = {l1, l2}
    Values = {v1, v2}
    Missing = Missing
    Ttl = 2
    LoadMax = 1
    Nothing = Nothing
    w1 = w1
    w2 = w2
    m1 = m1
    Workers = {w1, w2}
    Messages = {m1}
    MaxSkew = 1
    TokenLife = 3
    TokenTtl = 6
    Drift = 1
    MaxNow = 7
    Never = Never
    Askers = {q1, q2}
    s1 = s1
    Views = {s1}
    Blocks = {1, 2}
    Hour = 1
    MaxTime = 2
    Connections = 2
    LookedAt = 1
    MaxKept = 3
    NoBriefing = NoBriefing
    c1 = c1
    c2 = c2
    k1 = k1
    k2 = k2
    Clients = {c1, c2}
    Calls = {k1, k2}
    SidTtl = 1
    MaxSids = 2
    NoSid = NoSid
    Records = {1, 2, 3, 4}
    Strange = {4}
    Unpaid = {2}
    Cancelled = {3}
    NoStatus = {4}
    NoNumber = {1}
    Sources = 2
    PageSize = 1
    MaxRead = 3
    MaxListed = 3
    Spellings = 2
    MaxChanges = 2
    Points = {1, 2, 3}
    Others = {2}
    Exact = {3}
    LimitAsked = 2
    ProductLimit = 1
    WideLimit = 3
    EntityLimit = 2
    TextLimit = 1
    Variants = 2
    MinScore = 2
    MaxWrites = 1
    Contents = {1, 2}
    MaxTokens = 2
    Nil = Nil
    d1 = d1
    d2 = d2
    q1 = q1
    q2 = q2
    q3 = q3
    ChatRequests = {q1, q2, q3}
    UserNames = {n1}
    Generated = Generated
    Topic = Topic
    NoName = NoName
    NoOne = NoOne
    Clocks = {930, 2575}
    Dayparts = {840}
    WrittenHours = {1, 13}
    WrittenMinutes = {30, 90}
    Descriptions = {d1, d2}
    Unset = Unset
    Ids = {"c1", "m1"}
    Contacts = {"c1"}
    Window = 2
    EventWindow = 1
    MaxMessages = 2
    Unknown = Unknown
SPECIFICATION Spec
INVARIANTS
    InForceAsDecided ServedRecently NonceUsedOnce OneLoginPerClient CountedOnce AnswersAsked
    WritesAsConfirmed AimedAsNamed NamedByUserGoneForGood EditedAsWished OneRecordOnScreen
PROPERTIES OneBriefingAnHour
CHECK_DEADLOCK FALSE
