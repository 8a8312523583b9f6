SPECIFICATION ProvidersFairSpec
CONSTANTS
    Clients = {c1}
    Slots = {s1, s2, s3}
    Feeds <- MCFeeds
    KindOf <- MCKindOf
    NewsKey = TRUE
    Threshold = 2
    ResetTimeout = 2
INVARIANTS
    Overshoot
PROPERTY
    OpenCloses
