CONSTANTS
    ann = ann
    bob = bob
    w1 = w1
    w2 = w2
    l1 = l1
    l2 = l2
    u1 = u1
    u2 = u2
    s1 = s1
    milk = milk
    tea = tea
    t1 = t1
    t2 = t2
    None = None
    People = {ann, bob}
    Devices = {w1, w2}
    holder <- MCHolder
    Online = {bob}
    Lists = {l1, l2}
    Uuids = {u1, u2, s1}
    Spare = {s1}
    Ids = {1, 2, 3, 4}
    Names = {milk, tea}
    Amounts <- MCAmounts
    Tags = {t1, t2}
    Aisles = {t1}
    Walks <- MCWalks
    Batches <- MCBatches
    Slack = 1
    MaxTime = 1
    MaxRows = 2
    Flaky = TRUE
    Owners <- MCOwners
    Members <- MCMembers
SPECIFICATION MCSpec
INVARIANTS
    TypeOK
    AnsweredIsRemembered
    OneRowPerUuid
    NeverFromTheFuture
    WritesWereAllowed
PROPERTIES
    RememberedIsSettled
CHECK_DEADLOCK FALSE
