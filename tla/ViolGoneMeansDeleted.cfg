CONSTANTS
    MaxFailures = 0
    MaxElsewhere = 0
    c1 = c1
    c2 = c2
    c3 = c3
    c4 = c4
    ann = ann
    bob = bob
    phone = phone
    tablet = tablet
    l1 = l1
    l2 = l2
    u1 = u1
    u2 = u2
    s1 = s1
    milk = milk
    tea = tea
    t1 = t1
    None = None
    People = {ann, bob}
    Devices = {phone, tablet}
    holder <- MCHolder
    Online = {bob}
    Lists = {l1, l2}
    Uuids = {u1, u2, s1}
    Spare = {s1}
    Ids = {c1, c2, c3, c4}
    Names = {milk, tea}
    Amounts = {1}
    Tags = {t1}
    Aisles = {t1}
    Walks <- MCWalks
    Batches <- MCBatches
    Scenes <- MCScenes
    Scripts <- MCScripts
    Callers = {"screen"}
    Slack = 0
    MaxTime = 0
    MaxRows = 3
    Flaky = FALSE
    Owners <- MCOwners
    Members <- MCMembers
SPECIFICATION MCSpec
PROPERTY GoneMeansDeleted
CHECK_DEADLOCK FALSE
