SPECIFICATION RequestsSpec
CONSTANTS
    d1 = d1
    d2 = d2
    d3 = d3
    r1 = r1
    c1 = c1
    m1 = m1
    m2 = m2
    s1 = s1
    s2 = s2
    Deliveries <- MCTwo
    Replies <- MCReplies
    MessageOf <- MCMessageOf
    SourceOf <- MCSourceOf
    RoleOf <- MCRoleOf
    ChatOf <- MCChatOf
    Contents <- MCOthers
    Modes <- MCModes
    MaxMishaps = 1
    x1 = x1
    x2 = x2
    p1 = p1
    Records = {x1, x2}
    Publishes = {p1}
    MaxFaults = 2
INVARIANTS
    RabbitTypeOK
    SubscriptionsAreServed
PROPERTIES
    EveryRequestEnds
    EveryPublishEnds
CHECK_DEADLOCK FALSE
