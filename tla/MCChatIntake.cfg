SPECIFICATION Spec
CONSTANTS
    d1 = d1
    d2 = d2
    d3 = d3
    r1 = r1
    c1 = c1
    m1 = m1
    m2 = m2
    s1 = s1
    s2 = s2
    Deliveries <- MCDeliveries
    Replies <- MCReplies
    MessageOf <- MCMessageOf
    SourceOf <- MCSourceOf
    RoleOf <- MCRoleOf
    ChatOf <- MCChatOf
    Contents <- MCConversations
    Modes <- MCModes
    MaxMishaps = 1
INVARIANTS
    TypeOK
    EventFollowsMessage
    StoredAgainOnlyByRace
    AgentHasTheFloor
    SkippedIsExplained
PROPERTY
    ConversationOnlyGrows
CHECK_DEADLOCK FALSE
