SPECIFICATION MerchantSpec
CONSTANTS
    c1 = c1
    c2 = c2
    c3 = c3
    s1 = s1
    s2 = s2
    e1 = e1
    e2 = e2
    q1 = q1
    NoParent = NoParent
    Categories = {c1, c2, c3}
    Slugs = {s1, s2}
    SlugOf <- MCSlugOf
    Editors = {e1, e2}
    Products = {q1}
    j1 = j1
    j2 = j2
    j3 = j3
    k1 = k1
    k2 = k2
    k3 = k3
    NoToken = NoToken
    Tokens = {j1, j2, j3}
    Calls = {k1, k2, k3}
    m1 = m1
    m2 = m2
    a1 = a1
    a2 = a2
    v1 = v1
    v2 = v2
    v3 = v3
    l1 = l1
    l2 = l2
    o1 = o1
    o2 = o2
    h1 = h1
    h2 = h2
    Nothing = Nothing
    Codes = {o1, o2}
    Links = {l1, l2}
    Shops = {h1, h2}
    Visits = {v1, v2, v3}
    NoMerchant = NoMerchant
    NoWorkflow = NoWorkflow
    Merchants = {m1, m2}
    Jobs = {a1, a2}
    MaxErrors = 2
    d1 = d1
    d2 = d2
    Definitions = {d1, d2}
    Changes = {k1, k2}
    MaxVersions = 4
    MaxOutages = 1
    u1 = u1
    u2 = u2
    t1 = t1
    t2 = t2
    g1 = g1
    g2 = g2
    Blank = Blank
    Templates = {t1, t2}
    Configs = {g1, g2}
    Prompters = {u1, u2}
    MaxTroubles = 1
    b1 = b1
    b2 = b2
    NoBotPrompt = NoBotPrompt
    BotPromptIds = {b1, b2}
    Curators = {u1, u2}
    MaxStumbles = 1
    q2 = q2
    n1 = n1
    n2 = n2
    NoHost = NoHost
    Lines = {q1, q2}
    Hosts = {n1, n2}
    MaxSnags = 1
    x1 = x1
    x2 = x2
    f1 = f1
    f2 = f2
    f3 = f3
    Unlisted = Unlisted
    NotYet = NotYet
    Gone = Gone
    Nobody = Nobody
    Sellers = {m1, m2}
    Addresses = {x1, x2}
    Deals = {f1, f2, f3}
    MaxSlips = 1
INVARIANTS
    MerchantTypeOK
    TreeStaysWhole
    TokensEndOnce
    SpentLinksAreDead
    AnsweredHasMerchant
    MerchantsMatchWorkflows
    NewestVersionRuns
    PromptsAreCurrent
    TalkIsSound
    AddressesAreKept
CHECK_DEADLOCK FALSE
