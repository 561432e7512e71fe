SPECIFICATION TreeSpec
CONSTANTS
    c1 = c1
    c2 = c2
    c3 = c3
    s1 = s1
    s2 = s2
    e1 = e1
    e2 = e2
    q1 = q1
    NoParent = NoParent
    Categories = {c1, c2, c3}
    Slugs = {s1, s2}
    SlugOf <- MCSlugOf
    Editors = {e1, e2}
    Products = {q1}
INVARIANTS
    NoLoop
CHECK_DEADLOCK FALSE
